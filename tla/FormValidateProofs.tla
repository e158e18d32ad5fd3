-------------------------- MODULE FormValidateProofs --------------------------
(***************************************************************************)
(* Proofs about FormValidate, for any forms, validators and inputs.        *)
(*                                                                         *)
(* That no field of a list that was sent is red is not inductive: a field  *)
(* without a validator keeps its mark, so it must not have got a red one   *)
(* before, but from its group.  What a mark that is right says of the      *)
(* value follows from one invariant, that the marks are the verdicts on    *)
(* the present values, and from a lemma on the validator.                  *)
(***************************************************************************)
EXTENDS FormValidate, WellFoundedInduction, TLAPS

\* A field without a validator gets its mark from its group only.
IgnoredOK ==
    \A l \in Lists : \A f \in FieldsOf(l) :
        Ref[f] = "ignored" /\ style[f] = "failed" => f \in ToSet(Group[l].fields)

\* As long as nothing was touched since the last press, the mark of a field
\* with a validator of its own is right exactly if that validator accepts the
\* present value.
VerdictsShown ==
    ~touched /\ sent # Aborted =>
        \A l \in Lists : \A f \in FieldsOf(l) :
            f \notin Deactivated /\ Ref[f] # "ignored" =>
                (style[f] = "ok" <=> Own(f) = "ok")

Inv == TypeOK /\ IgnoredOK /\ SentUnmarked /\ VerdictsShown

Marks == {"none", "ok", "failed"}

-----------------------------------------------------------------------------
(* What validators answer. *)

LEMMA ValidatorAnswers ==
    ASSUME NEW ref \in References, NEW v, NEW min, NEW max, NEW w
    PROVE  ValidateByParams(ref, v, min, max, w) \in Answers
  <1>1. /\ MinMax(v, min, max) \in Answers /\ IPv4Address(v) \in Answers
        /\ IPv4SubnetMask(v) \in Answers /\ IPPort(v) \in Answers
        /\ IPv6Address(v) \in Answers /\ DNSRecordName(v) \in Answers
        /\ DateInternational(v, w) \in Answers /\ Float(v) \in Answers
    <2> USE DEF Answers, Messages
    <2>1. MinMax(v, min, max) \in Answers
      BY DEF MinMax
    <2>2. IPv4Address(v) \in Answers
      BY DEF IPv4Address
    <2>3. IPv4SubnetMask(v) \in Answers
      BY DEF IPv4SubnetMask
    <2>4. IPPort(v) \in Answers
      <3> DEFINE Outside == v.kind = "number" /\ v.n \notin 1 .. 65535
      <3>1. IPPort(v) = CASE v = Empty -> "port-empty"
                          [] Outside -> "port-range"
                          [] OTHER -> "ok"
        BY DEF IPPort
      <3> HIDE DEF Outside
      <3> QED BY <3>1
    <2>5. IPv6Address(v) \in Answers
      BY DEF IPv6Address
    <2>6. DNSRecordName(v) \in Answers
      BY DEF DNSRecordName
    <2>7. DateInternational(v, w) \in Answers
      BY DEF DateInternational
    <2>8. Float(v) \in Answers
      BY DEF Float
    <2> QED BY <2>1, <2>2, <2>3, <2>4, <2>5, <2>6, <2>7, <2>8
  <1>2. Boolean(v.kind # "number" \/ v.n < 1) \in Answers
    BY DEF Boolean, Answers
  <1>3. {"ok", "fail"} \subseteq Answers
    BY DEF Answers
  <1> QED BY <1>1, <1>2, <1>3 DEF ValidateByParams, References

LEMMA GroupAnswers ==
    ASSUME NEW fn \in GroupFunctions, NEW g
    PROVE  GroupCheck(fn, g) \in Answers
  <1>1. /\ CheckDiffer(g) \in Answers /\ CheckNull(g) \in Answers
        /\ CheckEmpty(g) \in Answers /\ CheckItemsMatch(g) \in Answers
        /\ MinOneItemNotNull(g) \in Answers /\ CheckItemsOr(g) \in Answers
    BY DEF CheckDiffer, CheckNull, CheckEmpty, CheckItemsMatch, MinOneItemNotNull,
           CheckItemsOr, Boolean, Answers, Messages
  <1>2. UserTimeHourMinuteSecond(g) \in Answers
    BY DEF UserTimeHourMinuteSecond, Answers, Messages
  <1>3. DNSRecordValuePlusType(g) \in Answers
    <2> DEFINE type == g[1].text
               ref == CASE type = "A" -> "IPv4Address"
                        [] type = "AAAA" -> "IPv6Address"
                        [] type \in {"CNAME", "MX"} -> "DNSRecordName"
                        [] OTHER -> "undefined"
    <2>1. ref \in References
      BY DEF References
    <2> HIDE DEF ref
    <2>2. ValidateByParams(ref, g[2], 0, 0, FALSE) \in Answers
      BY <2>1, ValidatorAnswers
    <2>3. "ok" \in Answers
      BY DEF Answers
    <2>4. DNSRecordValuePlusType(g) =
              IF type \in {"TXT", "SRV"} THEN "ok"
                                         ELSE ValidateByParams(ref, g[2], 0, 0, FALSE)
      BY DEF DNSRecordValuePlusType, ref
    <2> QED BY <2>2, <2>3, <2>4
  <1>4. "dummy" \in Answers
    BY DEF Answers, Messages
  <1> QED BY <1>1, <1>2, <1>3, <1>4 DEF GroupCheck, GroupFunctions

LEMMA MarkedTyped ==
    ASSUME NEW old \in Marks, NEW answer
    PROVE  Marked(old, answer) \in Marks
  BY DEF Marked, Marks

\* The last field with a message is one with a message.
LEMMA LastHasMessage ==
    ASSUME NEW l \in AllLists, WithMessage(l) # {}
    PROVE  Own(LastOf(l, WithMessage(l))) \in Messages
  <1> DEFINE T == WithMessage(l)
             G == {Len(Fields[l]) - i : i \in T}
             R == OpToRel(<, Nat)
  <1>1. Fields[l] \in Seq(FieldsOf(l))
    BY FormAssumption
  <1>2. T \subseteq 1 .. Len(Fields[l])
    BY <1>1 DEF WithMessage
  <1>3. G \subseteq Nat /\ G # {}
    BY <1>1, <1>2
  <1>4. PICK x \in G : \A y \in G : ~ (<<y, x>> \in R)
    BY <1>3, NatLessThanWellFounded, WFMin
  <1>5. PICK i \in T : x = Len(Fields[l]) - i
    OBVIOUS
  <1>6. \A j \in T : ~(Len(Fields[l]) - j < x)
    BY <1>3, <1>4 DEF OpToRel
  <1>7. \A j \in T : j <= i
    BY <1>1, <1>2, <1>5, <1>6
  <1> DEFINE k == CHOOSE m \in T : \A j \in T : j <= m
  <1>8. k \in T
    BY <1>7
  <1> HIDE DEF k
  <1>9. LastOf(l, T) = Fields[l][k]
    BY DEF LastOf, k
  <1> QED BY <1>8, <1>9 DEF WithMessage

LEMMA KnownLists ==
    ASSUME button \in Buttons
    PROVE  Lists \subseteq AllLists /\ Shown \subseteq AllFields
  <1>1. Lists \subseteq AllLists
    BY DEF Lists, AllLists
  <1> QED BY <1>1 DEF Shown, AllFields

-----------------------------------------------------------------------------
(* The invariant holds at first and after typing, switching tabs and resetting. *)

LEMMA InvInit == Init => Inv
  <1> SUFFICES ASSUME Init PROVE Inv
    OBVIOUS
  <1>1. Lists \subseteq AllLists /\ Shown \subseteq AllFields
    BY KnownLists DEF Init
  <1>2. \A f \in Shown : Default[f] \in Inputs[f]
    BY <1>1, FormAssumption
  <1>3. TypeOK
    <2>1. DOMAIN value = Shown /\ \A f \in Shown : value[f] \in Inputs[f]
      BY <1>2 DEF Init, FirstValue
    <2>2. style \in [Shown -> {"none", "ok", "failed"}]
      BY DEF Init
    <2>3. DOMAIN error = Lists /\ \A l \in Lists : error[l].detail \in Messages \cup {"none"}
      BY DEF Init, NoError
    <2>4. sent \in Outcomes /\ data \subseteq Lists /\ data = {}
      BY DEF Init, Outcomes
    <2>5. Deactivated \subseteq Shown /\ (~TabActive => Deactivated = Shown)
      BY DEF Init, OfTab
    <2> QED BY <2>1, <2>2, <2>3, <2>4, <2>5 DEF Init, TypeOK
  <1>4. IgnoredOK
    <2>1. \A l \in Lists : \A f \in FieldsOf(l) : f \in Shown
      BY DEF Shown
    <2> QED BY <2>1 DEF Init, IgnoredOK
  <1>5. SentUnmarked /\ VerdictsShown
    BY DEF Init, SentUnmarked, VerdictsShown
  <1> QED BY <1>3, <1>4, <1>5 DEF Inv

\* Whatever leaves the form alone keeps its lists and fields.
LEMMA SameForm ==
    ASSUME button' = button
    PROVE  Lists' = Lists /\ Shown' = Shown
  BY DEF Lists, Shown

LEMMA TypeKeeps ==
    ASSUME Inv, NEW f \in Shown, NEW v \in Inputs[f], Type(f, v)
    PROVE  Inv'
  <1> USE DEF Type
  <1>1. button' = button
    OBVIOUS
  <1>2. Lists' = Lists /\ Shown' = Shown
    BY <1>1, SameForm
  <1>3. TypeOK'
    <2>1. DOMAIN value' = Shown /\ \A g \in Shown : value'[g] \in Inputs[g]
      BY DEF Inv, TypeOK
    <2>2. Deactivated' \subseteq Shown /\ TabActive
      <3>1. CASE OnChange[f].field = ""
        BY <3>1 DEF Inv, TypeOK
      <3>2. CASE OnChange[f].field # ""
        <4>1. PICK l \in Lists : f \in FieldsOf(l)
          BY DEF Shown
        <4>2. l \in AllLists
          BY KnownLists DEF Inv, TypeOK
        <4>3. OnChange[f].field \in Shown
          BY <3>2, <4>1, <4>2, FormAssumption DEF Shown
        <4> QED BY <3>2, <4>3 DEF Switched, Inv, TypeOK
      <3> QED BY <3>1, <3>2
    <2>3. DOMAIN error' = Lists /\ \A l \in Lists : error'[l].detail \in Messages \cup {"none"}
      BY DEF Inv, TypeOK
    <2> QED BY <1>1, <1>2, <2>1, <2>2, <2>3 DEF Inv, TypeOK
  <1>4. IgnoredOK'
    BY <1>1, <1>2 DEF Inv, IgnoredOK
  <1>5. SentUnmarked' /\ VerdictsShown'
    BY DEF SentUnmarked, VerdictsShown
  <1> QED BY <1>3, <1>4, <1>5 DEF Inv

LEMMA ResetKeeps ==
    ASSUME Inv, NEW l \in Lists, Reset(l)
    PROVE  Inv'
  <1> USE DEF Reset
  <1>1. button' = button
    OBVIOUS
  <1>2. Lists' = Lists /\ Shown' = Shown
    BY <1>1, SameForm
  <1>3. TypeOK'
    <2>1. \A f \in Shown : Default[f] \in Inputs[f]
      BY KnownLists, FormAssumption DEF Inv, TypeOK
    <2>2. DOMAIN value' = Shown /\ \A f \in Shown : value'[f] \in Inputs[f]
      BY <2>1 DEF FirstValue, Inv, TypeOK
    <2> QED BY <1>1, <1>2, <2>2 DEF Inv, TypeOK
  <1>4. IgnoredOK'
    BY <1>1, <1>2 DEF Inv, IgnoredOK
  <1>5. SentUnmarked' /\ VerdictsShown'
    BY DEF SentUnmarked, VerdictsShown
  <1> QED BY <1>3, <1>4, <1>5 DEF Inv

LEMMA SwitchKeeps ==
    ASSUME Inv, NEW active \in BOOLEAN, SwitchTab(active)
    PROVE  Inv'
  <1> USE DEF SwitchTab
  <1>1. button' = button
    OBVIOUS
  <1>2. Lists' = Lists /\ Shown' = Shown
    BY <1>1, SameForm
  <1>3. TypeOK'
    <2>1. Deactivated' \subseteq Shown /\ (~TabActive' => Deactivated' = Shown)
      BY DEF OfTab
    <2> QED BY <1>1, <1>2, <2>1 DEF Inv, TypeOK
  <1>4. IgnoredOK'
    BY <1>1, <1>2 DEF Inv, IgnoredOK
  <1>5. SentUnmarked' /\ VerdictsShown'
    BY DEF SentUnmarked, VerdictsShown
  <1> QED BY <1>3, <1>4, <1>5 DEF Inv

-----------------------------------------------------------------------------
(* The press of the button. *)

\* What a container shows in brackets is a message.
LEMMA ErrorTyped ==
    ASSUME NEW l \in AllLists
    PROVE  ErrorAfter(l).detail \in Messages \cup {"none"}
  <1>1. CASE Valid(l)
    <2>1. ErrorAfter(l) = NoError
      BY <1>1 DEF ErrorAfter
    <2>2. NoError.detail = "none"
      BY DEF NoError
    <2> QED BY <2>1, <2>2
  <1>2. CASE ~Valid(l) /\ GroupFails(l)
    BY <1>2 DEF ErrorAfter, Displayed, GroupFails
  <1>3. CASE ~Valid(l) /\ ~GroupFails(l)
    <2>1. CASE WithMessage(l) # {}
      <3>1. Own(LastOf(l, WithMessage(l))) \in Messages
        BY <2>1, LastHasMessage
      <3> QED BY <1>3, <2>1, <3>1 DEF ErrorAfter, Displayed
    <2>2. CASE WithMessage(l) = {}
      BY <1>3, <2>2 DEF ErrorAfter, Displayed
    <2> QED BY <2>1, <2>2
  <1> QED BY <1>1, <1>2, <1>3

\* A field is in one list only.
LEMMA OneList ==
    ASSUME button \in Buttons, NEW l \in Lists, NEW f \in FieldsOf(l)
    PROVE  (CHOOSE k \in Lists : f \in FieldsOf(k)) = l
  <1>1. \A k \in Lists : f \in FieldsOf(k) => k = l
    BY KnownLists, FormAssumption
  <1> QED BY <1>1

\* The mark that a press leaves, of a list that was validated.
NewMark(f, l) ==
    IF l \in Done THEN MarkAfter(f, l)
    ELSE IF l \in Broken /\ f \in Reached(l) THEN Marked(style[f], Own(f))
    ELSE style[f]

LEMMA MarkOf ==
    ASSUME TypeOK, Press, NEW l \in Lists, NEW f \in FieldsOf(l)
    PROVE  style'[f] = NewMark(f, l)
  <1>1. f \in Shown
    BY DEF Shown
  <1>2. (CHOOSE k \in Lists : f \in FieldsOf(k)) = l
    BY OneList DEF TypeOK
  <1> QED BY <1>1, <1>2 DEF Press, NewMark

LEMMA NewMarkTyped ==
    ASSUME TypeOK, NEW l \in Lists, NEW f \in FieldsOf(l)
    PROVE  NewMark(f, l) \in Marks
  <1>1. style[f] \in Marks
    BY DEF TypeOK, Shown, Marks
  <1>2. MarkAfter(f, l) \in Marks
    BY <1>1, MarkedTyped DEF MarkAfter, Marks
  <1> QED BY <1>1, <1>2, MarkedTyped DEF NewMark

\* A field without a validator that is no field of the group keeps its mark.
LEMMA IgnoredKeepsMark ==
    ASSUME NEW l \in Lists, NEW f \in FieldsOf(l),
           Ref[f] = "ignored", f \notin ToSet(Group[l].fields)
    PROVE  NewMark(f, l) = style[f]
  <1>1. Own(f) = "skip"
    BY DEF Own
  <1>2. Marked(style[f], Own(f)) = style[f]
    BY <1>1 DEF Marked, Failed
  <1> QED BY <1>2 DEF NewMark, MarkAfter

\* A red field of a valid list.
LEMMA ValidMarks ==
    ASSUME TypeOK, IgnoredOK, NEW l \in Lists, NEW f \in FieldsOf(l),
           Valid(l), MarkAfter(f, l) = "failed"
    PROVE  f \in Deactivated \/ (f \in ToSet(Group[l].fields) /\ GroupAnswer(l) = "fail")
  <1>0. l \in AllLists /\ Fields[l] \in Seq(FieldsOf(l)) \ {<<>>}
    BY KnownLists, FormAssumption DEF TypeOK
  <1>1. ~Failed(Own(f)) /\ ~GroupFails(l)
    BY DEF Valid
  <1>2. CASE f \in ToSet(Group[l].fields) /\ GroupRuns(l)
    <2>1. Failed(GroupAnswer(l))
      BY <1>2 DEF MarkAfter, Marked
    <2>2. Group[l].function \in GroupFunctions
      BY <1>0, <1>2, FormAssumption DEF GroupRuns
    <2>3. GroupAnswer(l) \in Answers
      BY <2>2, GroupAnswers DEF GroupAnswer
    <2>4. GroupAnswer(l) \notin Messages
      BY <1>1, <1>2 DEF GroupFails
    <2> QED BY <1>2, <2>1, <2>3, <2>4 DEF Failed, Answers
  <1>3. CASE ~(f \in ToSet(Group[l].fields) /\ GroupRuns(l))
    <2>1. Own(f) # "ok" /\ style[f] = "failed"
      BY <1>1, <1>3 DEF MarkAfter, Marked
    <2>2. Own(f) = "skip"
      BY <1>1, <2>1 DEF Failed
    <2>3. CASE f \in Deactivated
      BY <2>3
    <2>4. CASE f \notin Deactivated
      <3>1. Ref[f] = "ignored"
        <4>1. SUFFICES ASSUME Ref[f] # "ignored" PROVE FALSE
          OBVIOUS
        <4>2. f \in AllFields
          BY <1>0 DEF AllFields
        <4>3. Ref[f] \in References
          BY <4>1, <4>2, FormAssumption
        <4>4. ValidateByParams(Ref[f], value[f], Least[f], Most[f], west) \in Answers
          BY <4>3, ValidatorAnswers
        <4>5. "skip" \notin Answers
          BY DEF Answers, Messages
        <4> QED BY <2>2, <2>4, <4>1, <4>4, <4>5 DEF Own
      <3>2. f \in ToSet(Group[l].fields)
        BY <2>1, <3>1 DEF IgnoredOK
      <3>3. ~GroupRuns(l)
        BY <1>3, <3>2
      <3>4. Group[l].function # ""
        <4>1. Group[l].fields # <<>>
          BY <3>2 DEF ToSet
        <4> QED BY <1>0, <4>1, FormAssumption DEF GroupFunctions
      <3>5. Last(Fields[l]) \in FieldsOf(l)
        BY <1>0 DEF Last
      <3>6. Own(Last(Fields[l])) \in {"ok", "skip"}
        BY <3>5 DEF Valid, Failed
      <3> QED BY <3>3, <3>4, <3>6 DEF GroupRuns
    <2> QED BY <2>3, <2>4
  <1> QED BY <1>2, <1>3

\* The mark of a field with a validator of its own: no group touches it.
LEMMA JudgedByItsOwn ==
    ASSUME NEW l \in AllLists, NEW f \in FieldsOf(l),
           f \notin Deactivated, Ref[f] # "ignored"
    PROVE  MarkAfter(f, l) = "ok" <=> Own(f) = "ok"
  <1>1. f \notin ToSet(Group[l].fields)
    BY FormAssumption
  <1>2. MarkAfter(f, l) = Marked(style[f], Own(f))
    BY <1>1 DEF MarkAfter
  <1>3. Ref[f] \in References
    BY FormAssumption DEF AllFields
  <1>4. ValidateByParams(Ref[f], value[f], Least[f], Most[f], west) \in Answers
    BY <1>3, ValidatorAnswers
  <1>5. "skip" \notin Answers /\ "ok" # "skip"
    BY DEF Answers, Messages
  <1>6. Own(f) # "skip"
    BY <1>4, <1>5 DEF Own
  <1> QED
    BY <1>2, <1>6 DEF Marked, Failed

LEMMA PressKeeps ==
    ASSUME Inv, Press
    PROVE  Inv'
  <1>1. /\ button' = button /\ west' = west /\ value' = value
        /\ TabActive' = TabActive /\ Deactivated' = Deactivated
    BY DEF Press
  <1>2. Lists' = Lists /\ Shown' = Shown
    BY <1>1, SameForm
  <1>3. Lists \subseteq AllLists
    BY KnownLists DEF Inv, TypeOK
  <1>4. TypeOK'
    <2>1. style' \in [Shown -> {"none", "ok", "failed"}]
      <3>1. DOMAIN style' = Shown /\ style' = [f \in Shown |-> style'[f]]
        BY DEF Press
      <3>2. \A f \in Shown : style'[f] \in Marks
        BY MarkOf, NewMarkTyped DEF Inv, Shown
      <3> QED BY <3>1, <3>2 DEF Marks
    <2>2. DOMAIN error' = Lists
      BY DEF Press
    <2>3. ASSUME NEW l \in Lists PROVE error'[l].detail \in Messages \cup {"none"}
      <3>1. ErrorAfter(l).detail \in Messages \cup {"none"}
        BY <1>3, ErrorTyped
      <3>2. NoError.detail \in Messages \cup {"none"}
        BY DEF NoError
      <3>3. error[l].detail \in Messages \cup {"none"}
        BY DEF Inv, TypeOK
      <3>4. error'[l] \in {ErrorAfter(l), NoError, error[l]}
        BY DEF Press
      <3> QED BY <3>1, <3>2, <3>3, <3>4
    <2>4. sent' \in Outcomes /\ touched' \in BOOLEAN
      BY DEF Press, Outcomes
    <2>5. data' \subseteq Lists /\ (data' # {} => sent' = "request")
      BY DEF Press, DataSent
    <2> QED BY <1>1, <1>2, <2>1, <2>2, <2>3, <2>4, <2>5 DEF Inv, TypeOK
  <1>5. IgnoredOK'
    <2> SUFFICES ASSUME NEW l \in Lists, NEW f \in FieldsOf(l),
                        Ref[f] = "ignored", style'[f] = "failed",
                        f \notin ToSet(Group[l].fields)
                 PROVE  FALSE
      BY <1>2 DEF IgnoredOK
    <2>1. style'[f] = style[f]
      BY MarkOf, IgnoredKeepsMark DEF Inv
    <2> QED BY <2>1 DEF Inv, IgnoredOK
  <1>6. SentUnmarked'
    <2> SUFFICES ASSUME sent' = "request", NEW l \in Lists \ data', NEW f \in FieldsOf(l),
                        style'[f] = "failed"
                 PROVE  \/ f \in Deactivated
                        \/ f \in ToSet(Group[l].fields) /\ GroupAnswer(l) = "fail"
      BY <1>1, <1>2 DEF SentUnmarked, GroupAnswer
    <2>1. Throwing = {} /\ Sends
      <3>1. sent' = IF Throwing # {} THEN Aborted ELSE IF Sends THEN "request" ELSE NotSent
        BY DEF Press
      <3> QED BY <3>1 DEF Aborted, NotSent, Sends
    <2>2. Valid(l)
      BY <2>1 DEF Press, DataSent
    <2>3. l \in Done
      BY <2>1 DEF Done, Lists, ToSet
    <2>4. style'[f] = MarkAfter(f, l)
      <3>1. style'[f] = NewMark(f, l)
        BY MarkOf DEF Inv
      <3> QED BY <2>3, <3>1 DEF NewMark
    <2> QED BY <2>2, <2>4, ValidMarks DEF Inv
  <1>7. VerdictsShown'
    <2> SUFFICES ASSUME sent' # Aborted, NEW l \in Lists, NEW f \in FieldsOf(l),
                        f \notin Deactivated, Ref[f] # "ignored"
                 PROVE  style'[f] = "ok" <=> Own(f) = "ok"
      BY <1>1, <1>2 DEF VerdictsShown, Own, Pardoned
    <2>1. Throwing = {}
      <3>1. sent' = IF Throwing # {} THEN Aborted ELSE IF Sends THEN "request" ELSE NotSent
        BY DEF Press
      <3> QED BY <3>1
    <2>2. l \in Done
      BY <2>1 DEF Done, Lists, ToSet
    <2>3. style'[f] = MarkAfter(f, l)
      BY <2>2, MarkOf DEF Inv, NewMark
    <2> QED BY <1>3, <2>3, JudgedByItsOwn
  <1> QED BY <1>4, <1>5, <1>6, <1>7 DEF Inv

-----------------------------------------------------------------------------
(* What a mark that is right says of a subnet mask and of a date. *)

\* The bits of an octet fall from left to right exactly for the values of the
\* table in the code and 255, and with the last bit set only for 255.
Falls(o) == \A j \in 1 .. 7 : (o \div Weight[j]) % 2 >= (o \div Weight[j + 1]) % 2
LEMMA OctetFalls ==
    ASSUME NEW o \in 0 .. 255
    PROVE  /\ Falls(o) <=> o \in ValidValues \cup {255}
           /\ Falls(o) => (o % 2 = 1 <=> o = 255)
           /\ Falls(o) => ((o \div 128) % 2 = 0 <=> o = 0)
  <1> DEFINE b(w) == (o \div w) % 2
  <1>1. Falls(o) <=> /\ b(128) >= b(64) /\ b(64) >= b(32) /\ b(32) >= b(16)
                     /\ b(16) >= b(8) /\ b(8) >= b(4) /\ b(4) >= b(2) /\ b(2) >= b(1)
    <2>1. /\ Weight[1] = 128 /\ Weight[2] = 64 /\ Weight[3] = 32 /\ Weight[4] = 16
          /\ Weight[5] = 8 /\ Weight[6] = 4 /\ Weight[7] = 2 /\ Weight[8] = 1
      BY DEF Weight
    <2>2. 1 .. 7 = {1, 2, 3, 4, 5, 6, 7}
      OBVIOUS
    <2> HIDE DEF b
    <2>3. Falls(o) <=> \A j \in {1, 2, 3, 4, 5, 6, 7} : b(Weight[j]) >= b(Weight[j + 1])
      BY <2>2 DEF Falls, b
    <2> QED BY <2>1, <2>3
  <1>2. Falls(o) <=> o \in {0, 128, 192, 224, 240, 248, 252, 254, 255}
    BY <1>1
  <1> QED BY <1>2 DEF ValidValues

\* The order of the 32 bits is that within the octets and that from an octet to
\* the next.
LEMMA BitsFall ==
    ASSUME NEW p \in Seq(Int), Len(p) = 4, \A i \in 1 .. 4 : p[i] \in 0 .. 255
    PROVE  (\A i \in 0 .. 30 : Bit(p, i) >= Bit(p, i + 1)) <=>
               /\ Falls(p[1]) /\ Falls(p[2]) /\ Falls(p[3]) /\ Falls(p[4])
               /\ \A k \in 1 .. 3 : p[k] % 2 >= (p[k + 1] \div 128) % 2
  <1> DEFINE B(k, j) == (p[k] \div Weight[j]) % 2
  <1>1. \A i \in 0 .. 31 : Bit(p, i) = B((i \div 8) + 1, (i % 8) + 1)
    BY DEF Bit
  <1> DEFINE I(k, j) == 8 * (k - 1) + (j - 1)
  <1>2. \A k \in 1 .. 4, j \in 1 .. 8 : Bit(p, I(k, j)) = B(k, j)
    <2> SUFFICES ASSUME NEW k \in 1 .. 4, NEW j \in 1 .. 8
                 PROVE  Bit(p, I(k, j)) = B(k, j)
      OBVIOUS
    <2>1. I(k, j) \in 0 .. 31 /\ (I(k, j) \div 8) + 1 = k /\ (I(k, j) % 8) + 1 = j
      OBVIOUS
    <2> HIDE DEF I, B
    <2> QED BY <1>1, <2>1
  <1>2a. /\ \A k \in 1 .. 4, j \in 1 .. 7 : I(k, j) \in 0 .. 30 /\ I(k, j) + 1 = I(k, j + 1)
         /\ \A k \in 1 .. 3 : I(k, 8) \in 0 .. 30 /\ I(k, 8) + 1 = I(k + 1, 1)
    OBVIOUS
  <1>2b. \A i \in 0 .. 30 : \/ \E k \in 1 .. 4, j \in 1 .. 7 : i = I(k, j)
                           \/ \E k \in 1 .. 3 : i = I(k, 8)
    <2> SUFFICES ASSUME NEW i \in 0 .. 30
                 PROVE  \/ \E k \in 1 .. 4, j \in 1 .. 7 : i = I(k, j)
                        \/ \E k \in 1 .. 3 : i = I(k, 8)
      OBVIOUS
    <2> DEFINE k == (i \div 8) + 1
               j == (i % 8) + 1
    <2>1. i = I(k, j)
      OBVIOUS
    <2>2. k \in 1 .. 4 /\ j \in 1 .. 8 /\ (j = 8 => k \in 1 .. 3)
      OBVIOUS
    <2> HIDE DEF I, k, j
    <2> QED BY <2>1, <2>2
  <1> HIDE DEF B, I
  <1>3. (\A i \in 0 .. 30 : Bit(p, i) >= Bit(p, i + 1)) <=>
            /\ \A k \in 1 .. 4, j \in 1 .. 7 : B(k, j) >= B(k, j + 1)
            /\ \A k \in 1 .. 3 : B(k, 8) >= B(k + 1, 1)
    <2>1. \A k \in 1 .. 4, j \in 1 .. 7 :
              /\ Bit(p, I(k, j)) = B(k, j)
              /\ Bit(p, I(k, j) + 1) = B(k, j + 1)
      BY <1>2, <1>2a
    <2>2. \A k \in 1 .. 3 : /\ Bit(p, I(k, 8)) = B(k, 8)
                           /\ Bit(p, I(k, 8) + 1) = B(k + 1, 1)
      BY <1>2, <1>2a
    <2>3. ASSUME \A i \in 0 .. 30 : Bit(p, i) >= Bit(p, i + 1)
          PROVE  /\ \A k \in 1 .. 4, j \in 1 .. 7 : B(k, j) >= B(k, j + 1)
                 /\ \A k \in 1 .. 3 : B(k, 8) >= B(k + 1, 1)
      <3>1. \A k \in 1 .. 4, j \in 1 .. 7 : Bit(p, I(k, j)) >= Bit(p, I(k, j) + 1)
        BY <1>2a, <2>3
      <3>2. \A k \in 1 .. 3 : Bit(p, I(k, 8)) >= Bit(p, I(k, 8) + 1)
        BY <1>2a, <2>3
      <3> QED BY <2>1, <2>2, <3>1, <3>2
    <2>4. ASSUME \A k \in 1 .. 4, j \in 1 .. 7 : B(k, j) >= B(k, j + 1),
                 \A k \in 1 .. 3 : B(k, 8) >= B(k + 1, 1),
                 NEW i \in 0 .. 30
          PROVE  Bit(p, i) >= Bit(p, i + 1)
      <3>1. CASE \E k \in 1 .. 4, j \in 1 .. 7 : i = I(k, j)
        BY <2>1, <2>4, <3>1
      <3>2. CASE \E k \in 1 .. 3 : i = I(k, 8)
        BY <2>2, <2>4, <3>2
      <3> QED BY <1>2b, <3>1, <3>2
    <2> QED BY <2>3, <2>4
  <1>4. \A k \in 1 .. 4 : Falls(p[k]) <=> \A j \in 1 .. 7 : B(k, j) >= B(k, j + 1)
    BY DEF Falls, B
  <1>5. \A k \in 1 .. 4 : B(k, 8) = p[k] % 2 /\ B(k, 1) = (p[k] \div 128) % 2
    <2>1. Weight[1] = 128 /\ Weight[8] = 1
      BY DEF Weight
    <2> SUFFICES ASSUME NEW k \in 1 .. 4
                 PROVE  B(k, 8) = p[k] % 2 /\ B(k, 1) = (p[k] \div 128) % 2
      OBVIOUS
    <2>2. p[k] \div 1 = p[k]
      <3>1. \A o \in 0 .. 255 : o \div 1 = o
        OBVIOUS
      <3>2. p[k] \in 0 .. 255
        OBVIOUS
      <3> QED BY <3>1, <3>2
    <2> QED BY <2>1, <2>2 DEF B
  <1>6. 1 .. 4 = {1, 2, 3, 4}
    OBVIOUS
  <1>7. (\A k \in 1 .. 3 : B(k, 8) >= B(k + 1, 1)) <=>
            \A k \in 1 .. 3 : p[k] % 2 >= (p[k + 1] \div 128) % 2
    BY <1>5
  <1>8. (\A k \in 1 .. 4, j \in 1 .. 7 : B(k, j) >= B(k, j + 1)) <=>
            Falls(p[1]) /\ Falls(p[2]) /\ Falls(p[3]) /\ Falls(p[4])
    BY <1>4, <1>6
  <1> QED BY <1>3, <1>7, <1>8

\* The validator accepts the masks, and nothing else: the octets before the
\* one where the ones end are 255, those after it 0.
LEMMA MaskAccepts ==
    ASSUME NEW v, Readable(v)
    PROVE  IPv4SubnetMask(v) = "ok" <=> Mask(v)
  <1>1. CASE v.kind # "octets" \/ Len(v.parts) # 4
    BY <1>1 DEF IPv4SubnetMask, Mask
  <1>2. CASE v.kind = "octets" /\ Len(v.parts) = 4
    <2> DEFINE p == v.parts
    <2>0. p \in Seq(Int) /\ Len(p) = 4
      BY <1>2 DEF Readable
    <2>1. p[1] \in Int /\ p[2] \in Int /\ p[3] \in Int /\ p[4] \in Int
      BY <2>0
    <2>2. IPv4SubnetMask(v) = "ok" <=> MaskAccepted(p[1], p[2], p[3], p[4])
      BY <1>2 DEF IPv4SubnetMask
    <2> HIDE DEF p
    <2>3. CASE ~(\A i \in 1 .. 4 : p[i] \in 0 .. 255)
      <3>1. ~Mask(v)
        BY <2>3 DEF Mask, p
      <3>2. ~(p[1] \in 0 .. 255 /\ p[2] \in 0 .. 255 /\ p[3] \in 0 .. 255 /\ p[4] \in 0 .. 255)
        BY <2>3
      <3>3. ~MaskAccepted(p[1], p[2], p[3], p[4])
        BY <2>1, <3>2 DEF MaskAccepted, ValidValues
      <3> QED BY <2>2, <3>1, <3>3
    <2>4. CASE \A i \in 1 .. 4 : p[i] \in 0 .. 255
      <3>1. Mask(v) <=> \A i \in 0 .. 30 : Bit(p, i) >= Bit(p, i + 1)
        BY <1>2, <2>4 DEF Mask, p
      <3>2. Mask(v) <=> /\ Falls(p[1]) /\ Falls(p[2]) /\ Falls(p[3]) /\ Falls(p[4])
                        /\ \A k \in 1 .. 3 : p[k] % 2 >= (p[k + 1] \div 128) % 2
        BY <2>0, <2>4, <3>1, BitsFall
      <3>3. p[1] \in 0 .. 255 /\ p[2] \in 0 .. 255 /\ p[3] \in 0 .. 255 /\ p[4] \in 0 .. 255
        BY <2>4
      <3>4. \A o \in 0 .. 255 : o % 2 \in 0 .. 1 /\ (o \div 128) % 2 \in 0 .. 1
        OBVIOUS
      <3>5. Falls(p[1]) /\ Falls(p[2]) /\ Falls(p[3]) /\ Falls(p[4]) =>
                \A k \in 1 .. 3 : p[k] % 2 >= (p[k + 1] \div 128) % 2 <=>
                                     (p[k] = 255 \/ p[k + 1] = 0)
        <4> SUFFICES ASSUME NEW k \in 1 .. 3, Falls(p[k]), Falls(p[k + 1])
                     PROVE  p[k] % 2 >= (p[k + 1] \div 128) % 2 <=>
                                (p[k] = 255 \/ p[k + 1] = 0)
          OBVIOUS
        <4>1. k \in 1 .. 4 /\ k + 1 \in 1 .. 4
          OBVIOUS
        <4>2. p[k] \in 0 .. 255 /\ p[k + 1] \in 0 .. 255
          BY <2>4, <4>1
        <4>3. /\ p[k] % 2 = 1 <=> p[k] = 255
              /\ (p[k + 1] \div 128) % 2 = 0 <=> p[k + 1] = 0
          BY <4>2, OctetFalls
        <4> QED BY <3>4, <4>2, <4>3
      <3>6. Mask(v) <=> /\ Falls(p[1]) /\ Falls(p[2]) /\ Falls(p[3]) /\ Falls(p[4])
                        /\ p[1] = 255 \/ p[2] = 0
                        /\ p[2] = 255 \/ p[3] = 0
                        /\ p[3] = 255 \/ p[4] = 0
        <4>1. 1 .. 3 = {1, 2, 3}
          OBVIOUS
        <4> QED BY <3>2, <3>5, <4>1
      <3>7. \A i \in 1 .. 4 : Falls(p[i]) <=> p[i] \in ValidValues \cup {255}
        BY <2>4, OctetFalls
      <3>8. MaskAccepted(p[1], p[2], p[3], p[4]) <=>
                /\ \A i \in 1 .. 4 : p[i] \in ValidValues \cup {255}
                /\ p[1] = 255 \/ p[2] = 0
                /\ p[2] = 255 \/ p[3] = 0
                /\ p[3] = 255 \/ p[4] = 0
        BY <3>3 DEF MaskAccepted, ValidValues
      <3> QED BY <2>2, <3>6, <3>7, <3>8
    <2> QED BY <2>3, <2>4
  <1> QED BY <1>1, <1>2

\* The days of a month, as the code counts them, are those between the days
\* before the months.
LEMMA DaysOfMonths ==
    ASSUME NEW y \in Int, NEW m \in 1 .. 12
    PROVE  DaysOf(y, m) = DaysBefore[m + 1] - DaysBefore[m]
                          + IF m = 2 /\ Leap(y) THEN 1 ELSE 0
  <1>1. y % 400 = 0 => y % 4 = 0
    OBVIOUS
  <1>2. Leap(y) <=> y % 4 = 0 /\ (y % 100 # 0 \/ y % 400 = 0)
    BY <1>1 DEF Leap
  <1>3. DaysOf(y, m) = IF m = 2 THEN IF Leap(y) THEN 29 ELSE 28
                       ELSE IF m \in {4, 6, 9, 11} THEN 30 ELSE 31
    BY <1>2 DEF DaysOf
  <1>4. m \in {1, 2, 3, 4, 5, 6, 7, 8, 9, 10, 11, 12}
    OBVIOUS
  <1> HIDE DEF Leap
  <1> QED BY <1>3, <1>4 DEF DaysBefore

LEMMA DateAccepts ==
    ASSUME NEW v, Readable(v), NEW w
    PROVE  DateInternational(v, w) = "ok" <=>
               v.kind = "date" /\ v.padded /\ CalendarDay(v) /\ ~w
  <1>1. DateInternational(v, w) = "ok" <=> v.kind = "date" /\ v.padded /\ RealDay(v) /\ ~w
    BY DEF DateInternational, ReadsBack
  <1>2. ASSUME v.kind = "date" PROVE RealDay(v) <=> CalendarDay(v)
    <2>1. v.year \in Int /\ v.month \in Int /\ v.day \in Int
      BY <1>2 DEF Readable
    <2>2. CASE v.month \in 1 .. 12
      <3>1. DaysOf(v.year, v.month) \in Int
        BY DEF DaysOf
      <3>2. RealDay(v) <=> v.day > 0 /\ v.day <= DaysOf(v.year, v.month)
        BY <2>1, <2>2, <3>1 DEF RealDay
      <3> QED BY <2>1, <2>2, <3>2, DaysOfMonths DEF CalendarDay
    <2>3. CASE v.month \notin 1 .. 12
      BY <2>3 DEF RealDay, CalendarDay
    <2> QED BY <2>2, <2>3
  <1> QED BY <1>1, <1>2

-----------------------------------------------------------------------------
LEMMA InvNext == Inv /\ [Next]_vars => Inv'
  <1> SUFFICES ASSUME Inv, [Next]_vars PROVE Inv'
    OBVIOUS
  <1>1. CASE Press
    BY <1>1, PressKeeps
  <1>2. ASSUME NEW f \in Shown, NEW v \in Inputs[f], Type(f, v) PROVE Inv'
    BY <1>2, TypeKeeps
  <1>3. ASSUME NEW l \in Lists, Reset(l) PROVE Inv'
    BY <1>3, ResetKeeps
  <1>5. ASSUME NEW active \in BOOLEAN, SwitchTab(active) PROVE Inv'
    BY <1>5, SwitchKeeps
  <1>4. CASE UNCHANGED vars
    <2>1. Lists' = Lists /\ Shown' = Shown
      BY <1>4, SameForm DEF vars
    <2>2. TypeOK'
      BY <1>4, <2>1 DEF vars, Inv, TypeOK
    <2>3. IgnoredOK'
      BY <1>4, <2>1 DEF vars, Inv, IgnoredOK
    <2>4. SentUnmarked'
      BY <1>4, <2>1 DEF vars, Inv, SentUnmarked, GroupAnswer
    <2>5. VerdictsShown'
      BY <1>4, <2>1 DEF vars, Inv, VerdictsShown, Own, Pardoned
    <2> QED BY <2>2, <2>3, <2>4, <2>5 DEF Inv
  <1> QED BY <1>1, <1>2, <1>3, <1>4, <1>5 DEF Next

\* The loops of UserTimeHourMinuteSecond, in closed form: eleven steps to a left
\* digit, the first of them with -1 on its right.
LEMMA DigitsAre ==
    ASSUME NEW n \in Nat
    PROVE  DigitsMade(n) = {Digits(k \div 11, (k % 11) - 1) : k \in 1 .. n}
  <1> DEFINE Following(d) == IF d[2] = 9 THEN Restart(d) ELSE <<d[1], d[2] + 1>>
             Eq(g) == g = [k \in 1 .. n |->
                              IF k = 1 THEN <<0, 0>> ELSE Following(g[k - 1])]
             step == CHOOSE g : Eq(g)
             at(k) == <<k \div 11, (k % 11) - 1>>
             closed == [k \in 1 .. n |-> at(k)]
             R == OpToRel(<, Nat)
  <1> HIDE DEF R
  <1>1. at(1) = <<0, 0>>
    <2>1. 1 \div 11 = 0 /\ (1 % 11) - 1 = 0
      OBVIOUS
    <2> QED BY <2>1
  <1>2. ASSUME NEW k \in 1 .. n, k # 1 PROVE at(k) = Following(at(k - 1))
    <2>1. CASE (k - 1) % 11 = 10
      <3>1. k \div 11 = ((k - 1) \div 11) + 1 /\ k % 11 = 0
        BY <1>2, <2>1
      <3>2. ((k - 1) % 11) - 1 = 9 /\ (k % 11) - 1 = -1
        BY <2>1, <3>1
      <3> QED BY <3>1, <3>2 DEF Restart
    <2>2. CASE (k - 1) % 11 # 10
      <3>1. k \div 11 = (k - 1) \div 11 /\ k % 11 = ((k - 1) % 11) + 1
        BY <1>2, <2>2
      <3>2. /\ ((k - 1) % 11) - 1 # 9
            /\ (k % 11) - 1 = (((k - 1) % 11) - 1) + 1
        BY <1>2, <2>2, <3>1
      <3> QED BY <3>1, <3>2
    <2> QED BY <2>1, <2>2
  <1> HIDE DEF at, Following
  <1>3. Eq(closed)
    <2>1. ASSUME NEW k \in 1 .. n, k # 1 PROVE closed[k] = Following(closed[k - 1])
      <3>1. k - 1 \in 1 .. n
        BY <2>1
      <3> QED BY <1>2, <2>1, <3>1
    <2>2. closed = [k \in 1 .. n |-> IF k = 1 THEN <<0, 0>> ELSE Following(closed[k - 1])]
      BY <1>1, <2>1
    <2> HIDE DEF closed
    <2> QED BY <2>2
  <1>4. Eq(step)
    <2> HIDE DEF Eq
    <2> QED BY <1>3
  <1> HIDE DEF step
  <1>5. ASSUME NEW k \in 1 .. n PROVE step[k] = at(k)
    <2> DEFINE Bad == {m \in 1 .. n : step[m] # at(m)}
    <2>1. SUFFICES Bad = {}
      OBVIOUS
    <2>2. SUFFICES ASSUME Bad # {} PROVE FALSE
      OBVIOUS
    <2>3. Bad \subseteq Nat
      OBVIOUS
    <2> HIDE DEF Bad
    <2>4. PICK m \in Bad : \A j \in Bad : ~ (<<j, m>> \in R)
      BY <2>2, <2>3, NatLessThanWellFounded, WFMin DEF R
    <2>5. \A j \in Bad : ~(j < m)
      BY <2>3, <2>4 DEF OpToRel, R
    <2>6. m \in 1 .. n /\ step[m] # at(m)
      BY DEF Bad
    <2>7. step[m] = IF m = 1 THEN <<0, 0>> ELSE Following(step[m - 1])
      BY <1>4, <2>6
    <2>8. m # 1
      BY <1>1, <2>6, <2>7
    <2>9. m - 1 \in 1 .. n /\ m - 1 < m
      BY <2>6, <2>8
    <2>10. step[m - 1] = at(m - 1)
      BY <2>5, <2>9 DEF Bad
    <2> QED BY <1>2, <2>6, <2>7, <2>8, <2>10
  <1>6. DigitsMade(n) = {Digits(step[k][1], step[k][2]) : k \in 1 .. n}
    BY DEF DigitsMade, step, Following
  <1>7. \A k \in 1 .. n : step[k][1] = k \div 11 /\ step[k][2] = (k % 11) - 1
    BY <1>5 DEF at
  <1> HIDE <1>5
  <1>8. {Digits(step[k][1], step[k][2]) : k \in 1 .. n}
            = {Digits(k \div 11, (k % 11) - 1) : k \in 1 .. n}
    BY <1>7
  <1> QED BY <1>6, <1>8

LEMMA HoursAre ==
    UserTimeFormatHours =
        {Digits(0, r) : r \in 0 .. 9} \cup {Digits(1, r) : r \in -1 .. 9}
            \cup {Digits(2, r) : r \in -1 .. 0}
  <1>1. UserTimeFormatHours = {Digits(k \div 11, (k % 11) - 1) : k \in 1 .. 23}
    BY DigitsAre DEF UserTimeFormatHours
  <1>2. \A k \in 1 .. 23 :
            \/ k \div 11 = 0 /\ (k % 11) - 1 \in 0 .. 9
            \/ k \div 11 = 1 /\ (k % 11) - 1 \in -1 .. 9
            \/ k \div 11 = 2 /\ (k % 11) - 1 \in -1 .. 0
    OBVIOUS
  <1>3. /\ \A r \in 0 .. 9  : r + 1 \in 1 .. 23 /\ (r + 1) \div 11 = 0 /\ ((r + 1) % 11) - 1 = r
        /\ \A r \in -1 .. 9 : r + 12 \in 1 .. 23 /\ (r + 12) \div 11 = 1 /\ ((r + 12) % 11) - 1 = r
        /\ \A r \in -1 .. 0 : r + 23 \in 1 .. 23 /\ (r + 23) \div 11 = 2 /\ ((r + 23) % 11) - 1 = r
    OBVIOUS
  <1> QED BY <1>1, <1>2, <1>3

LEMMA MinutesAre ==
    UserTimeFormatMinutesSeconds =
        {Digits(0, r) : r \in 0 .. 9} \cup {Digits(l, r) : l \in 1 .. 4, r \in -1 .. 9}
            \cup {Digits(5, r) : r \in -1 .. 3}
  <1>1. UserTimeFormatMinutesSeconds = {Digits(k \div 11, (k % 11) - 1) : k \in 1 .. 59}
    BY DigitsAre DEF UserTimeFormatMinutesSeconds
  <1>2. \A k \in 1 .. 59 :
            \/ k \div 11 = 0 /\ (k % 11) - 1 \in 0 .. 9
            \/ k \div 11 \in 1 .. 4 /\ (k % 11) - 1 \in -1 .. 9
            \/ k \div 11 = 5 /\ (k % 11) - 1 \in -1 .. 3
    OBVIOUS
  <1>3. /\ \A r \in 0 .. 9  : /\ r + 1 \in 1 .. 59
                             /\ (r + 1) \div 11 = 0 /\ ((r + 1) % 11) - 1 = r
        /\ \A l \in 1 .. 4, r \in -1 .. 9 :
               LET k == (11 * l) + r + 1
               IN  k \in 1 .. 59 /\ k \div 11 = l /\ (k % 11) - 1 = r
        /\ \A r \in -1 .. 3 : /\ r + 56 \in 1 .. 59
                             /\ (r + 56) \div 11 = 5 /\ ((r + 56) % 11) - 1 = r
    OBVIOUS
  <1> QED BY <1>1, <1>2, <1>3

LEMMA InvAlways == Spec => []Inv
  BY InvInit, InvNext, PTL DEF Spec

\* Every reachable state of a form has the right types: what its containers
\* show in brackets is a message of a validator, data goes with a request only.
THEOREM TypeCorrect == Spec => []TypeOK
  <1>1. Inv => TypeOK
    BY DEF Inv
  <1> QED BY <1>1, InvAlways, PTL

\* After a request, the fields of the lists that were valid are not red, but
\* for deactivated ones and those of a group that answers true.
THEOREM SentListsUnmarked == Spec => []SentUnmarked
  <1>1. Inv => SentUnmarked
    BY DEF Inv
  <1> QED BY <1>1, InvAlways, PTL

\* The present value of a field of the form.
LEMMA ValuesReadable ==
    ASSUME TypeOK, NEW f \in Shown
    PROVE  Readable(value[f])
  BY KnownLists, FormAssumption DEF TypeOK

\* A field for a subnet mask, in whatever form, is marked right exactly for
\* the 33 masks: IPv4SubnetMask accepts each and nothing else.
THEOREM MasksMarkedRight == Spec => []MaskRight
  <1>1. Inv => MaskRight
    <2> SUFFICES ASSUME Inv, ~touched, sent # Aborted, NEW f \in Shown \ Deactivated,
                        Ref[f] = "IPv4SubnetMask"
                 PROVE  style[f] = "ok" <=> (Pardoned(f) \/ Mask(value[f]))
      BY DEF MaskRight
    <2>1. PICK l \in Lists : f \in FieldsOf(l)
      BY DEF Shown
    <2>2. style[f] = "ok" <=> Own(f) = "ok"
      BY <2>1 DEF Inv, VerdictsShown
    <2>3. Own(f) = IF Pardoned(f) THEN "ok" ELSE IPv4SubnetMask(value[f])
      BY DEF Own, ValidateByParams
    <2>4. IPv4SubnetMask(value[f]) = "ok" <=> Mask(value[f])
      BY ValuesReadable, MaskAccepts DEF Inv
    <2> QED BY <2>2, <2>3, <2>4
  <1> QED BY <1>1, InvAlways, PTL

\* A date marked right is a day of the Gregorian calendar, in browsers east
\* and west of Greenwich, and east of it each such day is.
THEOREM DatesMarkedRight == Spec => []DateRight
  <1>1. Inv => DateRight
    <2> SUFFICES ASSUME Inv, ~touched, sent # Aborted, NEW f \in Shown \ Deactivated,
                        Ref[f] \in {"DateInternational", "DateGerman"}, ~Pardoned(f)
                 PROVE  LET real == /\ value[f].kind = "date" /\ value[f].padded
                                    /\ CalendarDay(value[f])
                        IN  /\ style[f] = "ok" => real
                            /\ real /\ ~west => style[f] = "ok"
      BY DEF DateRight
    <2>1. PICK l \in Lists : f \in FieldsOf(l)
      BY DEF Shown
    <2>2. style[f] = "ok" <=> Own(f) = "ok"
      BY <2>1 DEF Inv, VerdictsShown
    <2>3. Own(f) = DateInternational(value[f], west)
      BY DEF Own, ValidateByParams
    <2> QED BY <2>2, <2>3, ValuesReadable, DateAccepts DEF Inv
  <1> QED BY <1>1, InvAlways, PTL

\* The times that UserTimeHourMinuteSecond accepts, hours from 00 to 20 and
\* minutes and seconds from 00 to 53 with the texts that end in -1 among them;
\* so no time from 21:00 on is accepted.
THEOREM TimesAccepted ==
    ASSUME NEW g
    PROVE  /\ UserTimeHourMinuteSecond(g) = "ok" <=>
                  /\ g[1] \in {Digits(0, r) : r \in 0 .. 9} \cup {Digits(1, r) : r \in -1 .. 9}
                                 \cup {Digits(2, r) : r \in -1 .. 0}
                  /\ \A i \in 2 .. 3 :
                         g[i] \in {Digits(0, r) : r \in 0 .. 9}
                                    \cup {Digits(l, r) : l \in 1 .. 4, r \in -1 .. 9}
                                    \cup {Digits(5, r) : r \in -1 .. 3}
           /\ \A r \in 1 .. 3 : g[1] = Digits(2, r) => UserTimeHourMinuteSecond(g) = "hour"
  <1>1. UserTimeHourMinuteSecond(g) = "ok" <=>
            /\ g[1] \in UserTimeFormatHours
            /\ \A i \in 2 .. 3 : g[i] \in UserTimeFormatMinutesSeconds
    <2>1. \A i \in 2 .. 3 : i = 2 \/ i = 3
      OBVIOUS
    <2> QED BY <2>1 DEF UserTimeHourMinuteSecond
  <1>2. ASSUME NEW r \in 1 .. 3, g[1] = Digits(2, r)
        PROVE  UserTimeHourMinuteSecond(g) = "hour"
    <2>1. \A l, k, d, e : Digits(l, d) = Digits(k, e) => l = k /\ d = e
      BY DEF Digits
    <2>2. Digits(2, r) \notin UserTimeFormatHours
      BY <2>1, HoursAre
    <2> QED BY <1>2, <2>2 DEF UserTimeHourMinuteSecond
  <1> QED BY <1>1, <1>2, HoursAre, MinutesAre
=============================================================================
