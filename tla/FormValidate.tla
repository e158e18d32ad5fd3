----------------------------- MODULE FormValidate -----------------------------
(***************************************************************************)
(* A button that validates lists of form fields before it sends.  A press  *)
(* validates list after list: each field by its own validator, then a      *)
(* group of fields by the group's, marking fields and filling the list's   *)
(* error container; then the button decides what it sends.                 *)
(*                                                                         *)
(* The user types between the presses; a field with an OnChange entry      *)
(* activates or deactivates another field.  The form is on a tab, and      *)
(* switching tabs activates or deactivates all that is on one, whatever    *)
(* OnChange did before.                                                    *)
(* A press is one handler and one action.  Each list has an error          *)
(* container (without one it is never validated) and at most one group, as *)
(* on the shipped page.                                                    *)
(***************************************************************************)
EXTENDS Validators, FiniteSets, SequencesExt

CONSTANTS Buttons,    \* one of them is used in a behaviour
          Formlists,  \* Validate.Formlists of a button, a sequence of lists
          Fields,     \* of a list, in their order, labels left out
          Inputs,     \* what a user may type into a field
          Default,    \* what it holds at first (its Value)
          Ref,        \* ValidateRef of a field, "ignored" if none
          Least, Most, \* of a field with MinMax
          Nullable,   \* fields with ValidateNullable
          MinChar,    \* fields with ValidateMinChar 1
          Group,      \* the group of a list: function ("" if none) and fields
          OnChange    \* of a field: the field it switches, "" if none, and
                      \* the values that activate and that deactivate it

AllLists  == UNION {ToSet(Formlists[b]) : b \in Buttons}
FieldsOf(l) == ToSet(Fields[l])
AllFields == UNION {FieldsOf(l) : l \in AllLists}

ASSUME FormAssumption ==
    /\ \A b \in Buttons : Formlists[b] \in Seq(AllLists) \ {<<>>}
    /\ \A l \in AllLists : /\ Fields[l] \in Seq(FieldsOf(l)) \ {<<>>}
                          /\ Group[l].fields \in Seq(FieldsOf(l))
    /\ \A l, k \in AllLists : l # k => FieldsOf(l) \cap FieldsOf(k) = {}
    /\ \A f \in AllFields : Default[f] \in Inputs[f] /\ Ref[f] \in References \cup {"ignored"}
    /\ \A f \in AllFields : \A v \in Inputs[f] : Readable(v)
    /\ \A l \in AllLists : \/ Group[l].function \in GroupFunctions
                           \/ Group[l].function = "" /\ Group[l].fields = <<>>
    \* A field switches one of its own list.
    /\ \A l \in AllLists : \A f \in FieldsOf(l) : OnChange[f].field \in FieldsOf(l) \cup {""}
    \* A field is judged by its own validator or by a group, not by both: the
    \* group would take back the mark of the field's own error.
    /\ \A l \in AllLists : \A f \in ToSet(Group[l].fields) : Ref[f] = "ignored"

VARIABLES
    button,       \* the button of the form in use
    west,         \* is the browser west of Greenwich?
    value,        \* what a field holds
    TabActive,    \* is the form's tab the active one?
    Deactivated,  \* fields that are not validated
    style,        \* mark of a field: "none", "ok" or "failed"
    error,        \* per list: what its container shows
    sent,         \* what the last press sent: see Outcomes
    data,         \* lists whose values it sent
    touched       \* has the form changed since the last press?

vars == <<button, west, value, TabActive, Deactivated, style, error, sent, data, touched>>

Lists == ToSet(Formlists[button])
Shown == UNION {FieldsOf(l) : l \in Lists}

\* What a container shows: whose error text, with which message in brackets.
NoError     == [of |-> "", detail |-> "none"]
NotSent     == "refused"   \* a list did not validate
Aborted     == "aborted"   \* the handler threw
Outcomes    == {"none", NotSent, Aborted, "request"}

\* FormfieldItem.reset, which the page also calls when it sets up a screen.
FirstValue(f) == Default[f]

\* setActivated and setDeactivated, of the content of a tab and all below it.
OfTab(active) == IF active THEN {} ELSE Shown

Init ==
    /\ button \in Buttons /\ west \in BOOLEAN
    /\ value = [f \in Shown |-> FirstValue(f)]
    /\ TabActive \in BOOLEAN /\ Deactivated = OfTab(TabActive)
    /\ style = [f \in Shown |-> "none"]
    /\ error = [l \in Lists |-> NoError]
    /\ sent = "none" /\ data = {}
    /\ touched = TRUE

-----------------------------------------------------------------------------
(* Validation of a field. *)

\* ValidateMinChar calls a function that does not exist.
Throws(f) == /\ f \notin Deactivated /\ Ref[f] # "ignored"
             /\ value[f] = Empty /\ f \in MinChar /\ f \notin Nullable

\* FormItem.validate; "skip" where it returns false and leaves the style.
Pardoned(f) == f \in Nullable /\ value[f] = Empty
Own(f) ==
    IF f \in Deactivated \/ Ref[f] = "ignored" THEN "skip"
    ELSE IF Pardoned(f) THEN "ok"
    ELSE ValidateByParams(Ref[f], value[f], Least[f], Most[f], west)

Failed(answer) == answer \notin {"ok", "skip"}

\* setValidateStyle
Marked(old, answer) ==
    CASE answer = "ok" -> "ok"
      [] Failed(answer) -> "failed"
      [] OTHER -> old

-----------------------------------------------------------------------------
(* Validation of a list. *)

Thrower(l) == {i \in DOMAIN Fields[l] : Throws(Fields[l][i])}
Reached(l) == {Fields[l][i] : i \in {j \in DOMAIN Fields[l] : \A t \in Thrower(l) : j < t}}

\* The group is validated if the last field did not fail.
GroupRuns(l) == Group[l].function # "" /\ Own(Last(Fields[l])) \in {"ok", "skip"}
GroupAnswer(l) == LET fs == Group[l].fields
                  IN  GroupCheck(Group[l].function, [i \in DOMAIN fs |-> value[fs[i]]])

\* An answer that is true, not an object, marks the fields of the group and
\* does not count as an error of the list.
GroupFails(l) == GroupRuns(l) /\ GroupAnswer(l) \in Messages

\* Mutant: the list is judged by its last field.
LastJudges(l) == ~Failed(Own(Last(Fields[l]))) /\ ~GroupFails(l)
Valid(l) == (\A f \in FieldsOf(l) : ~Failed(Own(f))) /\ ~GroupFails(l)

\* The marks: the group first takes back those of its fields, then gives
\* its own.
MarkAfter(f, l) ==
    IF f \in ToSet(Group[l].fields) /\ GroupRuns(l)
    THEN Marked("ok", GroupAnswer(l))
    ELSE Marked(style[f], Own(f))

\* displayError
Displayed(text, message) == [of |-> text, detail |-> message]

\* The text is that of the last error, the detail the last message: they may
\* be of two fields.
Failing(l)     == {i \in DOMAIN Fields[l] : Failed(Own(Fields[l][i]))}
WithMessage(l) == {i \in DOMAIN Fields[l] : Own(Fields[l][i]) \in Messages}
LastOf(l, places) == Fields[l][CHOOSE i \in places : \A j \in places : j <= i]
ErrorAfter(l) ==
    IF Valid(l) THEN NoError
    ELSE IF GroupFails(l) THEN Displayed(Group[l].function, GroupAnswer(l))
    ELSE Displayed(LastOf(l, Failing(l)),
                   IF WithMessage(l) # {} THEN Own(LastOf(l, WithMessage(l))) ELSE "none")

-----------------------------------------------------------------------------
(* The press of the button. *)

\* The lists validated before one that throws, and that one.
Throwing == {i \in DOMAIN Formlists[button] : Thrower(Formlists[button][i]) # {}}
Done     == {Formlists[button][i] : i \in
                {j \in DOMAIN Formlists[button] : \A t \in Throwing : j < t}}
Broken   == {Formlists[button][i] : i \in
                {t \in Throwing : \A u \in Throwing : t <= u}}

\* validateForm sends if any list is valid, and with it the data of the
\* lists that are not.
Sends == \E l \in Lists : Valid(l)
DataSent == {l \in Lists : ~Valid(l)}

Press ==
    /\ TabActive
    /\ touched' = FALSE
    /\ style' = [f \in Shown |->
           LET l == CHOOSE k \in Lists : f \in FieldsOf(k)
           IN  IF l \in Done THEN MarkAfter(f, l)
               ELSE IF l \in Broken /\ f \in Reached(l) THEN Marked(style[f], Own(f))
               ELSE style[f]]
    /\ error' = [l \in Lists |-> IF l \in Done THEN ErrorAfter(l)
                                 ELSE IF l \in Broken THEN NoError ELSE error[l]]
    /\ sent' = IF Throwing # {} THEN Aborted ELSE IF Sends THEN "request" ELSE NotSent
    /\ data' = IF Throwing = {} /\ Sends THEN DataSent ELSE {}
    /\ UNCHANGED <<button, west, value, TabActive, Deactivated>>

-----------------------------------------------------------------------------
(* The user types and switches tabs; the page resets the form. *)

\* processOnChangeItem of a field with an OnChange entry, first for the values
\* that activate, then for those that deactivate.  Entries that update a text,
\* enable or disable an element, or fire events are left out.
Switched(f, v) ==
    LET other == {OnChange[f].field}
        after == IF v \in OnChange[f].activate THEN Deactivated \ other ELSE Deactivated
    IN  IF v \in OnChange[f].deactivate THEN after \cup other ELSE after

\* Every change ends in resetErrorContainer, which resets nothing: it goes through
\* an object that is not iterable and catches the error of that.
Type(f, v) ==
    /\ TabActive /\ value[f] # v
    /\ value' = [value EXCEPT ![f] = v]
    /\ touched' = TRUE
    /\ Deactivated' = IF OnChange[f].field = "" THEN Deactivated ELSE Switched(f, v)
    /\ UNCHANGED <<button, west, TabActive, style, error, sent, data>>

\* FormfieldList.reset: the fields get their first value; resetStyle sets the
\* style from a property no field has, and so leaves the marks.
\* Mutant: the fields are emptied.
ResetEmpties(l) ==
    /\ value' = [f \in Shown |-> IF f \in FieldsOf(l) THEN Empty ELSE value[f]]
    /\ touched' = TRUE
    /\ UNCHANGED <<button, west, TabActive, Deactivated, style, error, sent, data>>
Reset(l) ==
    /\ value' = [f \in Shown |-> IF f \in FieldsOf(l) THEN FirstValue(f) ELSE value[f]]
    /\ touched' = TRUE
    /\ UNCHANGED <<button, west, TabActive, Deactivated, style, error, sent, data>>

\* switchTab, to the form's tab or another, of a click or of an answer; the
\* tab that is active already is activated once more.
SwitchTab(active) ==
    /\ TabActive' = active
    /\ Deactivated' = OfTab(active)
    /\ touched' = TRUE
    /\ UNCHANGED <<button, west, value, style, error, sent, data>>

Next ==
    \/ Press
    \/ \E active \in BOOLEAN : SwitchTab(active)
    \/ \E f \in Shown : \E v \in Inputs[f] : Type(f, v)
    \/ \E l \in Lists : Reset(l)

Spec == Init /\ [][Next]_vars

-----------------------------------------------------------------------------
(* Properties. *)

\* Every variable has its type; data goes with a request only, and while
\* another tab is active all fields are deactivated.
TypeOK ==
    /\ button \in Buttons /\ west \in BOOLEAN
    /\ DOMAIN value = Shown /\ \A f \in Shown : value[f] \in Inputs[f]
    /\ Deactivated \subseteq Shown /\ (~TabActive => Deactivated = Shown)
    /\ style \in [Shown -> {"none", "ok", "failed"}]
    /\ DOMAIN error = Lists
    /\ \A l \in Lists : error[l].detail \in Messages \cup {"none"}
    /\ sent \in Outcomes
    /\ data \subseteq Lists /\ (data # {} => sent = "request")
    /\ TabActive \in BOOLEAN /\ touched \in BOOLEAN

\* After a request no field of a valid list is red, but for those that are
\* deactivated, whose mark nothing takes back, and those of a group whose
\* validator answers true: it marks its fields and is not counted as an error.
SentUnmarked ==
    ~touched /\ sent = "request" =>
        \A l \in Lists \ data : \A f \in FieldsOf(l) :
            style[f] = "failed" => \/ f \in Deactivated
                                   \/ f \in ToSet(Group[l].fields) /\ GroupAnswer(l) = "fail"

\* A field for a subnet mask that is not empty by permission is marked right
\* exactly if the 32 bits of its four octets are ones followed by zeros.
Weight == <<128, 64, 32, 16, 8, 4, 2, 1>>
Bit(parts, i) == (parts[(i \div 8) + 1] \div Weight[(i % 8) + 1]) % 2
Mask(v) == /\ v.kind = "octets" /\ Len(v.parts) = 4
           /\ \A i \in 1 .. 4 : v.parts[i] \in 0 .. 255
           /\ \A i \in 0 .. 30 : Bit(v.parts, i) >= Bit(v.parts, i + 1)
MaskRight ==
    ~touched /\ sent # Aborted =>
        \A f \in Shown \ Deactivated : Ref[f] = "IPv4SubnetMask" =>
            (style[f] = "ok" <=> Pardoned(f) \/ Mask(value[f]))

\* A date that is not empty by permission and marked right is a day of the
\* calendar, counted from the days before each month, in the format asked for;
\* and but for browsers west of Greenwich each such date is marked right.
DaysBefore == <<0, 31, 59, 90, 120, 151, 181, 212, 243, 273, 304, 334, 365>>
Leap(y) == y % 400 = 0 \/ (y % 4 = 0 /\ y % 100 # 0)
CalendarDay(v) ==
    /\ v.month \in 1 .. 12 /\ v.day > 0
    /\ v.day <= DaysBefore[v.month + 1] - DaysBefore[v.month]
                + IF v.month = 2 /\ Leap(v.year) THEN 1 ELSE 0
DateRight ==
    ~touched /\ sent # Aborted =>
        \A f \in Shown \ Deactivated :
            Ref[f] \in {"DateInternational", "DateGerman"} /\ ~Pardoned(f) =>
                LET real == value[f].kind = "date" /\ value[f].padded /\ CalendarDay(value[f])
                IN  /\ style[f] = "ok" => real
                    /\ real /\ ~west => style[f] = "ok"

-----------------------------------------------------------------------------
(* What the repository says and the code does not do. *)

\* "Allowed values are hours from 00-23, minutes from 00-59, and seconds from
\* 00-59" (the page's error text TXT.VALIDATE.ERROR.TIME): such a time, and no
\* other, is marked right.
TwoDigits(n)  == {Digits(l, r) : l \in 0 .. 9, r \in 0 .. 9} \cap
                     {Digits(m \div 10, m % 10) : m \in 0 .. n}
TimeAsDocumented ==
    ~touched => \A l \in Lists : Group[l].function = "UserTimeHourMinuteSecond" =>
        LET fs == Group[l].fields
        IN  style[fs[1]] = "ok" <=> /\ value[fs[1]] \in TwoDigits(23)
                                    /\ value[fs[2]] \in TwoDigits(59)
                                    /\ value[fs[3]] \in TwoDigits(59)
=============================================================================
