------------------------------ MODULE Validators ------------------------------
(***************************************************************************)
(* The validators of form fields and of groups of fields, as operators on  *)
(* what the user typed.  A value is a record whose kind says how the text  *)
(* reads: a date, two digits, octets between dots, and so on; "text" is    *)
(* one that reads as no number, "empty" the empty string.                  *)
(*                                                                         *)
(* A validator answers "ok" (false in the code), "fail" (true) or with an  *)
(* error object, which is here the message in it.                          *)
(***************************************************************************)
EXTENDS Integers, Sequences

Empty       == [kind |-> "empty"]
NullText    == [kind |-> "null"]
Text(t)     == [kind |-> "text", text |-> t]
Number(n)   == [kind |-> "number", n |-> n]
Octets(s)   == [kind |-> "octets", parts |-> s]
Nibbles(s)  == [kind |-> "nibbles", parts |-> s]
Name(l, chars, edge) == [kind |-> "name", length |-> l, chars |-> chars, edge |-> edge]
Date(y, m, d, padded) == [kind |-> "date", year |-> y, month |-> m, day |-> d,
                          padded |-> padded]
\* The text of the digits l and r; r = -1 is the text of three characters
\* that UserTimeHourMinuteSecond makes of them.
Digits(l, r) == [kind |-> "digits", left |-> l, right |-> r]

\* What the parts of a text are read as: whole numbers, -1 for what parseInt
\* cannot read.
Readable(v) == /\ v.kind = "octets" => v.parts \in Seq(Int)
               /\ v.kind = "date" => /\ v.year \in Int /\ v.month \in Int
                                     /\ v.day \in Int /\ v.padded \in BOOLEAN

Messages == {"nan", "min", "max", "octet-count", "octet", "bitmask", "port-empty",
             "port-range", "nibble-count", "nibble", "name-length", "name",
             "invalid-date", "date-format", "float", "both-empty",
             "hour", "minute", "second", "dummy"}
Answers  == {"ok", "fail"} \cup Messages

\* The validators a field may name ("undefined" where it names none) and those
\* a group may name; a name of no table is an error of the page, left out.
References == {"undefined", "DefaultInteger", "MinMax", "IPv4Address", "IPv4SubnetMask",
               "IPPort", "IPv6Address", "DNSRecordName", "DateInternational",
               "DateGerman", "Float", "Dummy"}
GroupFunctions == {"CheckDiffer", "CheckNull", "CheckEmpty", "CheckItemsMatch",
                   "MinOneItemNotNull", "CheckItemsOr", "DNSRecordValuePlusType",
                   "UserTimeHourMinuteSecond", "Dummy"}

-----------------------------------------------------------------------------
(* Validators of one field. *)

Boolean(failed) == IF failed THEN "fail" ELSE "ok"

\* Min and Max of the field; the empty string compares as 0.
MinMax(v, min, max) ==
    LET n == IF v = Empty THEN 0 ELSE v.n
    IN  IF v.kind \notin {"number", "empty"} THEN "nan"
        ELSE IF n < min THEN "min" ELSE IF n > max THEN "max" ELSE "ok"

\* An octet that parseInt cannot read compares here as -1 does.
IPv4Address(v) ==
    IF v.kind # "octets" \/ Len(v.parts) # 4 THEN "octet-count"
    ELSE IF \E i \in 1 .. 4 : v.parts[i] \notin 1 .. 255 THEN "octet" ELSE "ok"

\* Mutant: 253 is taken for a value of leading ones.
ValidValuesWrong == {0, 128, 192, 224, 240, 248, 252, 253, 254}
ValidValues == {0, 128, 192, 224, 240, 248, 252, 254}

MaskAccepted(o1, o2, o3, o4) ==
    \/ o1 = 0 /\ o2 = 0 /\ o3 = 0 /\ o4 = 0
    \/ o1 = 255 /\ o2 = 255 /\ o3 = 255 /\ o4 = 255
    \/ o1 > 0 /\ o1 < 255 /\ o1 \in ValidValues /\ o2 = 0 /\ o3 = 0 /\ o4 = 0
    \/ o1 = 255 /\ o2 < 255 /\ o2 \in ValidValues /\ o3 = 0 /\ o4 = 0
    \/ o1 = 255 /\ o2 = 255 /\ o3 < 255 /\ o3 \in ValidValues /\ o4 = 0
    \/ o1 = 255 /\ o2 = 255 /\ o3 = 255 /\ o4 < 255 /\ o4 \in ValidValues

IPv4SubnetMask(v) ==
    IF v.kind # "octets" \/ Len(v.parts) # 4 THEN "octet-count"
    ELSE IF MaskAccepted(v.parts[1], v.parts[2], v.parts[3], v.parts[4]) THEN "ok"
                                                                        ELSE "bitmask"

\* What parseInt cannot read compares false with both bounds.
IPPort(v) ==
    CASE v = Empty -> "port-empty"
      [] v.kind = "number" /\ v.n \notin 1 .. 65535 -> "port-range"
      [] OTHER -> "ok"

\* Of a part between colons, its length does not matter, not even 0.
IPv6Address(v) ==
    IF v.kind # "nibbles" \/ Len(v.parts) # 8 THEN "nibble-count"
    ELSE IF \E i \in 1 .. 8 : v.parts[i] = "other" THEN "nibble" ELSE "ok"

DNSRecordName(v) ==
    IF v = Empty \/ (v.kind = "name" /\ v.length > 32) THEN "name-length"
    ELSE IF v.kind # "name" \/ ~v.chars \/ v.edge THEN "name" ELSE "ok"

\* The text becomes midnight UTC of that date, and year, month and day are
\* read back in local time, which is the day before in a browser west of
\* Greenwich; a date not padded with zeros becomes midnight local time.
\* Mutant: the day is not compared.
DaysOf(y, m) ==
    CASE m = 2 -> IF y % 4 = 0 /\ (y % 100 # 0 \/ y % 400 = 0) THEN 29 ELSE 28
      [] m \in {4, 6, 9, 11} -> 30
      [] OTHER -> 31
RealDay(v)  == v.month \in 1 .. 12 /\ v.day \in 1 .. DaysOf(v.year, v.month)
DayIgnored(v, west) == v.month \in 1 .. 12
ReadsBack(v, west)  == RealDay(v) /\ (v.padded => ~west)
DateInternational(v, west) ==
    IF v.kind # "date" \/ ~ReadsBack(v, west) THEN "invalid-date"
    ELSE IF ~v.padded THEN "date-format" ELSE "ok"

Float(v) == IF v.kind = "number" THEN "ok" ELSE "float"

\* validateByParams for the validators that are functions, for one that is a
\* regular expression and for none (undefined).
ValidateByParams(ref, v, min, max, west) ==
    CASE ref = "undefined" -> "fail"
      [] ref = "DefaultInteger" -> Boolean(v.kind # "number" \/ v.n < 1)
      [] ref = "MinMax" -> MinMax(v, min, max)
      [] ref = "IPv4Address" -> IPv4Address(v)
      [] ref = "IPv4SubnetMask" -> IPv4SubnetMask(v)
      [] ref = "IPPort" -> IPPort(v)
      [] ref = "IPv6Address" -> IPv6Address(v)
      [] ref = "DNSRecordName" -> DNSRecordName(v)
      [] ref \in {"DateInternational", "DateGerman"} -> DateInternational(v, west)
      [] ref = "Float" -> Float(v)
      [] ref = "Dummy" -> "ok"

-----------------------------------------------------------------------------
(* Validators of a group; g is the sequence of the values of its fields. *)

Values(g)  == {g[i] : i \in DOMAIN g}

CheckDiffer(g)       == Boolean(\E i, j \in DOMAIN g : i # j /\ g[i] = g[j])
CheckNull(g)         == Boolean(NullText \in Values(g))
CheckEmpty(g)        == Boolean(Empty \in Values(g))
CheckItemsMatch(g)   == Boolean(g[1] # g[2])
MinOneItemNotNull(g) == Boolean(Values(g) \subseteq {Empty})
CheckItemsOr(g)      == IF g[1] = Empty /\ g[2] = Empty THEN "both-empty" ELSE "ok"

\* The validator follows the type, the first field; a type of no branch
\* leaves it undefined.
DNSRecordValuePlusType(g) ==
    LET type == g[1].text
        ref  == CASE type = "A" -> "IPv4Address"
                  [] type = "AAAA" -> "IPv6Address"
                  [] type \in {"CNAME", "MX"} -> "DNSRecordName"
                  [] OTHER -> "undefined"
    IN  IF type \in {"TXT", "SRV"} THEN "ok"
                                   ELSE ValidateByParams(ref, g[2], 0, 0, FALSE)

\* The list of digits that the loops of UserTimeHourMinuteSecond make in n
\* steps: after 9 the right digit starts over at -1, not at 0.
Restart(d) == <<d[1] + 1, -1>>
DigitsMade(n) ==
    LET Following(d) == IF d[2] = 9 THEN Restart(d) ELSE <<d[1], d[2] + 1>>
        step[k \in 1 .. n] == IF k = 1 THEN <<0, 0>> ELSE Following(step[k - 1])
    IN  {Digits(step[k][1], step[k][2]) : k \in 1 .. n}
UserTimeFormatHours          == DigitsMade(23)
UserTimeFormatMinutesSeconds == DigitsMade(59)

UserTimeHourMinuteSecond(g) ==
    IF g[1] \notin UserTimeFormatHours THEN "hour"
    ELSE IF g[2] \notin UserTimeFormatMinutesSeconds THEN "minute"
    ELSE IF g[3] \notin UserTimeFormatMinutesSeconds THEN "second" ELSE "ok"

GroupCheck(fn, g) ==
    CASE fn = "CheckDiffer" -> CheckDiffer(g)
      [] fn = "CheckNull" -> CheckNull(g)
      [] fn = "CheckEmpty" -> CheckEmpty(g)
      [] fn = "CheckItemsMatch" -> CheckItemsMatch(g)
      [] fn = "MinOneItemNotNull" -> MinOneItemNotNull(g)
      [] fn = "CheckItemsOr" -> CheckItemsOr(g)
      [] fn = "DNSRecordValuePlusType" -> DNSRecordValuePlusType(g)
      [] fn = "UserTimeHourMinuteSecond" -> UserTimeHourMinuteSecond(g)
      [] fn = "Dummy" -> "dummy"

=============================================================================
