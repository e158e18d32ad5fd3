---------------------------- MODULE MCFormValidate ----------------------------
(* The button of the page's date and time form, and two buttons that are   *)
(* not on the page: one for network settings, one with two lists.          *)
EXTENDS FormValidate

DateTime == "SetDeviceDateTime"

MCFormlists == [b \in {DateTime, "SetNetwork", "AddRecord"} |->
    CASE b = DateTime -> <<"SystemDateTimeFormlist">>
      [] b = "SetNetwork" -> <<"NetworkList">>
      [] OTHER -> <<"RecordList", "PasswordList">>]

MCFields == [l \in {"SystemDateTimeFormlist", "NetworkList", "RecordList", "PasswordList"} |->
    CASE l = "SystemDateTimeFormlist" -> <<"Date", "Hour", "Minute", "Second">>
      [] l = "NetworkList" -> <<"Address", "Mask", "Port", "Address6", "Lease">>
      [] l = "RecordList" -> <<"RecordType", "RecordValue", "TTL", "Expires">>
      [] OTHER -> <<"UserName", "Password", "Again">>]

Fs == {"Date", "Hour", "Minute", "Second", "Address", "Mask", "Port", "Address6", "Lease",
       "RecordType", "RecordValue", "TTL", "Expires", "UserName", "Password", "Again"}

Sixty == {Digits(0, 0), Digits(5, 9), Digits(6, 0)}
MCInputs == [f \in Fs |->
    CASE f = "Date" -> {Empty, Date(2024, 2, 29, TRUE), Date(2025, 12, 31, TRUE)}
      [] f = "Hour" -> {Digits(0, 0), Digits(2, 0), Digits(2, 3), Digits(1, -1), Text("x")}
      [] f \in {"Minute", "Second"} -> Sixty
      [] f = "Address" -> {Empty, Octets(<<192, 168, 4, 1>>)}
      [] f = "Mask" -> {Octets(<<255, 255, 255, 0>>), Octets(<<255, 253, 0, 0>>),
                        Octets(<<0, 0, 0, 0>>), Octets(<<254, 128, 0, 0>>),
                        Octets(<<255, 255, 128>>), Octets(<<255, 255, 255, 255>>)}
      [] f = "Port" -> {Empty, Number(0), Text("http")}
      [] f = "Lease" -> {Number(0), Number(5)}
      [] f = "Address6" -> {Nibbles([i \in 1 .. 8 |-> "hex"]),
                            Nibbles([i \in 1 .. 8 |-> IF i = 8 THEN "other" ELSE "hex"]),
                            Nibbles([i \in 1 .. 3 |-> "hex"])}
      [] f = "RecordType" -> {Text("A"), Text("CNAME"), Text("TXT")}
      [] f = "RecordValue" -> {Octets(<<192, 168, 4, 1>>), Name(9, TRUE, FALSE), Empty}
      [] f = "TTL" -> {Empty, Number(5), Number(500)}
      [] f = "Expires" -> {Date(2023, 2, 29, TRUE), Date(2023, 2, 28, TRUE)}
      [] f = "UserName" -> {Empty, Name(4, TRUE, FALSE)}
      [] OTHER -> {Text("a"), Text("b")}]

MCDefault == [f \in Fs |->
    CASE f \in {"Date", "Address", "Port", "RecordValue", "TTL", "UserName"} -> Empty
      [] f \in {"Hour", "Minute", "Second"} -> Digits(0, 0)
      [] f = "Mask" -> Octets(<<255, 255, 255, 0>>)
      [] f = "Address6" -> Nibbles([i \in 1 .. 3 |-> "hex"])
      [] f = "Lease" -> Number(0)
      [] f = "RecordType" -> Text("A")
      [] f = "Expires" -> Date(2023, 2, 28, TRUE)
      [] OTHER -> Text("a")]

MCRef == [f \in Fs |->
    CASE f = "Date" -> "DateInternational"
      [] f = "Address" -> "IPv4Address"
      [] f = "Mask" -> "IPv4SubnetMask"
      [] f = "Port" -> "IPPort"
      [] f = "Address6" -> "IPv6Address"
      [] f = "Lease" -> "DefaultInteger"
      [] f = "TTL" -> "MinMax"
      [] f = "Expires" -> "DateGerman"
      [] f = "UserName" -> "DNSRecordName"
      [] OTHER -> "ignored"]

MCLeast == [f \in Fs |-> 10]
MCMost == [f \in Fs |-> 1000]

NoGroup == [function |-> "", fields |-> <<>>]
MCGroup == [l \in DOMAIN MCFields |->
    CASE l = "SystemDateTimeFormlist" -> [function |-> "UserTimeHourMinuteSecond",
                                          fields |-> <<"Hour", "Minute", "Second">>]
      [] l = "RecordList" -> [function |-> "DNSRecordValuePlusType",
                              fields |-> <<"RecordType", "RecordValue">>]
      [] l = "PasswordList" -> [function |-> "CheckItemsMatch",
                                fields |-> <<"Password", "Again">>]
      [] OTHER -> NoGroup]

MCOnChange == [f \in Fs |->
    IF f = "RecordType"
    THEN [field |-> "TTL", activate |-> {Text("A")}, deactivate |-> {Text("TXT")}]
    ELSE [field |-> "", activate |-> {}, deactivate |-> {}]]
=============================================================================
