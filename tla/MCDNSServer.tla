----------------------------- MODULE MCDNSServer -----------------------------
(* Instances of DNSServer for TLC. *)
EXTENDS DNSServer

CONSTANT phone1

\* A question: its length, and what it says of the name, the type, the number
\* of additional records and the record behind the question.
MCQuestion(len, nm, type, additional, record) ==
    [length |-> len,
     bytes |-> [flags |-> "query", qd |-> "1", an |-> "0", ns |-> "0",
                ar |-> additional, name |-> nm, qtype |-> type, opt |-> record]]

Plain     == MCQuestion(27, "pong.game", "A/IN", "0", "other")
Edns0     == MCQuestion(38, "pong.game", "A/IN", "1", "OPT")
Edns0Long == MCQuestion(99, "pong.game", "A/IN", "1", "OPT")
TooLong   == MCQuestion(128, "pong.game", "A/IN", "1", "OPT")
NotOpt    == MCQuestion(38, "pong.game", "A/IN", "1", "other")
Aaaa      == MCQuestion(38, "pong.game", "other", "1", "OPT")
OtherName == MCQuestion(39, "other", "other", "1", "other")

\* Questions that are cut: before the record, in it, in the type, in the name.
CutRecord == MCQuestion(27, "pong.game", "A/IN", "1", "other")
CutOpt    == MCQuestion(30, "pong.game", "A/IN", "1", "OPT")
CutType   == MCQuestion(24, "pong.game", "other", "0", "other")
CutName   == MCQuestion(20, "pong.game", "other", "0", "other")

MCOne == {phone1}

MCQuestions == {Plain, Edns0, Edns0Long, TooLong, NotOpt,
                Aaaa, OtherName, CutRecord, CutOpt, CutType, CutName}
=============================================================================
