----------------------------- MODULE MCGameLoop -----------------------------
(* Instances of GameLoop for TLC: payloads of one length, or of two adjacent *)
(* lengths, where a byte of the longer can be left behind the shorter.       *)
EXTENDS GameLoop

MCOneLength  == {1}
MCTwoLengths == {1, 2}
=============================================================================
