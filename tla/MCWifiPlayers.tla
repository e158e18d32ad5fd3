---------------------------- MODULE MCWifiPlayers ----------------------------
(* Instances of WifiPlayers for TLC. *)
EXTENDS WifiPlayers

CONSTANTS s1, s2, s3

MCTwo   == {s1, s2}
MCThree == {s1, s2, s3}
=============================================================================
