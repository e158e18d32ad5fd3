------------------------------- MODULE MCScreens -------------------------------
(* Three screens, objects on two of them, two events.  "refresh" sets an      *)
(* object of either screen, "load" only the first.  An overlay of a screen    *)
(* listens to the events of the screen.                                       *)
EXTENDS Screens

MCHomeOf     == [o \in {"title", "total"} |-> IF o = "title" THEN "List" ELSE "Detail"]
MCDstObjects == [e \in {"refresh", "load"} |->
                    IF e = "refresh" THEN <<"title", "total">> ELSE <<"title">>]
MCListening  == [S \in {"List", "Detail", "Help"} |->
                    CASE S = "List" -> {"refresh"}
                      [] S = "Detail" -> {"load"}
                      [] OTHER -> {}]
=============================================================================
