----------------------------- MODULE MCASServer -----------------------------
(* Instances of ASServer for TLC. *)
EXTENDS ASServer

CONSTANTS c1, c2

MCRequest(url, method) == [URL |-> url, HTTPMethod |-> method]

StartGame == MCRequest("/python/startgame", "GET")
PaddleUp  == MCRequest("/python/paddleup", "POST")
IndexHtml == MCRequest("/index.html", "GET")
NoFile    == MCRequest("/nofile.html", "GET")
OtherPost == MCRequest("/index.html", "POST")

MCTwo       == {c1, c2}
MCFiles     == {"/index.html", "/404.html"}
MCMixed     == {StartGame, PaddleUp, IndexHtml}
MCAnswering == {PaddleUp, IndexHtml, OtherPost}

MCOneEach   == [c \in Conns |-> 1]
MCThree     == [c \in Conns |-> IF c = c1 THEN 2 ELSE 1]
=============================================================================
