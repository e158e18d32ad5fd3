---------------------------- MODULE MCBrowserPage ----------------------------
(* The buttons of the game tab, for TLC. *)
EXTENDS BrowserPage

MCFiles    == {"text-data", "menu", "object", "skeleton"}
MCButtons  == {"GameButtonStart", "GameButtonStop", "GameButtonPaddleUp"}
MCStarters == {"GameButtonStart"}
MCMovers   == {"GameButtonPaddleUp"}
MCNotify   == [b \in MCButtons |->
                 CASE b = "GameButtonStart" -> "GameStart"
                   [] b = "GameButtonStop" -> "GameStop"
                   [] OTHER -> "NoID"]
=============================================================================
