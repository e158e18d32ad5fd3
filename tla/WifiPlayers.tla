----------------------------- MODULE WifiPlayers -----------------------------
(***************************************************************************)
(* From a phone joining the access point to a player on the title screen   *)
(* and a flash of the LED: the WiFi event handler (event task) sets bits   *)
(* of an event group, the main loop reads and clears them once in fifty    *)
(* turns, counts players and sets the LED trigger, and the LED thread      *)
(* fades and resets the trigger.  Reading and clearing the bits are two    *)
(* calls, and so are reading and resetting the trigger.                    *)
(***************************************************************************)
EXTENDS Naturals, FiniteSets

CONSTANTS Stations,   \* the phones
          MaxEvents   \* bound: WiFi events of each kind

ASSUME WifiAssumption ==
    /\ IsFiniteSet(Stations)
    /\ MaxEvents \in Nat

VARIABLES
    station,          \* per phone: "away", "associated" or "assigned" an IP
    bits,             \* the event group
    mpc,              \* main loop: outside, after GetBits, before ClearBits
    WifiStatusBits,   \* main loop: what it read
    PlayerCount,      \* TitleScreen
    LEDFlashTrigger,  \* shared: 0, 1 connect, 2 disconnect, 3 score
    led,              \* LED thread: the flash it shows, 0 none
    patient,          \* whether the phones take their time (see Patience)
    joined, leased, left, \* history: events of each kind
    added, removed    \* history: calls of addPlayer and removePlayer

wifi    == <<station, bits, joined, leased, left>>
main    == <<mpc, WifiStatusBits, PlayerCount, added, removed>>
vars    == <<wifi, main, LEDFlashTrigger, led, patient>>

Bits    == {"CONNECTED", "DISCONNECTED", "IP_ASSIGNED"}
Join    == {"CONNECTED", "IP_ASSIGNED"}

\* constants.h.  Mutant: a departure flashes as a score does.
LED_FLASH_WIFI_CONNECT == 1
DisconnectAsScore == 3
LED_FLASH_WIFI_DISCONNECT == 2
LED_FLASH_PLAYER_SCORE == 3

Flashes == {LED_FLASH_WIFI_CONNECT, LED_FLASH_WIFI_DISCONNECT,
            LED_FLASH_PLAYER_SCORE}

Init ==
    /\ station = [s \in Stations |-> "away"]
    /\ bits = {}
    /\ mpc = "turn"
    /\ WifiStatusBits = {}
    /\ PlayerCount = 0
    /\ LEDFlashTrigger = 0
    /\ led = 0
    /\ patient \in BOOLEAN
    /\ joined = 0 /\ leased = 0 /\ left = 0
    /\ added = 0 /\ removed = 0

-----------------------------------------------------------------------------
(***************************************************************************)
(* Patient phones: at most two, one joins or leaves only when everything   *)
(* about the previous event has been handled and shown, gets its IP before *)
(* it leaves again, and no game is played meanwhile.  Others do as they    *)
(* like.                                                                   *)
(***************************************************************************)
Quiet == bits = {} /\ mpc = "turn" /\ LEDFlashTrigger = 0 /\ led = 0

Present  == {s \in Stations : station[s] # "away"}
Assigned == {s \in Stations : station[s] = "assigned"}

(* WIFIEventHandler: each event sets a bit, whoever it is about and whether *)
(* or not the bit is set already.                                           *)
Associate(s) ==
    /\ station[s] = "away" /\ joined < MaxEvents
    /\ patient => Quiet /\ Cardinality(Present) < 2
    /\ station' = [station EXCEPT ![s] = "associated"]
    /\ bits' = bits \cup {"CONNECTED"}
    /\ joined' = joined + 1
    /\ UNCHANGED <<leased, left, main, LEDFlashTrigger, led, patient>>

AssignIP(s) ==
    /\ station[s] = "associated" /\ leased < MaxEvents
    /\ station' = [station EXCEPT ![s] = "assigned"]
    /\ bits' = bits \cup {"IP_ASSIGNED"}
    /\ leased' = leased + 1
    /\ UNCHANGED <<joined, left, main, LEDFlashTrigger, led, patient>>

Leave(s) ==
    /\ station[s] # "away" /\ left < MaxEvents
    /\ patient => Quiet
    /\ station' = [station EXCEPT ![s] = "away"]
    /\ bits' = bits \cup {"DISCONNECTED"}
    /\ left' = left + 1
    /\ UNCHANGED <<joined, leased, main, LEDFlashTrigger, led, patient>>

-----------------------------------------------------------------------------
(* The main loop. *)
GetBits ==
    /\ mpc = "turn"
    /\ WifiStatusBits' = bits
    /\ mpc' = "branch"
    /\ UNCHANGED <<wifi, PlayerCount, added, removed, LEDFlashTrigger, led, patient>>

\* Both bits of a join.  Mutant: association alone counts as a player.
AssociationSuffices == "CONNECTED" \in WifiStatusBits
JoinSeen == Join \subseteq WifiStatusBits

AddPlayer ==
    /\ mpc = "branch"
    /\ JoinSeen
    /\ LEDFlashTrigger' = LED_FLASH_WIFI_CONNECT
    /\ PlayerCount' = IF PlayerCount < 2 THEN PlayerCount + 1 ELSE PlayerCount
    /\ added' = added + 1
    /\ mpc' = "clear"
    /\ UNCHANGED <<wifi, WifiStatusBits, removed, led, patient>>

\* Mutant: removePlayer without its floor, as an 8-bit counter wraps.
RemoveWraps == (PlayerCount + 255) % 256
RemoveFloored == IF PlayerCount > 0 THEN PlayerCount - 1 ELSE PlayerCount

RemovePlayer ==
    /\ mpc = "branch"
    /\ ~JoinSeen
    /\ "DISCONNECTED" \in WifiStatusBits
    /\ LEDFlashTrigger' = LED_FLASH_WIFI_DISCONNECT
    /\ PlayerCount' = RemoveFloored
    /\ removed' = removed + 1
    /\ mpc' = "clear"
    /\ UNCHANGED <<wifi, WifiStatusBits, added, led, patient>>

NoEvent ==
    /\ mpc = "branch"
    /\ ~JoinSeen
    /\ "DISCONNECTED" \notin WifiStatusBits
    /\ mpc' = "turn"
    /\ WifiStatusBits' = {}
    /\ UNCHANGED <<wifi, PlayerCount, added, removed, LEDFlashTrigger, led, patient>>

\* The bits a branch clears.  Mutant: a join clears one of its two bits.
ClearedPartly == IF JoinSeen THEN {"CONNECTED"} ELSE {"DISCONNECTED"}
Cleared == IF JoinSeen THEN Join ELSE {"DISCONNECTED"}

ClearBits ==
    /\ mpc = "clear"
    /\ bits' = bits \ Cleared
    /\ mpc' = "turn"
    /\ WifiStatusBits' = {}
    /\ UNCHANGED <<station, joined, leased, left, PlayerCount, added, removed,
                   LEDFlashTrigger, led, patient>>

MainNext == GetBits \/ AddPlayer \/ RemovePlayer \/ NoEvent \/ ClearBits

\* The game screen triggers its own flash (see GameLoop).
Score ==
    /\ mpc = "turn"
    /\ ~patient
    /\ LEDFlashTrigger' = LED_FLASH_PLAYER_SCORE
    /\ UNCHANGED <<wifi, main, led, patient>>

-----------------------------------------------------------------------------
(* led_flashing_thread. *)
StartFade ==
    /\ led = 0
    /\ LEDFlashTrigger # 0
    /\ led' = LEDFlashTrigger
    /\ UNCHANGED <<wifi, main, LEDFlashTrigger, patient>>

EndFade ==
    /\ led # 0
    /\ LEDFlashTrigger' = 0
    /\ led' = 0
    /\ UNCHANGED <<wifi, main, patient>>

LEDNext == StartFade \/ EndFade

-----------------------------------------------------------------------------
StationNext(s) == Associate(s) \/ AssignIP(s) \/ Leave(s)

Next == (\E s \in Stations : StationNext(s)) \/ Score \/ MainNext \/ LEDNext

\* Both tasks are scheduled for ever, and a patient phone asks for an IP until
\* it gets one.
Fairness ==
    /\ WF_vars(MainNext) /\ WF_vars(LEDNext)
    /\ \A s \in Stations : WF_vars(patient /\ AssignIP(s))

Safety == Init /\ [][Next]_vars
Spec   == Safety /\ Fairness

-----------------------------------------------------------------------------
(* Properties. *)

\* The type invariant.
TypeOK ==
    /\ station \in [Stations -> {"away", "associated", "assigned"}]
    /\ bits \subseteq Bits
    /\ mpc \in {"turn", "branch", "clear"}
    /\ WifiStatusBits \subseteq Bits
    /\ PlayerCount \in 0 .. 2
    /\ LEDFlashTrigger \in Flashes \cup {0}
    /\ led \in Flashes \cup {0}
    /\ patient \in BOOLEAN
    /\ joined \in Nat /\ leased \in Nat /\ left \in Nat
    /\ added \in Nat /\ removed \in Nat

\* No event is counted twice: each player added had an association and an IP
\* of its own, each one removed a departure of its own, however events and the
\* two calls of the main loop interleave.
NoEventCountedTwice ==
    /\ added <= joined /\ added <= leased
    /\ removed <= left

\* When all is quiet, the title screen counts exactly the phones that have an
\* IP, if they are patient.
EveryPhoneCounted ==
    Quiet => PlayerCount = Cardinality(Assigned)
CountsStations == patient => EveryPhoneCounted

\* Bits that the main loop has not acted upon yet.
Pending(B) == patient /\ B \subseteq bits /\ mpc # "clear"

\* A patient phone that got its IP makes the LED show the connect flash, one
\* that left the disconnect flash.
EventsFlash == /\ Pending(Join) ~> led = 1
               /\ Pending({"DISCONNECTED"}) ~> led = 2
=============================================================================
