-------------------------- MODULE WifiPlayersProofs --------------------------
(***************************************************************************)
(* Proofs about WifiPlayers, for every set of phones and number of events. *)
(*                                                                         *)
(* That no event is counted twice is not inductive: a bit that is set      *)
(* stands for an event that is still to be counted, and loses that meaning *)
(* when the main loop has counted it but not cleared it yet.               *)
(*                                                                         *)
(* That the title screen counts the stations when all is quiet is not      *)
(* inductive either: its invariant says, for every state between an event  *)
(* and its end, which bits stand for it and by how much the count is off.  *)
(***************************************************************************)
EXTENDS WifiPlayers, FiniteSetTheorems, TLAPS

\* The main loop acts on bits that are still set; before it clears them it has
\* taken one of the two branches.
ReadOK ==
    /\ mpc # "turn" => WifiStatusBits \subseteq bits
    /\ mpc = "clear" => JoinSeen \/ "DISCONNECTED" \in WifiStatusBits

\* A bit that is set, and not about to be cleared, promises an event that has
\* not been counted.
Promised(b) == b \in bits /\ ~(mpc = "clear" /\ b \in Cleared)
PromisesOK ==
    /\ Promised("CONNECTED") => added < joined
    /\ Promised("IP_ASSIGNED") => added < leased
    /\ Promised("DISCONNECTED") => removed < left

Inv == TypeOK /\ ReadOK /\ PromisesOK /\ NoEventCountedTwice

LEMMA InvInit == Init => Inv
  BY DEF Init, Inv, TypeOK, ReadOK, PromisesOK, Promised, NoEventCountedTwice, Bits

LEMMA InvNext == Inv /\ [Next]_vars => Inv'
  <1> SUFFICES ASSUME Inv, [Next]_vars PROVE Inv'
    OBVIOUS
  <1> USE DEF Inv, TypeOK, ReadOK, PromisesOK, Promised, NoEventCountedTwice, Bits,
              wifi, main
  <1>1. ASSUME NEW s \in Stations, Associate(s) PROVE Inv'
    BY <1>1 DEF Associate, JoinSeen, Cleared, Join
  <1>2. ASSUME NEW s \in Stations, AssignIP(s) PROVE Inv'
    BY <1>2 DEF AssignIP, JoinSeen, Cleared, Join
  <1>3. ASSUME NEW s \in Stations, Leave(s) PROVE Inv'
    BY <1>3 DEF Leave, JoinSeen, Cleared, Join
  <1>4. CASE Score
    BY <1>4 DEF Score, JoinSeen, Cleared, Flashes
  <1>5. CASE GetBits
    BY <1>5 DEF GetBits, JoinSeen, Cleared
  <1>6. CASE AddPlayer
    BY <1>6 DEF AddPlayer, JoinSeen, Cleared, Join, Flashes
  <1>7. CASE RemovePlayer
    BY <1>7 DEF RemovePlayer, RemoveFloored, JoinSeen, Cleared, Join, Flashes
  <1>8. CASE NoEvent
    BY <1>8 DEF NoEvent, JoinSeen, Cleared
  <1>9. CASE ClearBits
    BY <1>9 DEF ClearBits, JoinSeen, Cleared, Join
  <1>10. CASE StartFade
    BY <1>10 DEF StartFade, JoinSeen, Cleared
  <1>11. CASE EndFade
    BY <1>11 DEF EndFade, JoinSeen, Cleared
  <1>12. CASE UNCHANGED vars
    BY <1>12 DEF vars, JoinSeen, Cleared
  <1> QED
    BY <1>1, <1>2, <1>3, <1>4, <1>5, <1>6, <1>7, <1>8, <1>9, <1>10, <1>11, <1>12
    DEF Next, StationNext, MainNext, LEDNext

\* Type correctness.  TitleScreen::addPlayer and removePlayer keep the count
\* between 0 and 2 for any number of phones.
THEOREM TypeCorrect == Safety => []TypeOK
  <1>1. Inv => TypeOK
    BY DEF Inv
  <1> QED BY <1>1, InvInit, InvNext, PTL DEF Safety

\* The main loop counts no WiFi event twice, although it reads and clears the
\* bits of the event group in two calls and the event task sets them any time.
THEOREM EventsCountedOnce == Safety => []NoEventCountedTwice
  <1>1. Inv => NoEventCountedTwice
    BY DEF Inv
  <1> QED BY <1>1, InvInit, InvNext, PTL DEF Safety
-----------------------------------------------------------------------------
(* Patient phones: the count. *)

Associated == {s \in Stations : station[s] = "associated"}

\* A player that joined and is still to be counted, one that left and is still
\* to be taken off.
Joining == IF bits = Join /\ mpc # "clear" THEN 1 ELSE 0
Leaving == IF bits = {"DISCONNECTED"} /\ mpc # "clear" THEN 1 ELSE 0

\* One event at a time: the bits tell which, a phone without its IP is alone,
\* and the count is off by the event that is still to be handled.
OneAtATime ==
    /\ bits \in {{}, {"CONNECTED"}, Join, {"DISCONNECTED"}}
    /\ bits = {"CONNECTED"} => \E s \in Stations : Associated = {s}
    /\ bits # {"CONNECTED"} => Associated = {}
CountOK ==
    /\ Cardinality(Present) <= 2
    /\ PlayerCount + Joining = Cardinality(Assigned) + Leaving
PatientInv == patient => OneAtATime /\ CountOK

\* The sets of phones are finite, so their sizes are numbers.
LEMMA PhonesFinite ==
    /\ IsFiniteSet(Assigned) /\ Cardinality(Assigned) \in Nat
    /\ IsFiniteSet(Present) /\ Cardinality(Present) \in Nat
    /\ TypeOK => Cardinality(Assigned) <= Cardinality(Present)
  <1>1. Assigned \in SUBSET Stations /\ Present \in SUBSET Stations
    BY DEF Assigned, Present
  <1>2. IsFiniteSet(Stations)
    BY WifiAssumption
  <1>3. IsFiniteSet(Assigned) /\ IsFiniteSet(Present)
    BY <1>1, <1>2, FS_Subset
  <1>4. Cardinality(Assigned) \in Nat /\ Cardinality(Present) \in Nat
    BY <1>3, FS_CardinalityType
  <1>5. Assigned \in SUBSET Present
    BY DEF Assigned, Present
  <1>6. Cardinality(Assigned) <= Cardinality(Present)
    BY <1>3, <1>5, FS_Subset
  <1> QED
    BY <1>3, <1>4, <1>6

LEMMA PatientInit == Init => PatientInv
  <1> SUFFICES ASSUME Init PROVE PatientInv
    OBVIOUS
  <1>1. Assigned = {} /\ Present = {} /\ Associated = {}
    BY DEF Init, Assigned, Present, Associated
  <1>2. Cardinality(Assigned) = 0 /\ Cardinality(Present) = 0
    BY <1>1, FS_EmptySet
  <1> QED
    BY <1>1, <1>2 DEF Init, PatientInv, OneAtATime, CountOK, Joining, Leaving, Join

\* The bits are four different sets.
LEMMA BitsDiffer ==
    /\ Join # {} /\ Join # {"CONNECTED"} /\ Join # {"DISCONNECTED"}
    /\ {"CONNECTED"} \cup {"IP_ASSIGNED"} = Join
    /\ {} # {"CONNECTED"} /\ {} # {"DISCONNECTED"}
    /\ {"CONNECTED"} # {"DISCONNECTED"}
  <1>1. "CONNECTED" \in Join /\ "IP_ASSIGNED" \in Join
    BY DEF Join
  <1>2. "CONNECTED" # "IP_ASSIGNED" /\ "CONNECTED" # "DISCONNECTED"
    OBVIOUS
  <1> QED
    BY <1>1, <1>2 DEF Join

LEMMA PatientNext == Inv /\ PatientInv /\ [Next]_vars => PatientInv'
  <1> SUFFICES ASSUME Inv, PatientInv, [Next]_vars, patient' PROVE (OneAtATime /\ CountOK)'
    BY DEF PatientInv
  <1>0. patient
    BY DEF Next, StationNext, Associate, AssignIP, Leave, Score, MainNext, GetBits, AddPlayer,
           RemovePlayer, NoEvent, ClearBits, LEDNext, StartFade, EndFade, vars
  <1>a. OneAtATime /\ CountOK
    BY <1>0 DEF PatientInv
  <1>b. TypeOK /\ ReadOK
    BY DEF Inv
  <1>c. /\ Cardinality(Assigned) \in Nat /\ Cardinality(Present) \in Nat
        /\ Cardinality(Assigned) <= Cardinality(Present)
        /\ IsFiniteSet(Assigned) /\ IsFiniteSet(Present)
    BY <1>b, PhonesFinite
  <1>1. ASSUME NEW s \in Stations, Associate(s) PROVE (OneAtATime /\ CountOK)'
    <2>1. bits = {} /\ mpc = "turn" /\ Cardinality(Present) < 2
      BY <1>0, <1>1 DEF Associate, Quiet
    <2>2. Associated = {}
      BY <1>a, <2>1, BitsDiffer DEF OneAtATime
    <2>3. /\ Associated' = {s} /\ Assigned' = Assigned
          /\ Present' = Present \cup {s} /\ s \notin Present
      BY <1>1, <1>b, <2>2 DEF Associate, TypeOK, Associated, Assigned, Present
    <2>4. bits' = {"CONNECTED"} /\ mpc' = mpc /\ PlayerCount' = PlayerCount
      BY <1>1, <2>1 DEF Associate, main
    <2>5. Cardinality(Present') = Cardinality(Present) + 1
      BY <1>c, <2>3, FS_AddElement
    <2>6. OneAtATime'
      BY <2>3, <2>4, BitsDiffer DEF OneAtATime
    <2>7. Joining = 0 /\ Leaving = 0 /\ Joining' = 0 /\ Leaving' = 0
      BY <2>1, <2>4, BitsDiffer DEF Joining, Leaving
    <2>8. CountOK'
      BY <1>a, <1>c, <2>1, <2>3, <2>4, <2>5, <2>7 DEF CountOK
    <2> QED
      BY <2>6, <2>8
  <1>2. ASSUME NEW s \in Stations, AssignIP(s) PROVE (OneAtATime /\ CountOK)'
    <2>1. s \in Associated
      BY <1>2 DEF AssignIP, Associated
    <2>2. bits = {"CONNECTED"} /\ Associated = {s}
      BY <1>a, <2>1 DEF OneAtATime
    <2>3. /\ Associated' = {} /\ Assigned' = Assigned \cup {s}
          /\ Present' = Present /\ s \notin Assigned
      BY <1>2, <1>b, <2>2 DEF AssignIP, TypeOK, Associated, Assigned, Present
    <2>4. bits' = Join /\ mpc' = mpc /\ PlayerCount' = PlayerCount
      BY <1>2, <2>2, BitsDiffer DEF AssignIP, main
    <2>5. Cardinality(Assigned') = Cardinality(Assigned) + 1
      BY <1>c, <2>3, FS_AddElement
    <2>6. OneAtATime'
      BY <2>3, <2>4, BitsDiffer DEF OneAtATime
    <2>7. mpc # "clear"
      BY <1>b, <2>2 DEF ReadOK, JoinSeen, Join
    <2>8. Joining = 0 /\ Leaving = 0 /\ Joining' = 1 /\ Leaving' = 0
      BY <2>2, <2>4, <2>7, BitsDiffer DEF Joining, Leaving
    <2>9. CountOK'
      BY <1>a, <1>b, <1>c, <2>3, <2>4, <2>5, <2>8 DEF CountOK, TypeOK
    <2> QED
      BY <2>6, <2>9
  <1>3. ASSUME NEW s \in Stations, Leave(s) PROVE (OneAtATime /\ CountOK)'
    <2>1. bits = {} /\ mpc = "turn"
      BY <1>0, <1>3 DEF Leave, Quiet
    <2>2. Associated = {}
      BY <1>a, <2>1, BitsDiffer DEF OneAtATime
    <2>3. /\ Associated' = {} /\ Assigned' = Assigned \ {s}
          /\ Present' = Present \ {s} /\ s \in Assigned /\ s \in Present
      BY <1>3, <1>b, <2>2 DEF Leave, TypeOK, Associated, Assigned, Present
    <2>4. bits' = {"DISCONNECTED"} /\ mpc' = mpc /\ PlayerCount' = PlayerCount
      BY <1>3, <2>1 DEF Leave, main
    <2>5. /\ Cardinality(Assigned') = Cardinality(Assigned) - 1
          /\ Cardinality(Present') = Cardinality(Present) - 1
      BY <1>c, <2>3, FS_RemoveElement
    <2>6. OneAtATime'
      BY <2>3, <2>4, BitsDiffer DEF OneAtATime
    <2>7. Joining = 0 /\ Leaving = 0 /\ Joining' = 0 /\ Leaving' = 1
      BY <2>1, <2>4, BitsDiffer DEF Joining, Leaving
    <2>8. CountOK'
      BY <1>a, <1>b, <1>c, <2>4, <2>5, <2>7 DEF CountOK, TypeOK
    <2> QED
      BY <2>6, <2>8
  <1>4. ASSUME UNCHANGED <<station, bits, PlayerCount>>, (mpc = "clear") <=> (mpc' = "clear")
        PROVE  (OneAtATime /\ CountOK)'
    BY <1>a, <1>4 DEF OneAtATime, CountOK, Associated, Assigned, Present, Joining, Leaving
  <1>5. CASE Score \/ GetBits \/ NoEvent \/ StartFade \/ EndFade \/ UNCHANGED vars
    BY <1>4, <1>5 DEF Score, GetBits, NoEvent, StartFade, EndFade, vars, wifi, main
  <1>6. CASE AddPlayer
    <2>1. bits = Join /\ mpc = "branch" /\ mpc' = "clear"
      BY <1>6, <1>a, <1>b, BitsDiffer DEF AddPlayer, ReadOK, JoinSeen, Join, OneAtATime
    <2>2. UNCHANGED <<station, bits>>
      BY <1>6 DEF AddPlayer, wifi
    <2>3. OneAtATime' /\ Assigned' = Assigned /\ Present' = Present
      BY <1>a, <2>2 DEF OneAtATime, Associated, Assigned, Present
    <2>4. Joining = 1 /\ Leaving = 0 /\ Joining' = 0 /\ Leaving' = 0
      BY <2>1, <2>2, BitsDiffer DEF Joining, Leaving
    <2>5. PlayerCount' = PlayerCount + 1
      BY <1>6, <1>a, <1>b, <1>c, <2>4 DEF AddPlayer, CountOK, TypeOK
    <2>6. CountOK'
      BY <1>a, <1>b, <1>c, <2>3, <2>4, <2>5 DEF CountOK, TypeOK
    <2> QED
      BY <2>3, <2>6
  <1>7. CASE RemovePlayer
    <2>1. bits = {"DISCONNECTED"} /\ mpc = "branch" /\ mpc' = "clear"
      BY <1>7, <1>a, <1>b, BitsDiffer DEF RemovePlayer, ReadOK, Join, OneAtATime
    <2>2. UNCHANGED <<station, bits>>
      BY <1>7 DEF RemovePlayer, wifi
    <2>3. OneAtATime' /\ Assigned' = Assigned /\ Present' = Present
      BY <1>a, <2>2 DEF OneAtATime, Associated, Assigned, Present
    <2>4. Joining = 0 /\ Leaving = 1 /\ Joining' = 0 /\ Leaving' = 0
      BY <2>1, <2>2, BitsDiffer DEF Joining, Leaving
    <2>5. PlayerCount' = PlayerCount - 1
      BY <1>7, <1>a, <1>b, <1>c, <2>4 DEF RemovePlayer, RemoveFloored, CountOK, TypeOK
    <2>6. CountOK'
      BY <1>a, <1>b, <1>c, <2>3, <2>4, <2>5 DEF CountOK, TypeOK
    <2> QED
      BY <2>3, <2>6
  <1>8. CASE ClearBits
    <2>1. mpc = "clear" /\ mpc' = "turn"
      BY <1>8 DEF ClearBits
    <2>2. \/ bits = Join /\ JoinSeen
          \/ bits = {"DISCONNECTED"} /\ ~JoinSeen
      BY <1>a, <1>b, <2>1, BitsDiffer DEF ReadOK, JoinSeen, Join, OneAtATime
    <2>3. bits' = {}
      BY <1>8, <2>2 DEF ClearBits, Cleared
    <2>4. Associated' = {} /\ Assigned' = Assigned /\ Present' = Present
      BY <1>8, <1>a, <2>2, BitsDiffer DEF ClearBits, OneAtATime, Associated, Assigned, Present
    <2>5. Joining = 0 /\ Leaving = 0 /\ Joining' = 0 /\ Leaving' = 0
      BY <2>1, <2>3, BitsDiffer DEF Joining, Leaving
    <2>6. OneAtATime'
      BY <2>3, <2>4, BitsDiffer DEF OneAtATime
    <2>7. CountOK'
      BY <1>8, <1>a, <2>4, <2>5 DEF ClearBits, CountOK
    <2> QED
      BY <2>6, <2>7
  <1> QED
    BY <1>1, <1>2, <1>3, <1>5, <1>6, <1>7, <1>8 DEF Next, StationNext, MainNext, LEDNext

\* However the event task, the main loop and the LED thread interleave, when
\* all is quiet the title screen counts exactly the phones that have an IP, as
\* long as the phones are patient.
THEOREM StationsCounted == Safety => []CountsStations
  <1>1. Inv /\ PatientInv => CountsStations
    <2> SUFFICES ASSUME Inv, PatientInv, patient, Quiet
                 PROVE  PlayerCount = Cardinality(Assigned)
      BY DEF CountsStations, EveryPhoneCounted
    <2>1. Joining = 0 /\ Leaving = 0
      BY BitsDiffer DEF Quiet, Joining, Leaving
    <2>2. CountOK
      BY DEF PatientInv
    <2> QED
      BY <2>1, <2>2, PhonesFinite DEF CountOK, Inv, TypeOK
  <1> QED BY <1>1, InvInit, InvNext, PatientInit, PatientNext, PTL DEF Safety
=============================================================================
