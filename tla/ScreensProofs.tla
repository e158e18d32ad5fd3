---------------------------- MODULE ScreensProofs ----------------------------
(***************************************************************************)
(* Proofs about Screens, for any screens, objects and events.              *)
(*                                                                         *)
(* That an overlay on display can be closed is not inductive: switching    *)
(* shows what the table holds, so that an overlay that is only in the      *)
(* table must be the last one opened, and the count must know of it, too.  *)
(***************************************************************************)
EXTENDS Screens, FiniteSetTheorems, TLAPS

\* The close button acts on no screen, only on an overlay.
OverlayReal == OverlayScreen = None \/ OverlayScreen.number > 0

\* The table holds no overlay but the open one.
TableOverlay ==
    \A S \in DOMAIN Screens : Screens[S].number > 0 =>
        Screens[S] = OverlayScreen /\ OverlayRefCount = 1

Inv == /\ TypeOK /\ OverlayReal /\ TableOverlay
       /\ CurrentScreenShown /\ OverlayCanBeClosed /\ MarkedAwaitsAnswer

-----------------------------------------------------------------------------
(* There are finitely many registrations, so that they can be counted. *)

LEMMA RootsFinite == IsFiniteSet(Roots)
  <1> DEFINE Pairs == ScreenIDs \X (0 .. MaxOpened)
             f == [p \in Pairs |-> Root(p[1], p[2])]
  <1>1. IsFiniteSet(Pairs)
    <2>1. IsFiniteSet(0 .. MaxOpened)
      BY ScreensAssumption, FS_Interval
    <2>2. IsFiniteSet(ScreenIDs)
      BY ScreensAssumption
    <2> QED BY <2>1, <2>2, FS_Product
  <1>2. f \in Surjection(Pairs, Roots)
    <2>1. f \in [Pairs -> Roots]
      BY DEF Roots
    <2>2. ASSUME NEW r \in Roots PROVE \E p \in Pairs : f[p] = r
      <3>1. PICK S \in ScreenIDs, n \in 0 .. MaxOpened : r = Root(S, n)
        BY DEF Roots
      <3>2. <<S, n>> \in Pairs /\ f[<<S, n>>] = r
        BY <3>1
      <3> QED BY <3>2
    <2> QED BY <2>1, <2>2 DEF Surjection
  <1> QED BY <1>1, <1>2, FS_Surjection

LEMMA RegistrationsFinite == IsFiniteSet([ID : EventIDs, of : Roots])
  <1> DEFINE Pairs == EventIDs \X Roots
             f == [p \in Pairs |-> [ID |-> p[1], of |-> p[2]]]
  <1>1. IsFiniteSet(Pairs)
    BY ScreensAssumption, RootsFinite, FS_Product
  <1>2. f \in Surjection(Pairs, [ID : EventIDs, of : Roots])
    <2>1. f \in [Pairs -> [ID : EventIDs, of : Roots]]
      OBVIOUS
    <2>2. ASSUME NEW r \in [ID : EventIDs, of : Roots] PROVE \E p \in Pairs : f[p] = r
      <3>1. <<r.ID, r.of>> \in Pairs /\ f[<<r.ID, r.of>>] = r
        OBVIOUS
      <3> QED BY <3>1
    <2> QED BY <2>1, <2>2 DEF Surjection
  <1> QED BY <1>1, <1>2, FS_Surjection

LEMMA ListenersCounted ==
    ASSUME TypeOK, NEW e \in EventIDs
    PROVE  /\ Cardinality(Listeners(e)) \in Nat
           /\ Listeners(e) # {} => Cardinality(Listeners(e)) > 0
  <1>1. IsFiniteSet(Listeners(e))
    BY RegistrationsFinite, FS_Subset DEF TypeOK, Listeners
  <1> QED BY <1>1, FS_CardinalityType, FS_EmptySet

LEMMA TargetsAreObjects ==
    ASSUME NEW e \in EventIDs
    PROVE  /\ Targets(e) \subseteq Objects /\ FoundFirst(e) \subseteq Targets(e)
           /\ Missing(e) = {} => FoundFirst(e) = Targets(e)
  <1>1. DstObjects[e] \in Seq(Objects)
    BY ScreensAssumption
  <1>2. Targets(e) \subseteq Objects /\ FoundFirst(e) \subseteq Targets(e)
    BY <1>1 DEF Targets, FoundFirst
  <1>3. ASSUME Missing(e) = {} PROVE Targets(e) \subseteq FoundFirst(e)
    <2> SUFFICES ASSUME NEW i \in DOMAIN DstObjects[e]
                 PROVE  DstObjects[e][i] \in FoundFirst(e)
      BY DEF Targets
    <2>1. \A k \in DOMAIN DstObjects[e] : Found(DstObjects[e][k])
      BY <1>3 DEF Missing, Targets
    <2>2. 1 .. i \subseteq DOMAIN DstObjects[e]
      BY <1>1
    <2> QED BY <2>1, <2>2 DEF FoundFirst
  <1> QED BY <1>2, <1>3

-----------------------------------------------------------------------------
(* The invariant holds at first. *)

LEMMA BaseIsRoot == \A S \in ScreenIDs : Base(S) \in Roots
  BY ScreensAssumption DEF Base, Roots

LEMMA InvInit == Init => Inv
  <1> SUFFICES ASSUME Init PROVE Inv
    OBVIOUS
  <1> USE ScreensAssumption DEF Init, Base, Root, None
  <1>0. 0 \in 0 .. MaxOpened /\ 0 \in 0 .. MaxUnderWay
    OBVIOUS
  <1>1. Events \subseteq [ID : EventIDs, of : Roots]
    BY BaseIsRoot DEF Registered
  <1>2. TypeOK
    <2>1. \A S \in ScreenIDs : Base(S) \in Roots
      BY BaseIsRoot
    <2>2. /\ DOMAIN Screens \subseteq ScreenIDs /\ displayed \subseteq Roots
          /\ \A S \in DOMAIN Screens : Screens[S] \in Roots /\ Screens[S].ScreenID = S
      BY <2>1
    <2>3. underWay \in [EventIDs -> 0 .. MaxUnderWay]
      BY <1>0
    <2>4. OverlayScreen = None /\ CurrentScreenID \in ScreenIDs
      OBVIOUS
    <2> QED BY <1>0, <1>1, <2>2, <2>3, <2>4 DEF TypeOK
  <1>3. OverlayReal /\ TableOverlay /\ OverlayCanBeClosed
    BY DEF OverlayReal, TableOverlay, OverlayCanBeClosed
  <1>4. CurrentScreenShown
    BY DEF CurrentScreenShown
  <1>5. MarkedAwaitsAnswer
    BY DEF MarkedAwaitsAnswer
  <1> QED BY <1>2, <1>3, <1>4, <1>5 DEF Inv

-----------------------------------------------------------------------------
(* Each action keeps it. *)

\* What is in the table is of its place there.
LEMMA InTableByPlace ==
    ASSUME TypeOK, NEW S \in DOMAIN Screens, NEW T \in DOMAIN Screens,
           Screens[S] = Screens[T]
    PROVE  S = T
  BY DEF TypeOK

LEMMA SwitchKeeps ==
    ASSUME Inv, NEW S \in ScreenIDs, SwitchScreen(S)
    PROVE  Inv'
  <1> USE DEF Inv, SwitchScreen
  <1>1. InTable \subseteq Roots
    BY DEF TypeOK, InTable
  <1>2. TypeOK'
    BY <1>1 DEF TypeOK, DisplayedAfter, InTable
  <1>3. OverlayReal' /\ TableOverlay' /\ MarkedAwaitsAnswer'
    BY DEF OverlayReal, TableOverlay, MarkedAwaitsAnswer
  <1>4. CurrentScreenShown'
    <2> SUFFICES ASSUME NEW T \in DOMAIN Screens, Screens[T] = Base(T)
                 PROVE  Base(T) \in displayed' <=> T = S
      BY DEF CurrentScreenShown, Base
    <2>1. Base(T) \in InTable
      BY DEF InTable
    <2>2. Base(T) \in displayed' <=> S \in DOMAIN Screens /\ Screens[S] = Base(T)
      BY <2>1 DEF DisplayedAfter
    <2> QED BY <2>2, InTableByPlace
  <1>5. OverlayCanBeClosed'
    <2> SUFFICES ASSUME NEW r \in displayed', r.number > 0
                 PROVE  /\ r = OverlayScreen /\ OverlayRefCount = 1
                        /\ r.ScreenID \in DOMAIN Screens /\ Screens[r.ScreenID] = r
      BY DEF OverlayCanBeClosed
    <2>1. r \in displayed \/ (S \in DOMAIN Screens /\ r = Screens[S])
      BY DEF DisplayedAfter
    <2>2. CASE r \in displayed
      BY <2>2 DEF OverlayCanBeClosed
    <2>3. CASE S \in DOMAIN Screens /\ r = Screens[S]
      BY <2>3 DEF TypeOK, TableOverlay
    <2> QED BY <2>1, <2>2, <2>3
  <1> QED BY <1>2, <1>3, <1>4, <1>5

LEMMA SetupKeeps ==
    ASSUME Inv, NEW S \in ScreenIDs, SetupOverlay(S)
    PROVE  Inv'
  <1> DEFINE overlay == Root(S, opened + 1)
  <1> USE DEF Inv, SetupOverlay
  <1>1. opened \in Nat /\ opened + 1 \in 0 .. MaxOpened /\ OverlayRefCount = 0
    BY ScreensAssumption DEF TypeOK, MayOpen
  <1>2. /\ overlay \in Roots /\ overlay.number > 0 /\ overlay.ScreenID = S
        /\ \A T : overlay # Base(T)
    BY <1>1 DEF Roots, Root, Base
  <1>3. /\ DOMAIN Screens' = DOMAIN Screens \cup {S} /\ Screens'[S] = overlay
        /\ \A T \in DOMAIN Screens' : T # S => T \in DOMAIN Screens /\ Screens'[T] = Screens[T]
    OBVIOUS
  <1>4. TypeOK'
    <2>1. Registered(overlay) \subseteq [ID : EventIDs, of : Roots]
      BY <1>2, ScreensAssumption DEF Registered
    <2>2. Events' \subseteq [ID : EventIDs, of : Roots]
      BY <2>1 DEF TypeOK
    <2>3. /\ DOMAIN Screens' \subseteq ScreenIDs
          /\ \A T \in DOMAIN Screens' : Screens'[T] \in Roots /\ Screens'[T].ScreenID = T
      BY <1>2, <1>3 DEF TypeOK
    <2> QED BY <1>1, <1>2, <2>2, <2>3 DEF TypeOK
  <1>5. \A T \in DOMAIN Screens : ~(Screens[T].number > 0)
    BY <1>1 DEF TableOverlay
  <1>6. OverlayReal' /\ TableOverlay'
    BY <1>2, <1>3, <1>5 DEF OverlayReal, TableOverlay
  <1>7. CurrentScreenShown'
    BY <1>2, <1>3 DEF CurrentScreenShown, Base, Root
  <1>8. OverlayCanBeClosed'
    <2>1. \A r \in displayed : ~(r.number > 0)
      BY <1>1 DEF OverlayCanBeClosed
    <2> QED BY <1>2, <1>3, <2>1 DEF OverlayCanBeClosed
  <1>9. MarkedAwaitsAnswer'
    BY DEF MarkedAwaitsAnswer
  <1> QED BY <1>4, <1>6, <1>7, <1>8, <1>9

LEMMA CloseKeeps == Inv /\ CloseOverlay => Inv'
  <1> SUFFICES ASSUME Inv, CloseOverlay PROVE Inv'
    OBVIOUS
  <1> USE DEF Inv, CloseOverlay, CountAfterClose
  <1>1. OverlayScreen.number > 0
    BY DEF OverlayReal
  <1>2. /\ DOMAIN Screens' = DOMAIN Screens \ {OverlayScreen.ScreenID}
        /\ \A T \in DOMAIN Screens' : Screens'[T] = Screens[T]
    BY DEF WithoutScreen
  <1>3. TypeOK'
    BY <1>2 DEF TypeOK
  <1>4. \A T \in DOMAIN Screens' : ~(Screens'[T].number > 0)
    BY <1>2 DEF TableOverlay, TypeOK
  <1>5. \A r \in displayed' : ~(r.number > 0)
    BY DEF OverlayCanBeClosed
  <1>6. OverlayReal' /\ TableOverlay' /\ OverlayCanBeClosed'
    BY <1>4, <1>5 DEF OverlayReal, TableOverlay, OverlayCanBeClosed, None, Root
  <1>7. CurrentScreenShown'
    <2>1. \A T : Base(T) # OverlayScreen
      BY <1>1 DEF Base, Root
    <2> QED BY <1>2, <2>1 DEF CurrentScreenShown, Base, Root
  <1>8. MarkedAwaitsAnswer'
    BY DEF MarkedAwaitsAnswer
  <1> QED BY <1>3, <1>6, <1>7, <1>8

\* The requests and the marks leave the screens alone.
LEMMA ScreensAlone ==
    ASSUME Inv, UNCHANGED <<Screens, displayed, CurrentScreenID, OverlayRefCount,
                            OverlayScreen, opened, Events>>
    PROVE  OverlayReal' /\ TableOverlay' /\ CurrentScreenShown' /\ OverlayCanBeClosed'
  BY DEF Inv, OverlayReal, TableOverlay, CurrentScreenShown, OverlayCanBeClosed, None, Base, Root

LEMMA FireKeeps ==
    ASSUME Inv, NEW e \in EventIDs, Fire(e)
    PROVE  Inv'
  <1> USE DEF Inv
  <1>1. OverlayReal' /\ TableOverlay' /\ CurrentScreenShown' /\ OverlayCanBeClosed'
    BY ScreensAlone DEF Fire
  <1>2. marked' \subseteq Objects /\ failed' \in BOOLEAN
    BY TargetsAreObjects DEF Fire, TypeOK
  <1>3. CASE Missing(e) # {}
    <2>1. TypeOK'
      BY <1>2, <1>3 DEF Fire, TypeOK
    <2>2. MarkedAwaitsAnswer'
      BY <1>3 DEF Fire, MarkedAwaitsAnswer
    <2> QED BY <1>1, <2>1, <2>2
  <1>4. CASE Missing(e) = {}
    <2> DEFINE n == Cardinality(Listeners(e))
    <2>1. n \in Nat /\ n > 0
      BY ListenersCounted DEF Fire
    <2>2. /\ underWay[e] \in 0 .. MaxUnderWay /\ underWay[e] + n <= MaxUnderWay
          /\ underWay' = [underWay EXCEPT ![e] = @ + n]
          /\ marked' = marked \cup Targets(e) /\ (failed' <=> failed)
      BY <1>4 DEF Fire, TypeOK
    <2> HIDE DEF n
    <2>3. underWay[e] + n \in 0 .. MaxUnderWay
      BY <2>1, <2>2, ScreensAssumption
    <2>4. TypeOK'
      BY <1>2, <2>2, <2>3 DEF Fire, TypeOK
    <2>5. \A d \in EventIDs : underWay[d] > 0 => underWay'[d] > 0
      BY <2>1, <2>2 DEF TypeOK
    <2>6. underWay'[e] > 0
      BY <2>1, <2>2 DEF TypeOK
    <2>7. MarkedAwaitsAnswer'
      BY <2>2, <2>5, <2>6 DEF MarkedAwaitsAnswer, Targets
    <2> QED BY <1>1, <2>4, <2>7
  <1> QED BY <1>3, <1>4

LEMMA AnswerKeeps ==
    ASSUME Inv, NEW e \in EventIDs, Answer(e) \/ Lose(e)
    PROVE  Inv'
  <1> USE DEF Inv, Ended
  <1>1. OverlayReal' /\ TableOverlay' /\ CurrentScreenShown' /\ OverlayCanBeClosed'
    BY ScreensAlone DEF Answer, Lose
  <1>2. /\ underWay[e] > 0 /\ underWay' = [underWay EXCEPT ![e] = @ - 1]
        /\ marked' \subseteq marked
    BY DEF Answer, Lose
  <1>3. TypeOK'
    <2>1. underWay' \in [EventIDs -> 0 .. MaxUnderWay]
      BY <1>2, ScreensAssumption DEF TypeOK
    <2> QED BY <1>2, <2>1 DEF Answer, Lose, TypeOK
  <1>4. MarkedAwaitsAnswer'
    <2> SUFFICES ASSUME ~failed', NEW o \in marked'
                 PROVE  \E d \in EventIDs : o \in Targets(d) /\ underWay'[d] > 0
      BY DEF MarkedAwaitsAnswer, Targets
    <2>1. Answer(e) /\ ~failed /\ Missing(e) = {}
      BY DEF Answer, Lose
    <2>2. o \in marked /\ o \notin Targets(e)
      BY <2>1, TargetsAreObjects DEF Answer, Unmarked
    <2>3. PICK d \in EventIDs : o \in Targets(d) /\ underWay[d] > 0
      BY <2>1, <2>2 DEF MarkedAwaitsAnswer
    <2>4. d # e /\ underWay'[d] = underWay[d]
      BY <1>2, <2>2, <2>3 DEF TypeOK
    <2> QED BY <2>3, <2>4
  <1> QED BY <1>1, <1>3, <1>4

LEMMA InvNext == Inv /\ [Next]_vars => Inv'
  <1> SUFFICES ASSUME Inv, [Next]_vars PROVE Inv'
    OBVIOUS
  <1>1. CASE UNCHANGED vars
    BY <1>1 DEF vars, Inv, TypeOK, OverlayReal, TableOverlay, CurrentScreenShown,
                OverlayCanBeClosed, MarkedAwaitsAnswer
  <1>2. CASE Next
    BY <1>2, SwitchKeeps, SetupKeeps, CloseKeeps, FireKeeps, AnswerKeeps DEF Next
  <1> QED BY <1>1, <1>2

-----------------------------------------------------------------------------
(* The theorems. *)

\* Every reachable state has the right types; the count of overlays never
\* leaves 0 and 1, although close buttons may act on a closed overlay.
THEOREM TypeCorrect == Spec => []TypeOK
  <1>1. Inv => TypeOK
    BY DEF Inv
  <1> QED BY <1>1, InvInit, InvNext, PTL DEF Spec

\* A screen still in the table is displayed exactly if it is the current one
\* (switchScreen), whatever overlays have come and gone.
THEOREM OnlyCurrentShown == Spec => []CurrentScreenShown
  <1>1. Inv => CurrentScreenShown
    BY DEF Inv
  <1> QED BY <1>1, InvInit, InvNext, PTL DEF Spec

\* What is on display of an overlay is what the close button closes
\* (sysScreenOverlay), and there is never a second one.
THEOREM OverlayCloses == Spec => []OverlayCanBeClosed
  <1>1. Inv => OverlayCanBeClosed
    BY DEF Inv
  <1> QED BY <1>1, InvInit, InvNext, PTL DEF Spec

\* No mark of an event outlives its last request (setObjectPropertyValues),
\* for any events that share objects, as long as nothing fails.
THEOREM MarksAreTaken == Spec => []MarkedAwaitsAnswer
  <1>1. Inv => MarkedAwaitsAnswer
    BY DEF Inv
  <1> QED BY <1>1, InvInit, InvNext, PTL DEF Spec

=============================================================================
