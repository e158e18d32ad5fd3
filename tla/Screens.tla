-------------------------------- MODULE Screens --------------------------------
(***************************************************************************)
(* The screens of the page: switching between them, an overlay that opens  *)
(* over them, and events that ask the server for the values of objects.    *)
(*                                                                         *)
(* All handlers of the page find screens and objects through one table,    *)
(* Screens.  An overlay takes the place of its own screen in that table    *)
(* and leaves nothing there when it closes, while requests are under way   *)
(* whose answers look for objects of that screen.                          *)
(*                                                                         *)
(* The menu is outside the table and always shown, so its links may be     *)
(* clicked at any time.  A link may switch, open an overlay and fire       *)
(* events in one handler: these are steps of their own here, in that order *)
(* or any other.                                                           *)
(* No screen has a configuration (index.html says undefined), so that      *)
(* switching requests no data of a screen.                                 *)
(***************************************************************************)
EXTENDS Integers, Sequences, FiniteSets

CONSTANTS ScreenIDs,      \* keys of the skeleton
          DisplayDefaultScreen,
          Objects,        \* objects whose properties events set
          HomeOf,         \* screen of an object
          EventIDs,
          DstObjects,     \* of an event, in the order of its DstProperties; each has
                          \* a SetStyle, one for all
          Listening,      \* events the service connectors of a screen listen to
          MaxOpened,      \* bound: overlays opened
          MaxUnderWay     \* bound: requests under way of an event

ASSUME ScreensAssumption ==
    /\ IsFiniteSet(ScreenIDs) /\ IsFiniteSet(EventIDs)
    /\ DisplayDefaultScreen \in ScreenIDs
    /\ HomeOf \in [Objects -> ScreenIDs]
    /\ DstObjects \in [EventIDs -> Seq(Objects)]
    /\ Listening \in [ScreenIDs -> SUBSET EventIDs]
    /\ MaxOpened \in Nat /\ MaxUnderWay \in Nat

VARIABLES
    Screens,          \* the table: screen IDs to root objects
    displayed,        \* root objects that are not hidden
    CurrentScreenID,
    OverlayRefCount,
    OverlayScreen,    \* the last overlay made, None before the first
    opened,           \* overlays opened so far
    Events,           \* registrations: who listens to which event
    underWay,         \* per event, the requests without an answer
    marked,           \* objects that carry the SetStyle of an event
    failed            \* was a request lost, or an object of an event missing?

vars == <<Screens, displayed, CurrentScreenID, OverlayRefCount, OverlayScreen,
          opened, Events, underWay, marked, failed>>

\* A root object: of a screen (number 0) or of the n-th overlay.
Root(S, n) == [ScreenID |-> S, number |-> n]
Base(S)    == Root(S, 0)
Roots      == {Root(S, n) : S \in ScreenIDs, n \in 0 .. MaxOpened}
None       == Root(DisplayDefaultScreen, -1)

Registered(root) == {[ID |-> e, of |-> root] : e \in Listening[root.ScreenID]}

Init ==
    /\ Screens = [S \in ScreenIDs |-> Base(S)]
    /\ displayed = {Base(DisplayDefaultScreen)}
    /\ CurrentScreenID = DisplayDefaultScreen
    /\ OverlayRefCount = 0 /\ OverlayScreen = None /\ opened = 0
    /\ Events = UNION {Registered(Base(S)) : S \in ScreenIDs}
    /\ underWay = [e \in EventIDs |-> 0]
    /\ marked = {} /\ failed = FALSE

-----------------------------------------------------------------------------
(* Screens and overlay. *)

InTable == {Screens[S] : S \in DOMAIN Screens}

\* What switchScreensToBackground and switchScreenToForeground leave on
\* display; a screen that is not in the table raises an error between them.
DisplayedAfter(S) ==
    (displayed \ InTable) \cup IF S \in DOMAIN Screens THEN {Screens[S]} ELSE {}

SwitchScreen(S) ==
    /\ displayed' = DisplayedAfter(S)
    /\ CurrentScreenID' = S
    /\ UNCHANGED <<Screens, OverlayRefCount, OverlayScreen, opened, Events,
                   underWay, marked, failed>>

\* An overlay of S is set up if there is none.  Mutant: there may be one.
MayOpenAlways == TRUE
MayOpen == OverlayRefCount = 0

SetupOverlay(S) ==
    LET overlay == Root(S, opened + 1)
    IN  /\ opened < MaxOpened
        /\ MayOpen
        /\ OverlayRefCount' = 1
        /\ OverlayScreen' = overlay /\ opened' = opened + 1
        /\ Screens' = [T \in DOMAIN Screens \cup {S} |->
                           IF T = S THEN overlay ELSE Screens[T]]
        /\ displayed' = displayed \cup {overlay}
        /\ Events' = Events \cup Registered(overlay)
        /\ UNCHANGED <<CurrentScreenID, underWay, marked, failed>>

\* The table after the overlay of S is closed.  Mutant: the screen comes back.
RestoresScreen(S) == [Screens EXCEPT ![S] = Base(S)]
WithoutScreen(S)  == [T \in DOMAIN Screens \ {S} |-> Screens[T]]

\* The count after closing.  Mutant: it is counted down.
CountDown == OverlayRefCount - 1
CountAfterClose == 0

\* The overlay's close button, or a button with CloseOverlay, which any
\* screen may have: it closes the last overlay, whether it is open or not.
CloseOverlay ==
    /\ OverlayScreen # None
    /\ displayed' = displayed \ {OverlayScreen}
    /\ Screens' = IF OverlayScreen.ScreenID \in DOMAIN Screens
                  THEN WithoutScreen(OverlayScreen.ScreenID) ELSE Screens
    /\ OverlayRefCount' = CountAfterClose
    /\ UNCHANGED <<CurrentScreenID, OverlayScreen, opened, Events, underWay,
                   marked, failed>>

-----------------------------------------------------------------------------
(* Events that set the values of objects and mark them until they are set. *)

\* The objects that setupObject puts under a root; those of an overlay get
\* other IDs.
ObjectsOf(root) == IF root.number = 0 THEN {o \in Objects : HomeOf[o] = root.ScreenID}
                                      ELSE {}

\* getObjectByID looks at the screens in the table only.
Found(o) == \E S \in DOMAIN Screens : o \in ObjectsOf(Screens[S])

Targets(e) == {DstObjects[e][i] : i \in DOMAIN DstObjects[e]}
Missing(e) == {o \in Targets(e) : ~Found(o)}
\* The objects before the first that is not found.
FoundFirst(e) == {DstObjects[e][i] : i \in
    {j \in DOMAIN DstObjects[e] : \A k \in 1 .. j : Found(DstObjects[e][k])}}

\* One request per registration, of closed overlays too.
Listeners(e) == {r \in Events : r.ID = e}

\* dispatchEvent: an object that is not found raises an error, before the
\* request and before the other registrations are served.  (That the button
\* around an object is disabled meanwhile fails always: disable() uses a
\* variable that does not exist.  The error is caught.)
Fire(e) ==
    /\ Listeners(e) # {}
    /\ IF Missing(e) # {}
       THEN marked' = marked \cup FoundFirst(e) /\ UNCHANGED underWay
       ELSE /\ underWay[e] + Cardinality(Listeners(e)) <= MaxUnderWay
            /\ underWay' = [underWay EXCEPT ![e] = @ + Cardinality(Listeners(e))]
            /\ marked' = marked \cup Targets(e)
    /\ failed' = (failed \/ Missing(e) # {})
    /\ UNCHANGED <<Screens, displayed, CurrentScreenID, OverlayRefCount,
                   OverlayScreen, opened, Events>>

\* The objects that an answer takes the mark of: one that is not found raises
\* an error.  Mutant: the first only.
FirstOnly(e) == {DstObjects[e][i] : i \in {j \in 1 .. 1 : Found(DstObjects[e][j])}}
Unmarked(e) == FoundFirst(e)

Ended(e) ==
    /\ underWay[e] > 0
    /\ underWay' = [underWay EXCEPT ![e] = @ - 1]
    /\ UNCHANGED <<Screens, displayed, CurrentScreenID, OverlayRefCount,
                   OverlayScreen, opened, Events>>

\* callbackXMLRPCAsync
Answer(e) ==
    /\ Ended(e)
    /\ marked' = marked \ Unmarked(e)
    /\ failed' = (failed \/ Missing(e) # {})

\* An answer that is lost, or not of status 200, calls nothing back.
Lose(e) ==
    /\ Ended(e)
    /\ failed' = TRUE
    /\ UNCHANGED marked

\* A link with a ScreenStyle styles the screen before it switches; for a screen
\* that is not in the table any more this throws, and nothing happens: a stutter.
Next ==
    \/ \E S \in ScreenIDs : SwitchScreen(S) \/ SetupOverlay(S)
    \/ CloseOverlay
    \/ \E e \in EventIDs : Fire(e) \/ Answer(e) \/ Lose(e)

Spec == Init /\ [][Next]_vars

-----------------------------------------------------------------------------
(* Properties. *)

\* Every variable has its type.  The count of overlays is 0 or 1 although a
\* button may close what is closed.
TypeOK ==
    /\ DOMAIN Screens \subseteq ScreenIDs
    /\ \A S \in DOMAIN Screens : Screens[S] \in Roots /\ Screens[S].ScreenID = S
    /\ displayed \subseteq Roots
    /\ CurrentScreenID \in ScreenIDs
    /\ OverlayRefCount \in {0, 1}
    /\ OverlayScreen \in Roots \cup {None}
    /\ opened \in 0 .. MaxOpened
    /\ Events \subseteq [ID : EventIDs, of : Roots]
    /\ underWay \in [EventIDs -> 0 .. MaxUnderWay]
    /\ marked \subseteq Objects
    /\ failed \in BOOLEAN

\* A screen is displayed if it is the current one, and only then, for as long
\* as no overlay was opened for it.  (From then on it can neither be hidden
\* nor shown: SwitchScreen finds the overlay in its place, or nothing.)
CurrentScreenShown ==
    \A S \in DOMAIN Screens :
        Screens[S] = Base(S) => (Base(S) \in displayed <=> S = CurrentScreenID)

\* There is at most one overlay, and what is on display of it can be closed:
\* it is the one that the close button closes, the count knows of it, and
\* SwitchScreen finds it under its screen's ID.
OverlayCanBeClosed ==
    \A r \in displayed : r.number > 0 =>
        /\ r = OverlayScreen /\ OverlayRefCount = 1
        /\ r.ScreenID \in DOMAIN Screens /\ Screens[r.ScreenID] = r

\* An object carries the mark of an event only as long as the answer of a
\* request will take it away, however requests overlap, screens are switched
\* and overlays come and go; unless a request fails, or a screen was gone when
\* the event fired or the answer came.
MarkedAwaitsAnswer ==
    ~failed => \A o \in marked : \E e \in EventIDs : o \in Targets(e) /\ underWay[e] > 0
=============================================================================
