------------------------------ MODULE GameLoop ------------------------------
(***************************************************************************)
(* The main loop app_main with everything it drives in one thread: the     *)
(* requests from the mailbox, the calls into the embedded MicroPython      *)
(* game (pong.h), and the title and game screens.  One turn of the loop is *)
(* request, render (and draw), events.  The HTTP thread appears through    *)
(* the two steps of ASMailbox that are its own, the WiFi bookkeeping       *)
(* through the player count, the puck through who scores.                  *)
(*                                                                         *)
(* The exchange buffer is kept as which bytes are not zero; payloads       *)
(* differ in the player they select and in their length.                   *)
(***************************************************************************)
EXTENDS Naturals, FiniteSets

CONSTANTS PayloadLengths,  \* bound: the lengths of paddle payloads
          MaxScore         \* bound: points per player

ASSUME LoopAssumption ==
    /\ PayloadLengths \subseteq Nat \ {0}
    /\ IsFiniteSet(PayloadLengths)
    /\ MaxScore \in Nat

VARIABLES
    ASRequestStatus, ASRequestID, \* the mailbox
    Payload,              \* the payload of the request in the mailbox
    ASRequestExchangeBuffer, \* per byte: is it not zero?
    pc,                   \* where the loop is
    SelectedScreen, ScreenInit, GameRunning,
    ParamStart, ParamMove, LastProcessedPlayer,
    ResultString,         \* "frame", "", a player, or another number
    game,                 \* the Python object GameRef
    shown,                \* ScorePlayer1 and ScorePlayer2 of the game screen
    PlayerCount,          \* stations the title screen counts
    LEDFlashTrigger,
    handled               \* history: the paddle request this turn handled and
                          \* whether Python read its payload, or that it
                          \* acknowledged a request without heeding it

mailbox == <<ASRequestStatus, ASRequestID, Payload, ASRequestExchangeBuffer>>
screen  == <<SelectedScreen, ScreenInit, GameRunning>>
params  == <<ParamStart, ParamMove, LastProcessedPlayer>>
display == <<shown, LEDFlashTrigger>>
vars    == <<mailbox, pc, screen, params, ResultString, game, display,
             PlayerCount, handled>>

Players  == {"1", "2"}
Requests == {"GAME_START", "GAME_STOP", "PADDLE_UP", "PADDLE_DOWN"}
Paddle   == [PADDLE_UP |-> "up", PADDLE_DOWN |-> "down"]
Payloads  == [player : Players, length : PayloadLengths]
NoPayload == [player |-> "", length |-> 0]
NoPaddle  == [player |-> "", dir |-> "none", read |-> TRUE]
Unheeded  == [player |-> "", dir |-> "unheeded", read |-> TRUE]
Handlings == [player : Players, dir : {"up", "down"}, read : BOOLEAN]
                 \cup {NoPaddle, Unheeded}
Bytes    == 0 .. 1 + (IF PayloadLengths = {} THEN 0
                      ELSE CHOOSE n \in PayloadLengths : \A m \in PayloadLengths : m <= n)

-----------------------------------------------------------------------------
(* The Python game.  A parameter is a string of JSON: what it parses to.   *)
Results == Players \cup {"", "frame", "rest"}

\* The number a player is named by.
Digit == [p \in Players |-> IF p = "1" THEN 1 ELSE 2]

Param == [json : BOOLEAN, quit : BOOLEAN, start : {"", "single", "multi"},
          player : Results, dir : {"none", "up", "down"}]

NoParam      == [json |-> TRUE, quit |-> FALSE, start |-> "", player |-> "",
                 dir |-> "none"]
Start(mode)  == [NoParam EXCEPT !.start = mode]
Move(p, dir) == [NoParam EXCEPT !.player = p, !.dir = dir]

\* { "quit" } is not JSON.  Mutant: { "quit": true }.
WellFormedStop == [NoParam EXCEPT !.quit = TRUE]
MPFunctionParamStop == [WellFormedStop EXCEPT !.json = FALSE]

Games == [state : {"splash", "play", "quit"}, leftAuto : BOOLEAN,
          input : [Players -> {"none", "up", "down"}],
          score : [Players -> 0 .. MaxScore]]

StepSplash(g, data) ==
    IF data.quit THEN [g EXCEPT !.state = "quit"]
    ELSE IF data.start = "" THEN g
    ELSE [g EXCEPT !.state = "play",
                   !.leftAuto = @ \/ data.start = "single"]

\* set_input of both paddles, then the puck may pass one of them (Pscores is
\* the set of players, at most one, who score in this frame).
StepPlay(g, data, Pscores) ==
    IF data.quit THEN [g EXCEPT !.state = "quit"]
    ELSE [g EXCEPT !.input = [p \in Players |-> IF data.player = p THEN data.dir
                                                ELSE "none"],
                   !.score = [p \in Players |-> IF p \in Pscores THEN @[p] + 1
                                                ELSE @[p]]]

\* MicroPython::callFunction(render_frame_no_dt, param): when json.loads raises
\* there is no result and ResultString keeps its value.
RenderFrameNoDt(param) ==
    \/ /\ ~param.json
       /\ UNCHANGED <<game, ResultString>>
    \/ /\ param.json /\ game.state = "splash"
       /\ game' = StepSplash(game, param)
       /\ ResultString' = ""
    \/ /\ param.json /\ game.state = "play"
       /\ \E Pscores \in {{}} \cup {{p} : p \in {q \in Players : game.score[q] < MaxScore}} :
             game' = StepPlay(game, param, Pscores)
       /\ ResultString' = IF param.quit THEN "" ELSE "frame"
    \/ /\ param.json /\ game.state = "quit"
       /\ ResultString' = ""
       /\ UNCHANGED game

-----------------------------------------------------------------------------
Init ==
    /\ ASRequestStatus = "WAIT_IN"
    /\ ASRequestID = "NONE"
    /\ Payload = NoPayload
    /\ ASRequestExchangeBuffer = [b \in Bytes |-> FALSE]
    /\ pc = "request"
    /\ SelectedScreen = "MAIN" /\ ScreenInit = TRUE /\ GameRunning = FALSE
    /\ ParamStart = Start("single")
    /\ ParamMove = Move("2", "none")
    /\ LastProcessedPlayer = "2"
    /\ ResultString = ""
    /\ game = [state |-> "splash", leftAuto |-> FALSE,
               input |-> [p \in Players |-> "none"],
               score |-> [p \in Players |-> 0]]
    /\ shown = [p \in Players |-> 0]
    /\ PlayerCount = 0
    /\ LEDFlashTrigger = 0
    /\ handled = NoPaddle

(* The HTTP thread's end of the mailbox. *)
PutRequest ==
    /\ ASRequestStatus = "WAIT_IN"
    /\ ASRequestStatus' = "PROCESSING"
    /\ \/ /\ ASRequestID' \in {"GAME_START", "GAME_STOP"}
          /\ Payload' = NoPayload
          /\ UNCHANGED ASRequestExchangeBuffer
       \/ \E p \in Payloads :
          /\ ASRequestID' \in DOMAIN Paddle
          /\ Payload' = p
          /\ ASRequestExchangeBuffer' =
                [b \in Bytes |-> b < p.length \/ ASRequestExchangeBuffer[b]]
    /\ UNCHANGED <<pc, screen, params, ResultString, game, display, PlayerCount,
                   handled>>

TakeResult ==
    /\ ASRequestStatus = "PROCESSED"
    /\ ASRequestStatus' = "WAIT_IN"
    /\ UNCHANGED <<ASRequestID, Payload, ASRequestExchangeBuffer, pc, screen,
                   params, ResultString, game, display, PlayerCount, handled>>

-----------------------------------------------------------------------------
(* Server request processing. *)

\* Mutant: a running game is started again.
StartWhileRunning == TRUE
MayStart == ~GameRunning

\* Mutant: a request that does not fit the state of the game is left pending.
AcknowledgeHeeded ==
    ASRequestStatus' = IF (ASRequestID = "GAME_START") = MayStart
                       THEN "PROCESSED" ELSE ASRequestStatus
Acknowledge == ASRequestStatus' = "PROCESSED"

\* What all requests have in common; the status comes last.
Finish ==
    /\ pc = "request"
    /\ ASRequestStatus = "PROCESSING"
    /\ Acknowledge
    /\ pc' = "render"
    /\ UNCHANGED <<ASRequestID, Payload, display, PlayerCount>>

HandleStart ==
    /\ ASRequestID = "GAME_START" /\ MayStart
    /\ Finish
    /\ ParamStart' = Start(IF PlayerCount = 2 THEN "multi" ELSE "single")
    /\ SelectedScreen' = "GAME" /\ ScreenInit' = TRUE /\ GameRunning' = TRUE
    /\ UNCHANGED <<ASRequestExchangeBuffer, ParamMove, LastProcessedPlayer,
                   ResultString, game, handled>>

HandleStop ==
    /\ ASRequestID = "GAME_STOP" /\ GameRunning
    /\ Finish
    /\ RenderFrameNoDt(MPFunctionParamStop)
    /\ SelectedScreen' = "MAIN" /\ ScreenInit' = TRUE /\ GameRunning' = FALSE
    /\ UNCHANGED <<ASRequestExchangeBuffer, params, handled>>

\* The byte the code zeroes behind the payload, one too far.  json.loads fails
\* on a payload with a byte left over from a longer one behind it; then
\* ResultString is still what render() left, and taken for the player.
Terminator == Payload.length + 1
Intact == ~ASRequestExchangeBuffer'[Payload.length]

HandlePaddle ==
    /\ ASRequestID \in DOMAIN Paddle /\ GameRunning
    /\ Finish
    /\ ASRequestExchangeBuffer' = [ASRequestExchangeBuffer EXCEPT ![Terminator] = FALSE]
    /\ ResultString' = IF Intact THEN Payload.player ELSE ResultString
    /\ ParamMove' = Move(ResultString', Paddle[ASRequestID])
    /\ LastProcessedPlayer' = ResultString'
    /\ handled' = [player |-> Payload.player, dir |-> Paddle[ASRequestID],
                   read |-> Intact]
    /\ UNCHANGED <<screen, ParamStart, game>>

\* A request that does not fit the state of the game is acknowledged unheeded;
\* ParamMove is not reset in such a turn.
HandleNothing ==
    /\ \/ ASRequestID = "GAME_START" /\ ~MayStart
       \/ ASRequestID \in {"GAME_STOP", "PADDLE_UP", "PADDLE_DOWN"} /\ ~GameRunning
    /\ Finish
    /\ handled' = Unheeded
    /\ UNCHANGED <<ASRequestExchangeBuffer, screen, params, ResultString, game>>

\* Mutant: without a request the last move stays.
MoveStays == UNCHANGED ParamMove
ResetMove == ParamMove' = Move(LastProcessedPlayer, "none")

NoRequest ==
    /\ pc = "request"
    /\ ASRequestStatus # "PROCESSING"
    /\ ResetMove
    /\ pc' = "render"
    /\ UNCHANGED <<mailbox, screen, ParamStart, LastProcessedPlayer, ResultString,
                   game, display, PlayerCount, handled>>

-----------------------------------------------------------------------------
(* Screen rendering. *)
RenderTitle ==
    /\ pc = "render" /\ SelectedScreen = "MAIN"
    /\ pc' = "events"
    /\ UNCHANGED <<mailbox, screen, params, ResultString, game, display,
                   PlayerCount, handled>>

RenderStart ==
    /\ pc = "render" /\ SelectedScreen = "GAME" /\ ScreenInit
    /\ RenderFrameNoDt(ParamStart)
    /\ shown' = [p \in Players |-> 0]
    /\ ScreenInit' = FALSE
    /\ pc' = "events"
    /\ UNCHANGED <<mailbox, SelectedScreen, GameRunning, params, LEDFlashTrigger,
                   PlayerCount, handled>>

RenderGame ==
    /\ pc = "render" /\ SelectedScreen = "GAME" /\ ~ScreenInit
    /\ RenderFrameNoDt(ParamMove)
    /\ pc' = "draw"
    /\ UNCHANGED <<mailbox, screen, params, display, PlayerCount, handled>>

\* When are the scores drawn again?  Mutant: only when both have risen.
BothRise == \A p \in Players : shown[p] < game.score[p]
ScoresChange == \/ \A p \in Players : shown[p] = 0
                \/ \E p \in Players : shown[p] < game.score[p]

\* GameScreen::render: split() eats the string up to its last field, the score
\* of the right player, which reads like the name of a player when it is 1 or 2.
Remainder == IF \E p \in Players : Digit[p] = game.score["2"]
             THEN CHOOSE p \in Players : Digit[p] = game.score["2"]
             ELSE "rest"

\* renderScores reads fields 4 and 5 of the frame whatever split() found.
Draw ==
    /\ pc = "draw"
    /\ ResultString' = Remainder
    /\ IF ScoresChange THEN shown' = game.score /\ LEDFlashTrigger' = 3
                       ELSE UNCHANGED display
    /\ pc' = "events"
    /\ UNCHANGED <<mailbox, screen, params, game, PlayerCount, handled>>

\* Mutant: addPlayer without its limit.
AddPlayerUnlimited == PlayerCount' = PlayerCount + 1
AddPlayer == PlayerCount < 2 /\ PlayerCount' = PlayerCount + 1

\* The rest of the turn: stations come and go (see WifiPlayers).
Events ==
    /\ pc = "events"
    /\ \/ UNCHANGED PlayerCount
       \/ AddPlayer
       \/ PlayerCount > 0 /\ PlayerCount' = PlayerCount - 1
    /\ pc' = "request"
    /\ handled' = NoPaddle
    /\ UNCHANGED <<mailbox, screen, params, ResultString, game, display>>

\* The LED thread has shown the flash.
FlashDone ==
    /\ LEDFlashTrigger = 3
    /\ LEDFlashTrigger' = 0
    /\ UNCHANGED <<mailbox, pc, screen, params, ResultString, game, shown,
                   PlayerCount, handled>>

MainNext ==
    \/ HandleStart \/ HandleStop \/ HandlePaddle \/ HandleNothing \/ NoRequest
    \/ RenderTitle \/ RenderStart \/ RenderGame \/ Draw
    \/ Events

Next == MainNext \/ PutRequest \/ TakeResult \/ FlashDone

Safety == Init /\ [][Next]_vars

\* The main task never waits for another; it only sleeps a tick each turn.
Spec == Safety /\ WF_vars(MainNext)

-----------------------------------------------------------------------------
(* Properties. *)

\* The type invariant.
TypeOK ==
    /\ ASRequestStatus \in {"WAIT_IN", "PROCESSING", "PROCESSED"}
    /\ ASRequestID \in Requests \cup {"NONE"}
    /\ Payload \in Payloads \cup {NoPayload}
    /\ ASRequestExchangeBuffer \in [Bytes -> BOOLEAN]
    /\ pc \in {"request", "render", "draw", "events"}
    /\ SelectedScreen \in {"MAIN", "GAME"}
    /\ ScreenInit \in BOOLEAN /\ GameRunning \in BOOLEAN
    /\ ParamStart \in Param /\ ParamMove \in Param
    /\ LastProcessedPlayer \in Results
    /\ ResultString \in Results
    /\ game \in Games
    /\ shown \in [Players -> 0 .. MaxScore]
    /\ PlayerCount \in 0 .. 2
    /\ LEDFlashTrigger \in {0, 3}
    /\ handled \in Handlings

\* renderScores indexes fields 4 and 5 without a look at how many there are:
\* the screen must only ever be given a whole frame, through starts, stops,
\* restarts and calls that fail.
RenderSafe == pc = "draw" => ResultString = "frame"

\* A paddle moves in a frame exactly when this turn handled a request for it
\* whose payload parsed, and in the direction of that request: no move is
\* applied twice, carried into a later frame or given to the other paddle.  A
\* payload that did not parse moves at most the paddle whose number is the score
\* of the right player, in the direction asked for.  (A turn that acknowledges a
\* request unheeded keeps ParamMove, so there a move can be repeated.)
CommandMovesOnce ==
    pc = "draw" /\ handled # Unheeded =>
        \A p \in Players :
            IF handled.read
            THEN game.input[p] = IF handled.player = p THEN handled.dir ELSE "none"
            ELSE game.input[p] # "none" =>
                     game.input[p] = handled.dir /\ shown["2"] = Digit[p]

\* After a frame the screen shows the score the game keeps, although it is
\* redrawn only on a rise and its own counters restart with each game.
ShownScoreExact ==
    pc = "events" /\ SelectedScreen = "GAME" /\ ResultString \notin {"", "frame"}
        => shown = game.score

\* A started game reaches the screen, unless it is stopped before.
StartedGameDrawn == GameRunning ~> (pc = "draw" \/ ~GameRunning)

\* Every request put in the mailbox is acknowledged, whether or not it fits the
\* state of the game: no HTTP client is left waiting for the main loop.
RequestsAcknowledged == ASRequestStatus = "PROCESSING" ~> ASRequestStatus = "PROCESSED"

-----------------------------------------------------------------------------
(* What the repository says and the code does not do. *)

\* "a in-web-server playable PONG game on two connected wifi-clients": a game
\* started as a game of two is not played by the computer.
TwoClientsPlay ==
    pc = "draw" /\ ParamStart = Start("multi") => ~game.leftAuto
=============================================================================
