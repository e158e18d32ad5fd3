--------------------------- MODULE GameLoopProofs ---------------------------
(***************************************************************************)
(* Proofs about GameLoop, for every set of payload lengths and any bound   *)
(* on the score.                                                           *)
(*                                                                         *)
(* The screens and the Python game are started and stopped by different    *)
(* means and never in step.  What they still agree on, and why the screen  *)
(* is only given whole frames, is below; it rests on the stop parameter    *)
(* not being JSON.                                                         *)
(***************************************************************************)
EXTENDS GameLoop, TLAPS

\* The parameters the loop calls Python with; paddle requests have a payload.
ParamsOK ==
    /\ ParamStart \in {Start("single"), Start("multi")}
    /\ \E p \in Results, dir \in {"none", "up", "down"} :
          ParamMove = Move(p, dir)
    /\ ASRequestID \in DOMAIN Paddle => Payload \in Payloads

\* The screen and the game: the game screen is selected exactly while a game
\* runs, is initialised before the next request is looked at, and by then the
\* Python game plays; it never quits.
ScreenOK ==
    /\ GameRunning <=> SelectedScreen = "GAME"
    /\ pc # "render" => (GameRunning => ~ScreenInit)
    /\ GameRunning /\ ~ScreenInit => game.state = "play"
    /\ game.state # "quit"
    /\ pc = "draw" => GameRunning

\* The screen never shows more than the game counts.
ShownOK == \A p \in Players : shown[p] <= game.score[p]

Inv == TypeOK /\ ParamsOK /\ ScreenOK /\ ShownOK /\ RenderSafe /\ ShownScoreExact

-----------------------------------------------------------------------------
(* Parameters and frames. *)
LEMMA StartParam ==
    ASSUME NEW mode \in {"single", "multi"}
    PROVE  /\ Start(mode) \in Param
           /\ Start(mode).json /\ ~Start(mode).quit /\ Start(mode).start = mode
  BY DEF Start, NoParam, Param, Results

LEMMA MoveParam ==
    ASSUME NEW p \in Results,
           NEW dir \in {"none", "up", "down"}
    PROVE  /\ Move(p, dir) \in Param
           /\ Move(p, dir).json /\ ~Move(p, dir).quit /\ Move(p, dir).start = ""
           /\ Move(p, dir).player = p /\ Move(p, dir).dir = dir
  BY DEF Move, NoParam, Param

LEMMA MoveFields ==
    \A p \in Results, d \in {"none", "up", "down"} :
        Move(p, d).player = p /\ Move(p, d).dir = d
  <1> TAKE p \in Results, d \in {"none", "up", "down"}
  <1> QED BY DEF Move, NoParam

LEMMA StopParam == ~MPFunctionParamStop.json
  BY DEF MPFunctionParamStop, WellFormedStop, NoParam

\* A call that Python rejects changes nothing.
LEMMA RejectedCall ==
    ASSUME NEW param, ~param.json, RenderFrameNoDt(param)
    PROVE  UNCHANGED <<game, ResultString>>
  BY DEF RenderFrameNoDt

\* What one step of the Python game does to its record.
LEMMA SplashGame ==
    ASSUME LoopAssumption, NEW g \in Games, NEW param \in Param,
           ~param.quit, param.start # "",
           game' = StepSplash(g, param)
    PROVE  game' \in Games /\ game'.state = "play" /\ game'.score = g.score
  <1>1. game' = [g EXCEPT !.state = "play",
                          !.leftAuto = g.leftAuto \/ param.start = "single"]
    BY DEF StepSplash
  <1>2. (g.leftAuto \/ param.start = "single") \in BOOLEAN
    OBVIOUS
  <1> QED BY <1>1, <1>2 DEF Games

LEMMA PlayGame ==
    ASSUME LoopAssumption, NEW g \in Games, g.state = "play",
           NEW param \in Param, ~param.quit,
           NEW Pscores \in {{}} \cup {{p} : p \in {q \in Players : g.score[q] < MaxScore}},
           game' = StepPlay(g, param, Pscores)
    PROVE  /\ game' \in Games
           /\ game'.state = "play"
           /\ \A p \in Players : g.score[p] <= game'.score[p]
           /\ game'.input = [p \in Players |-> IF param.player = p THEN param.dir
                                               ELSE "none"]
  <1> DEFINE input == [p \in Players |-> IF param.player = p THEN param.dir ELSE "none"]
             score == [p \in Players |-> IF p \in Pscores THEN g.score[p] + 1
                                         ELSE g.score[p]]
  <1>1. game' = [g EXCEPT !.input = input, !.score = score]
    BY DEF StepPlay
  <1>2. input \in [Players -> {"none", "up", "down"}]
    BY DEF Param
  <1>3. g.score \in [Players -> 0 .. MaxScore] /\ MaxScore \in Nat
    BY DEF Games, LoopAssumption
  <1>4. \A p \in Pscores : g.score[p] < MaxScore
    OBVIOUS
  <1>5. score \in [Players -> 0 .. MaxScore]
    BY <1>3, <1>4
  <1>6. \A p \in Players : g.score[p] <= score[p]
    BY <1>3
  <1> HIDE DEF input, score
  <1>7. game' \in Games /\ game'.state = "play" /\ game'.input = input /\ game'.score = score
    BY <1>1, <1>2, <1>5 DEF Games
  <1> QED BY <1>6, <1>7 DEF input

\* A start makes the game play and keeps its score, whether or not it is new.
LEMMA StartCall ==
    ASSUME TypeOK, game.state # "quit", NEW mode \in {"single", "multi"},
           RenderFrameNoDt(Start(mode))
    PROVE  /\ game' \in Games
           /\ game'.state = "play"
           /\ ResultString' \in {"", "frame"}
           /\ \A p \in Players : game.score[p] <= game'.score[p]
  <1> DEFINE param == Start(mode)
  <1>0. param \in Param /\ param.json /\ ~param.quit /\ param.start = mode
    BY StartParam
  <1>1. game \in Games /\ game.score \in [Players -> 0 .. MaxScore] /\ MaxScore \in Nat
    BY LoopAssumption DEF TypeOK, Games
  <1>2. RenderFrameNoDt(param)
    OBVIOUS
  <1> HIDE DEF param
  <1>3. CASE game.state = "splash"
    <2>1. game' = StepSplash(game, param) /\ ResultString' = ""
      BY <1>0, <1>2, <1>3 DEF RenderFrameNoDt
    <2>2. game' \in Games /\ game'.state = "play" /\ game'.score = game.score
      BY <1>0, <1>1, <2>1, SplashGame, LoopAssumption
    <2>3. \A p \in Players : game.score[p] \in Nat
      BY <1>1
    <2>4. \A p \in Players : game.score[p] <= game.score[p]
      BY <2>3
    <2> QED BY <2>1, <2>2, <2>4, Zenon
  <1>4. CASE game.state = "play"
    <2>1. PICK Pscores \in {{}} \cup {{p} : p \in {q \in Players : game.score[q] < MaxScore}} :
             game' = StepPlay(game, param, Pscores)
      BY <1>0, <1>2, <1>4 DEF RenderFrameNoDt
    <2>2. ResultString' = "frame"
      BY <1>0, <1>2, <1>4 DEF RenderFrameNoDt
    <2> QED BY <1>0, <1>1, <1>4, <2>1, <2>2, PlayGame, LoopAssumption
  <1> QED BY <1>1, <1>3, <1>4 DEF Games

\* A move in a game that plays gives a frame.
LEMMA MoveCall ==
    ASSUME TypeOK, game.state = "play",
           NEW param \in Param, param.json, ~param.quit,
           RenderFrameNoDt(param)
    PROVE  /\ game' \in Games
           /\ game'.state = "play"
           /\ ResultString' = "frame"
           /\ \A p \in Players : game.score[p] <= game'.score[p]
           /\ game'.input = [p \in Players |-> IF param.player = p THEN param.dir
                                               ELSE "none"]
  <1>1. game \in Games
    BY DEF TypeOK
  <1>2. PICK Pscores \in {{}} \cup {{p} : p \in {q \in Players : game.score[q] < MaxScore}} :
           game' = StepPlay(game, param, Pscores)
    BY DEF RenderFrameNoDt
  <1>3. ResultString' = "frame"
    BY DEF RenderFrameNoDt
  <1> QED BY <1>1, <1>2, <1>3, PlayGame, LoopAssumption

-----------------------------------------------------------------------------
(* The invariant holds at the start. *)
LEMMA InvInit == Init => Inv
  <1> SUFFICES ASSUME Init PROVE Inv
    OBVIOUS
  <1>1. Start("single") \in Param /\ Move("2", "none") \in Param
    BY StartParam, MoveParam DEF Players, Results
  <1>2. game.score = [p \in Players |-> 0] /\ game.state = "splash"
    BY DEF Init
  <1>3. game \in Games
    <2> DEFINE still == [p \in Players |-> "none"]
               zero  == [p \in Players |-> 0]
    <2>1. still \in [Players -> {"none", "up", "down"}]
      OBVIOUS
    <2>2. zero \in [Players -> 0 .. MaxScore]
      BY LoopAssumption DEF LoopAssumption
    <2>3. game = [state |-> "splash", leftAuto |-> FALSE, input |-> still, score |-> zero]
      BY DEF Init
    <2> HIDE DEF still, zero
    <2> QED BY <2>1, <2>2, <2>3 DEF Games
  <1>4. shown = [p \in Players |-> 0]
    BY DEF Init
  <1>5. shown \in [Players -> 0 .. MaxScore]
    BY <1>4, LoopAssumption DEF LoopAssumption
  <1>6. ASRequestExchangeBuffer \in [Bytes -> BOOLEAN]
    BY DEF Init
  <1>7. /\ ASRequestStatus = "WAIT_IN" /\ ASRequestID = "NONE"
        /\ Payload = NoPayload
        /\ pc = "request" /\ SelectedScreen = "MAIN" /\ ScreenInit = TRUE
        /\ GameRunning = FALSE
        /\ ParamStart = Start("single") /\ ParamMove = Move("2", "none")
        /\ LastProcessedPlayer = "2" /\ ResultString = ""
        /\ PlayerCount = 0 /\ LEDFlashTrigger = 0 /\ handled = NoPaddle
    BY DEF Init
  <1>8. TypeOK
    <2>1. /\ ASRequestID \in Requests \cup {"NONE"}
          /\ Payload \in Payloads \cup {NoPayload}
          /\ handled \in Handlings
      BY <1>7 DEF Handlings
    <2>2. /\ LastProcessedPlayer \in Results
          /\ ResultString \in Results
      BY <1>7 DEF Players, Results
    <2>3. /\ ASRequestStatus \in {"WAIT_IN", "PROCESSING", "PROCESSED"}
          /\ pc \in {"request", "render", "draw", "events"}
          /\ SelectedScreen \in {"MAIN", "GAME"}
          /\ ScreenInit \in BOOLEAN /\ GameRunning \in BOOLEAN
          /\ ParamStart \in Param /\ ParamMove \in Param
      BY <1>1, <1>7
    <2>4. PlayerCount \in 0 .. 2 /\ LEDFlashTrigger \in {0, 3}
      <3>1. PlayerCount = 0 /\ LEDFlashTrigger = 0
        BY <1>7
      <3> QED BY <3>1
    <2> QED BY <1>3, <1>5, <1>6, <2>1, <2>2, <2>3, <2>4, Zenon DEF TypeOK
  <1>9. ParamsOK
    BY <1>7 DEF ParamsOK, Players, Results, Paddle
  <1>10. ShownOK
    <2>1. \A p \in Players : shown[p] = 0 /\ game.score[p] = 0
      BY <1>2, <1>4
    <2> QED BY <2>1 DEF ShownOK
  <1>11. ScreenOK /\ RenderSafe /\ ShownScoreExact
    BY <1>2, <1>7 DEF ScreenOK, RenderSafe, ShownScoreExact
  <1> QED BY <1>8, <1>9, <1>10, <1>11 DEF Inv

-----------------------------------------------------------------------------
(* Every step of the HTTP thread and of the LED thread keeps it. *)
LEMMA OutsideNext ==
    ASSUME Inv, PutRequest \/ TakeResult \/ FlashDone
    PROVE  Inv'
  <1> USE DEF Inv
  <1>0. UNCHANGED <<pc, screen, params, ResultString, game, shown, PlayerCount, handled>>
    BY DEF PutRequest, TakeResult, FlashDone, display
  <1>1. ScreenOK' /\ ShownOK' /\ RenderSafe' /\ ShownScoreExact'
    BY <1>0 DEF ScreenOK, ShownOK, RenderSafe, ShownScoreExact, screen
  <1>2. CASE PutRequest
    <2>1. /\ ASRequestStatus' = "PROCESSING" /\ LEDFlashTrigger' = LEDFlashTrigger
          /\ ASRequestID' \in Requests
          /\ Payload' \in Payloads \cup {NoPayload}
          /\ ASRequestID' \in DOMAIN Paddle => Payload' \in Payloads
      BY <1>2 DEF PutRequest, Requests, Paddle, display
    <2>2. ASRequestExchangeBuffer' \in [Bytes -> BOOLEAN]
      <3>1. CASE UNCHANGED ASRequestExchangeBuffer
        BY <3>1 DEF TypeOK
      <3>2. CASE \E p \in Payloads : ASRequestExchangeBuffer' =
                    [b \in Bytes |-> b < p.length \/ ASRequestExchangeBuffer[b]]
        <4>1. PICK p \in Payloads : ASRequestExchangeBuffer' =
                    [b \in Bytes |-> b < p.length \/ ASRequestExchangeBuffer[b]]
          BY <3>2
        <4>2. \A b \in Bytes : (b < p.length \/ ASRequestExchangeBuffer[b]) \in BOOLEAN
          OBVIOUS
        <4> QED BY <4>1, <4>2
      <3> QED BY <1>2, <3>1, <3>2 DEF PutRequest
    <2> QED BY <1>0, <1>1, <2>1, <2>2 DEF TypeOK, ParamsOK, screen, params
  <1>3. CASE TakeResult
    BY <1>0, <1>1, <1>3 DEF TakeResult, TypeOK, ParamsOK, screen, params, display
  <1>4. CASE FlashDone
    BY <1>0, <1>1, <1>4 DEF FlashDone, TypeOK, ParamsOK, screen, params, mailbox
  <1> QED BY <1>2, <1>3, <1>4

LEMMA RemainderResult ==
    /\ Remainder \in Players \cup {"rest"}
    /\ \A p \in Players : Remainder = p => game.score["2"] = Digit[p]
  BY DEF Remainder, Players, Digit

(* Every step of the loop keeps it. *)
LEMMA RequestNext ==
    ASSUME Inv, HandleStart \/ HandleStop \/ HandlePaddle \/ HandleNothing \/ NoRequest
    PROVE  Inv'
  <1> USE DEF Inv
  <1>0. /\ pc' = "render"
        /\ UNCHANGED <<ASRequestID, Payload, shown, LEDFlashTrigger, PlayerCount>>
        /\ ASRequestStatus' \in {"WAIT_IN", "PROCESSING", "PROCESSED"}
    BY DEF TypeOK, HandleStart, HandleStop, HandlePaddle, HandleNothing, NoRequest,
           Finish, Acknowledge, mailbox, display
  <1>1. game' = game
    BY StopParam, RejectedCall
       DEF HandleStart, HandleStop, HandlePaddle, HandleNothing, NoRequest
  <1>2. ShownOK' /\ RenderSafe' /\ ShownScoreExact'
    BY <1>0, <1>1 DEF ShownOK, RenderSafe, ShownScoreExact
  <1>3. CASE HandleStart
    <2>1. \E mode \in {"single", "multi"} : ParamStart' = Start(mode)
      BY <1>3 DEF HandleStart
    <2>2. ParamStart' \in Param /\ ParamStart' \in {Start("single"), Start("multi")}
      BY <2>1, StartParam
    <2>3. ScreenOK'
      BY <1>0, <1>1, <1>3 DEF HandleStart, ScreenOK
    <2> QED BY <1>0, <1>1, <1>2, <1>3, <2>2, <2>3 DEF HandleStart, TypeOK, ParamsOK
  <1>4. CASE HandleStop
    <2>1. UNCHANGED <<ASRequestExchangeBuffer, ParamStart, ParamMove,
                      LastProcessedPlayer, ResultString, handled>>
      BY <1>4, StopParam, RejectedCall DEF HandleStop, params
    <2>2. SelectedScreen' = "MAIN" /\ ScreenInit' = TRUE /\ GameRunning' = FALSE
      BY <1>4 DEF HandleStop
    <2> QED BY <1>0, <1>1, <1>2, <2>1, <2>2 DEF TypeOK, ParamsOK, ScreenOK
  <1>5. CASE HandlePaddle
    <2>1. Payload \in Payloads
      BY <1>5 DEF HandlePaddle, ParamsOK
    <2>2. Payload.player \in Players
      BY <2>1 DEF Payloads
    <2>3. Paddle[ASRequestID] \in {"up", "down"}
      BY <1>5 DEF HandlePaddle, Paddle
    <2>4. ResultString' \in Results
      BY <1>5, <2>2 DEF HandlePaddle, TypeOK, Results
    <2>5. handled' \in Handlings
      <3>1. Intact \in BOOLEAN
        BY DEF Intact
      <3> QED BY <1>5, <2>2, <2>3, <3>1 DEF HandlePaddle, Handlings
    <2>6. ParamMove' \in Param
      BY <1>5, <2>3, <2>4, MoveParam DEF HandlePaddle
    <2>7. ASRequestExchangeBuffer' \in [Bytes -> BOOLEAN]
      BY <1>5 DEF HandlePaddle, TypeOK
    <2>8. UNCHANGED <<SelectedScreen, ScreenInit, GameRunning, ParamStart>>
      BY <1>5 DEF HandlePaddle, screen
    <2>9. LastProcessedPlayer' = ResultString'
          /\ ParamMove' = Move(ResultString', Paddle[ASRequestID])
      BY <1>5 DEF HandlePaddle
    <2>10. TypeOK'
      BY <1>0, <1>1, <2>4, <2>5, <2>6, <2>7, <2>8, <2>9 DEF TypeOK
    <2>11. ParamsOK' /\ ScreenOK'
      BY <1>0, <1>1, <2>3, <2>4, <2>8, <2>9 DEF ParamsOK, ScreenOK
    <2> QED BY <1>2, <2>10, <2>11
  <1>6. CASE HandleNothing
    <2>1. /\ UNCHANGED <<ASRequestExchangeBuffer, SelectedScreen, ScreenInit, GameRunning,
                      ParamStart, ParamMove, LastProcessedPlayer, ResultString>>
          /\ handled' \in Handlings
      BY <1>6 DEF HandleNothing, screen, params, Handlings
    <2> QED BY <1>0, <1>1, <1>2, <2>1 DEF TypeOK, ParamsOK, ScreenOK
  <1>7. CASE NoRequest
    <2>1. UNCHANGED <<ASRequestExchangeBuffer, SelectedScreen, ScreenInit, GameRunning,
                      ParamStart, LastProcessedPlayer, ResultString, handled>>
          /\ ParamMove' = Move(LastProcessedPlayer, "none")
      BY <1>7 DEF NoRequest, ResetMove, screen, mailbox
    <2>2. ParamMove' \in Param
      BY <2>1, MoveParam DEF TypeOK
    <2> QED BY <1>0, <1>1, <1>2, <2>1, <2>2 DEF TypeOK, ParamsOK, ScreenOK
  <1> QED BY <1>3, <1>4, <1>5, <1>6, <1>7

LEMMA RenderNext ==
    ASSUME Inv, RenderTitle \/ RenderStart \/ RenderGame \/ Draw \/ Events
    PROVE  Inv'
  <1> USE DEF Inv
  <1>0. UNCHANGED <<ASRequestStatus, ASRequestID, Payload, ASRequestExchangeBuffer,
                    SelectedScreen, GameRunning, ParamStart, ParamMove,
                    LastProcessedPlayer>>
    BY DEF RenderTitle, RenderStart, RenderGame, Draw, Events, mailbox, screen, params
  <1>1. ParamsOK'
    BY <1>0 DEF ParamsOK
  <1>2. CASE RenderTitle
    BY <1>0, <1>1, <1>2
       DEF RenderTitle, TypeOK, ScreenOK, ShownOK, RenderSafe, ShownScoreExact,
           screen, display
  <1>3. CASE RenderStart
    <2>1. PICK mode \in {"single", "multi"} : ParamStart = Start(mode)
      BY DEF ParamsOK
    <2>2. RenderFrameNoDt(Start(mode)) /\ game.state # "quit"
      BY <1>3, <2>1 DEF RenderStart, ScreenOK
    <2>3. /\ game' \in Games /\ game'.state = "play" /\ ResultString' \in {"", "frame"}
      BY <2>2, StartCall
    <2>4. /\ shown' = [p \in Players |-> 0]
          /\ pc' = "events" /\ ScreenInit' = FALSE
          /\ UNCHANGED <<LEDFlashTrigger, PlayerCount, handled>>
      BY <1>3 DEF RenderStart
    <2>5. shown' \in [Players -> 0 .. MaxScore]
      BY <2>4, LoopAssumption DEF LoopAssumption
    <2>6. TypeOK'
      BY <1>0, <2>3, <2>4, <2>5 DEF TypeOK, Results
    <2>7. ShownOK'
      <3>1. game'.score \in [Players -> 0 .. MaxScore]
        BY <2>3 DEF Games
      <3> QED BY <2>4, <3>1 DEF ShownOK
    <2>8. ScreenOK' /\ RenderSafe' /\ ShownScoreExact'
      BY <1>0, <2>3, <2>4 DEF ScreenOK, RenderSafe, ShownScoreExact
    <2> QED BY <1>1, <2>6, <2>7, <2>8
  <1>4. CASE RenderGame
    <2>1. ParamMove \in Param /\ ParamMove.json /\ ~ParamMove.quit
      <3>1. PICK p \in Results, dir \in {"none", "up", "down"} : ParamMove = Move(p, dir)
        BY DEF ParamsOK
      <3> QED BY <3>1, MoveParam
    <2>2. RenderFrameNoDt(ParamMove) /\ game.state = "play" /\ GameRunning
      BY <1>4 DEF RenderGame, ScreenOK
    <2>3. /\ game' \in Games /\ game'.state = "play" /\ ResultString' = "frame"
          /\ \A p \in Players : game.score[p] <= game'.score[p]
      BY <2>1, <2>2, MoveCall
    <2>4. /\ pc' = "draw"
          /\ UNCHANGED <<ScreenInit, shown, LEDFlashTrigger, PlayerCount, handled>>
      BY <1>4 DEF RenderGame, screen, display
    <2>5. TypeOK'
      BY <1>0, <2>3, <2>4 DEF TypeOK, Results
    <2>6. ShownOK'
      <3>1. game.score \in [Players -> 0 .. MaxScore] /\ game'.score \in [Players -> 0 .. MaxScore]
            /\ shown \in [Players -> 0 .. MaxScore]
        BY <2>3 DEF Games, TypeOK
      <3> QED BY <2>3, <2>4, <3>1 DEF ShownOK
    <2>7. ScreenOK' /\ RenderSafe' /\ ShownScoreExact'
      BY <1>0, <1>4, <2>2, <2>3, <2>4
         DEF RenderGame, ScreenOK, RenderSafe, ShownScoreExact
    <2> QED BY <1>1, <2>5, <2>6, <2>7
  <1>5. CASE Draw
    <2>1. /\ pc' = "events" /\ ResultString' \in Players \cup {"rest"}
          /\ UNCHANGED <<ScreenInit, game, PlayerCount, handled>>
      BY <1>5, RemainderResult DEF Draw, screen
    <2>2. /\ game.score \in [Players -> 0 .. MaxScore]
          /\ shown \in [Players -> 0 .. MaxScore]
      BY DEF TypeOK, Games
    <2>3. shown' = game.score /\ LEDFlashTrigger' \in {0, 3}
      <3>1. CASE ScoresChange
        BY <1>5, <3>1 DEF Draw
      <3>2. CASE ~ScoresChange
        <4>1. shown' = shown /\ LEDFlashTrigger' = LEDFlashTrigger
          BY <1>5, <3>2 DEF Draw, display
        <4>2. \A p \in Players : shown[p] = game.score[p]
          BY <2>2, <3>2 DEF ScoresChange, ShownOK
        <4> QED BY <2>2, <4>1, <4>2 DEF TypeOK
      <3> QED BY <3>1, <3>2
    <2>4. TypeOK'
      BY <1>0, <2>1, <2>2, <2>3 DEF TypeOK, Results
    <2>5. ShownOK'
      <3>1. \A p \in Players : game.score[p] \in Nat
        BY <2>2
      <3> QED BY <2>1, <2>3, <3>1 DEF ShownOK
    <2>6. ScreenOK' /\ RenderSafe' /\ ShownScoreExact'
      BY <1>0, <1>5, <2>1, <2>3
         DEF Draw, ScreenOK, RenderSafe, ShownScoreExact
    <2> QED BY <1>1, <2>4, <2>5, <2>6
  <1>6. CASE Events
    <2>1. /\ pc' = "request" /\ handled' \in Handlings
          /\ UNCHANGED <<ScreenInit, ResultString, game, shown, LEDFlashTrigger>>
      BY <1>6 DEF Events, screen, display, Handlings
    <2>2. PlayerCount' \in 0 .. 2
      BY <1>6 DEF Events, AddPlayer, TypeOK
    <2>3. TypeOK'
      BY <1>0, <2>1, <2>2 DEF TypeOK
    <2>4. ScreenOK' /\ ShownOK' /\ RenderSafe' /\ ShownScoreExact'
      BY <1>0, <1>6, <2>1 DEF Events, ScreenOK, ShownOK, RenderSafe, ShownScoreExact
    <2> QED BY <1>1, <2>3, <2>4
  <1> QED BY <1>2, <1>3, <1>4, <1>5, <1>6

LEMMA InvNext == Inv /\ [Next]_vars => Inv'
  <1> SUFFICES ASSUME Inv, [Next]_vars PROVE Inv'
    OBVIOUS
  <1>1. CASE UNCHANGED vars
    <2>1. /\ UNCHANGED <<ASRequestStatus, ASRequestID, Payload, ASRequestExchangeBuffer>>
          /\ UNCHANGED <<pc, SelectedScreen, ScreenInit, GameRunning, handled>>
          /\ UNCHANGED <<ParamStart, ParamMove, LastProcessedPlayer, ResultString>>
          /\ UNCHANGED <<game, shown, LEDFlashTrigger, PlayerCount>>
      BY <1>1 DEF vars, mailbox, screen, params, display
    <2>2. TypeOK' /\ ParamsOK'
      BY <2>1 DEF Inv, TypeOK, ParamsOK
    <2>3. ScreenOK' /\ ShownOK' /\ RenderSafe' /\ ShownScoreExact'
      BY <2>1 DEF Inv, ScreenOK, ShownOK, RenderSafe, ShownScoreExact
    <2> QED BY <2>2, <2>3 DEF Inv
  <1>2. CASE Next
    BY <1>2, OutsideNext, RequestNext, RenderNext DEF Next, MainNext
  <1> QED BY <1>1, <1>2

-----------------------------------------------------------------------------
(* Which paddle moves.  A frame is computed from ParamMove; the loop knows *)
(* what it handled.  The two agree whenever a frame is about to be         *)
(* computed, unless the turn acknowledged a request unheeded.  Before that *)
(* ResultString names a player only as what is left of a drawn frame, so a *)
(* payload that Python rejects moves no other paddle than the one whose    *)
(* number is the score shown for the right player.                         *)
Asked(order, p) == IF order.player = p THEN order.dir ELSE "none"

FrameNext == pc = "render" /\ GameRunning /\ ~ScreenInit

\* A move a paddle may make for the request at hand.
Allowed(p, dir) ==
    IF handled.read THEN dir = Asked(handled, p)
    ELSE dir # "none" => dir = handled.dir /\ shown["2"] = Digit[p]

MoveOK ==
    /\ pc = "request" => handled = NoPaddle
    /\ ~FrameNext => \A p \in Players : ResultString = p => shown["2"] = Digit[p]
    /\ FrameNext /\ handled # Unheeded =>
          \A p \in Players : Allowed(p, Asked(ParamMove, p))
    /\ CommandMovesOnce

LEMMA MoveInit == Init => MoveOK
  BY DEF Init, MoveOK, FrameNext, CommandMovesOnce, Players

LEMMA MoveNext ==
    ASSUME Inv, MoveOK, [Next]_vars
    PROVE  MoveOK'
  <1>1. CASE UNCHANGED vars
    BY <1>1 DEF vars, screen, params, display, MoveOK, FrameNext, CommandMovesOnce, Allowed, Asked
  <1>2. CASE PutRequest \/ TakeResult \/ FlashDone
    <2>1. UNCHANGED <<pc, SelectedScreen, ScreenInit, GameRunning, ParamMove,
                      ResultString, game, shown, handled>>
      BY <1>2 DEF PutRequest, TakeResult, FlashDone, screen, params, display
    <2> QED BY <2>1 DEF MoveOK, FrameNext, CommandMovesOnce, Allowed, Asked
  <1>3. CASE HandleStart \/ HandleStop
    <2>1. /\ pc = "request" /\ pc' = "render"
          /\ ResultString' = ResultString /\ shown' = shown
          /\ GameRunning' => ScreenInit'
      BY <1>3, StopParam, RejectedCall DEF HandleStart, HandleStop, Finish, display
    <2> QED BY <2>1 DEF MoveOK, FrameNext, CommandMovesOnce
  <1>4. CASE HandlePaddle
    <2> DEFINE dir == Paddle[ASRequestID]
    <2>1. pc = "request" /\ pc' = "render" /\ shown' = shown
      BY <1>4 DEF HandlePaddle, Finish, display
    <2>2. dir \in {"up", "down"} /\ Payload \in Payloads
      BY <1>4 DEF HandlePaddle, Paddle, Inv, ParamsOK
    <2>3. Payload.player \in Players
      BY <2>2 DEF Payloads
    <2>4. FrameNext'
      BY <1>4, <2>1 DEF HandlePaddle, FrameNext, Inv, ScreenOK, screen
    <2>5. \A q \in Results : Move(q, dir).player = q /\ Move(q, dir).dir = dir
      <3>1. dir \in {"none", "up", "down"}
        BY <2>2
      <3> QED BY <3>1, MoveFields
    <2>6. /\ handled' = [player |-> Payload.player, dir |-> dir, read |-> Intact]
          /\ ResultString' = IF Intact THEN Payload.player ELSE ResultString
          /\ ParamMove' = Move(ResultString', dir)
      BY <1>4 DEF HandlePaddle
    <2> HIDE DEF dir
    <2>7. ResultString' \in Results
      BY <2>3, <2>6 DEF Results, Inv, TypeOK
    <2>8. ParamMove'.player = ResultString' /\ ParamMove'.dir = dir
      BY <2>5, <2>6, <2>7
    <2>9. \A p \in Players : Allowed(p, Asked(ParamMove, p))'
      <3>1. CASE Intact
        <4>1. ResultString' = Payload.player /\ handled'.read
              /\ handled'.player = Payload.player /\ handled'.dir = dir
          BY <2>6, <3>1
        <4> QED BY <2>8, <4>1 DEF Allowed, Asked
      <3>2. CASE ~Intact
        <4>1. ResultString' = ResultString /\ ~handled'.read /\ handled'.dir = dir
          BY <2>6, <3>2
        <4>2. \A p \in Players : ResultString = p => shown["2"] = Digit[p]
          BY <2>1 DEF MoveOK, FrameNext
        <4> QED BY <2>1, <2>8, <4>1, <4>2 DEF Allowed, Asked
      <3> QED BY <3>1, <3>2
    <2> QED BY <2>1, <2>4, <2>9 DEF MoveOK, CommandMovesOnce
  <1>5. CASE HandleNothing
    <2>1. /\ pc = "request" /\ pc' = "render" /\ handled' = Unheeded
          /\ ResultString' = ResultString /\ shown' = shown
      BY <1>5 DEF HandleNothing, Finish, display
    <2> QED BY <2>1 DEF MoveOK, FrameNext, CommandMovesOnce
  <1>6. CASE NoRequest
    <2>1. /\ pc = "request" /\ pc' = "render" /\ handled' = handled
          /\ ResultString' = ResultString /\ shown' = shown
          /\ ParamMove' = Move(LastProcessedPlayer, "none")
      BY <1>6 DEF NoRequest, ResetMove, display
    <2>2. ParamMove'.dir = "none" /\ handled' = NoPaddle
      BY <2>1, MoveParam DEF Inv, TypeOK, MoveOK
    <2>3. \A p \in Players : Allowed(p, Asked(ParamMove, p))'
      BY <2>2 DEF Allowed, Asked, NoPaddle
    <2> QED BY <2>1, <2>2, <2>3 DEF MoveOK, FrameNext, CommandMovesOnce
  <1>7. CASE RenderTitle \/ Events
    <2>1. /\ pc' \in {"events", "request"}
          /\ pc' = "request" => handled' = NoPaddle
          /\ ResultString' = ResultString /\ shown' = shown
          /\ ~FrameNext
      BY <1>7 DEF RenderTitle, Events, FrameNext, Inv, ScreenOK, display
    <2> QED BY <2>1 DEF MoveOK, FrameNext, CommandMovesOnce
  <1>8. CASE RenderStart
    <2>1. PICK mode \in {"single", "multi"} : ParamStart = Start(mode)
      BY DEF Inv, ParamsOK
    <2>2. ResultString' \in {"", "frame"} /\ pc' = "events"
      BY <1>8, <2>1, StartCall DEF RenderStart, Inv, ScreenOK
    <2> QED BY <2>2 DEF MoveOK, FrameNext, CommandMovesOnce, Players
  <1>9. CASE RenderGame
    <2>1. PICK p \in Results, dir \in {"none", "up", "down"} : ParamMove = Move(p, dir)
      BY DEF Inv, ParamsOK
    <2>2. ParamMove \in Param /\ ParamMove.json /\ ~ParamMove.quit
      BY <2>1, MoveParam
    <2>3. /\ FrameNext /\ game.state = "play" /\ RenderFrameNoDt(ParamMove)
          /\ pc' = "draw" /\ handled' = handled /\ shown' = shown
      BY <1>9 DEF RenderGame, Inv, ScreenOK, FrameNext, display
    <2>4. /\ ResultString' = "frame"
          /\ game'.input = [q \in Players |-> IF ParamMove.player = q THEN ParamMove.dir
                                              ELSE "none"]
      BY <2>2, <2>3, MoveCall DEF Inv
    <2>5. CommandMovesOnce'
      <3>1. \A q \in Players : game'.input[q] = Asked(ParamMove, q)
        BY <2>4 DEF Asked
      <3>2. handled # Unheeded => \A q \in Players : Allowed(q, Asked(ParamMove, q))
        BY <2>3 DEF MoveOK
      <3> QED BY <2>3, <3>1, <3>2 DEF CommandMovesOnce, Allowed, Asked
    <2> QED BY <2>3, <2>4, <2>5 DEF MoveOK, FrameNext, Players
  <1>10. CASE Draw
    <2>1. pc' = "events" /\ game' = game
      BY <1>10 DEF Draw
    <2>2. shown' = game.score
      <3>1. ResultString' \in Players \cup {"rest"} /\ SelectedScreen' = "GAME"
        BY <1>10, RemainderResult DEF Draw, screen, Inv, ScreenOK
      <3>2. Inv'
        BY <1>10, RenderNext
      <3> QED BY <2>1, <3>1, <3>2 DEF Inv, ShownScoreExact, Players
    <2>3. \A p \in Players : ResultString' = p => shown'["2"] = Digit[p]
      BY <1>10, <2>2, RemainderResult DEF Draw
    <2> QED BY <2>1, <2>3 DEF MoveOK, FrameNext, CommandMovesOnce
  <1> QED BY <1>1, <1>2, <1>3, <1>4, <1>5, <1>6, <1>7, <1>8, <1>9, <1>10
          DEF Next, MainNext

-----------------------------------------------------------------------------
(* The theorems. *)
LEMMA InvAlways == Safety => []Inv
  <1>1. Inv /\ [Next]_vars => Inv'
    BY InvNext
  <1> QED BY InvInit, <1>1, PTL DEF Safety

\* Type correctness of the main loop: scores, player count, LED trigger and the
\* Python parameters stay within what the code means by them.
THEOREM TypeCorrect == Spec => []TypeOK
  <1>1. Inv => TypeOK
    BY DEF Inv
  <1> QED BY <1>1, InvAlways, PTL DEF Spec

\* The screen is only ever given whole frames, whatever the order of starts,
\* stops, rejected calls and moves.
THEOREM WholeFramesOnly == Spec => []RenderSafe
  <1>1. Inv => RenderSafe
    BY DEF Inv
  <1> QED BY <1>1, InvAlways, PTL DEF Spec

\* After every frame the screen shows the score the game keeps.
THEOREM ScoreShown == Spec => []ShownScoreExact
  <1>1. Inv => ShownScoreExact
    BY DEF Inv
  <1> QED BY <1>1, InvAlways, PTL DEF Spec

\* Paddles move in the frames of the requests that ask for it, and then only;
\* a payload Python rejects can move no paddle but the one whose number is the
\* score of the right player.
THEOREM MovesAreCommands == Spec => []CommandMovesOnce
  <1>1. Init => MoveOK
    BY MoveInit
  <1>2. Inv /\ Inv' /\ MoveOK /\ [Next]_vars => MoveOK'
    BY MoveNext
  <1>3. MoveOK => CommandMovesOnce
    BY DEF MoveOK
  <1> QED BY <1>1, <1>2, <1>3, InvAlways, PTL DEF Spec, Safety
=============================================================================
