# micropython-as: specification, model checking and proofs

micropython-as is the firmware of an ESP32-S3: a WiFi access point with a DNS
server and an HTTP/1.1 server that serves a small web application (the x0
framework) from flash and hands the requests it defines to a main loop, which
runs the game of PONG in an embedded MicroPython and draws it on a display.
This directory holds TLA+ modules of its components, the TLC configurations
that check them on small instances, and theorems about them checked by TLAPS.
The modules follow the C++, Python and JavaScript under `src/`; `PROJECT.json`
maps each definition to the lines it stands for.

## 1. Inventory

The firmware is in `src/src/`, a Linux build of its server in
`src/linux_server/`, the web application in
`src/src/components/filesystem/srcfiles/`.

| Component | State it keeps | Operations | What makes it correct |
|---|---|---|---|
| HTTP server task (`Server`, `ClientHandler`, `Client`) | map of clients by FD; per client the queue of parsed requests and the response being sent; FDs to erase | poll/accept, read and parse, dispatch, write in pieces, erase and close | n-th response for the n-th request; nobody starves; closed clients are released |
| AS request mailbox (`ASRequestHandler`, `ASRequestGlobal`) | four globals: status, ID, length, buffer of 2048 bytes | put (HTTP task), execute (main loop), take the result (HTTP task) | one command at a time, executed once, unmixed, in order; each result sent once |
| Main loop (`app_main`) | selected screen, screen-init and running flags, the parameter strings, ResultString | branch on the request, call MicroPython, render, WiFi bookkeeping | commands move a paddle once; screen and game agree; nothing is indexed that is not there |
| PONG (`pong.h`, Python) | state (splash, play, quit), paddles, puck, scores, automatic mode | step, get_player_id | paddles and puck stay on the field; two players play two paddles |
| Game and title screen | shown scores, last frame; player count, cube and header offsets | render, renderScores; addPlayer, removePlayer, render | right score shown; coordinates on the display |
| WiFi events (`NetworkWifi`) | event group of three bits | set by the event task, read and cleared by the main loop | each phone counted once |
| LED task | shared trigger, PWM duties | read trigger, fade, reset | each event shown |
| DNS task (`DNSServer`) | one buffer of 128 bytes, reused; address of the client | receive, classify, answer / NXDOMAIN / nothing | the answer follows from the question; writes stay in the buffer |
| Static file system | generated tables | lookup by URL | the right file or none |
| x0: start, requests, notifications (`sysInitOnLoad`, `sysObjectLoader`, `sysXMLRPCRequest`, `sysAsyncNotify*`, `sysObjButton`) | files loaded; requests under way; the indicator's items by name, its level, the DOM; the global variable SelectedPlayer; the poll for messages | file arrives, click, answer, close, batch of messages | one start, with all files; each answer on its own notification; polling survives errors |
| x0: screens, overlay, reactor, links (`sysFactory`, `sysScreen`, `sysScreenOverlay`, `sysReactor`, `sysObjLink`) | table of screens, what is displayed, count of overlays, registrations, marks on objects, requests under way | switch, open and close an overlay, fire, answer | the current screen is shown; an overlay can be closed; a mark ends with the answer |
| x0: lists, pagination, context menu (`sysObjList`, `sysRTPagination`, `sysObjContextMenu`) | data, row objects, page, selection, clipboard, open menu | append, select, turn pages, copy, remove, paste | what is removed is what was chosen |
| x0: form fields, validators, tabs (`sysObjFormfield*`, `sysFormfield*`, `userFunctions`, `sysObjTabContainer`) | value, mark and activation of each field, errors shown | type, validate and send, reset, switch tabs | what is accepted is right; what is marked wrong is wrong |
| x0: service connector, tree, upload, radio list, grid, markup | loaded data, markup | load, expand, upload | not modelled, see section 7 |
| SSD1306 driver, MicroPython embedding, ESP-IDF, httpparser / httpgenerator | - | - | third-party code and I/O, modelled only by how the code uses it |

How they interact: the HTTP task and the main loop share the four globals of
the mailbox without a lock (`DECISIONS.md` argues that 32-bit reads and writes
are atomic); the event task and the main loop share the WiFi event group; the
main loop and the LED task share `LEDFlashTrigger`; the DNS task shares nothing.
The page talks to the
server by HTTP only; inside it everything happens in callbacks of one thread.
`app_main` fills an `esp_pthread_cfg_t` that would pin the HTTP task to core 1
but never installs it, so the modules assume no placement: steps of tasks
interleave in any order.

What is hard here: the order in which two tasks touch the mailbox between two
lines of `processClients`; clients that pipeline requests, take responses in
pieces and leave with a command in the mailbox; a buffer that is reused with
lengths that shrink (HTTP payloads, DNS datagrams); a stop command that Python
rejects, so that games are continued rather than restarted; bits and triggers
that are read and reset by two separate calls while others set them; answers that
come in any order, or never, for notifications that are found by name and shown
by a DOM ID that is used again; a menu that keeps the index of a row while the
list is rendered anew; an overlay that takes the place of its own screen;
fields that other fields and tabs switch on and off between two validations.
`hazards`
in `PROJECT.json` lists each with its line and the properties aimed at it.

## 2. Modules

| Module | Models | Extends / instantiates |
|---|---|---|
| `ASMailbox` | what the tasks promise each other: a mailbox of one slot | - |
| `ASServer` | HTTP task, mailbox, main loop's end of it, browsers | instance of `ASMailbox` as refinement |
| `ASServerProofs` | theorems about `ASServer` | `ASServer`, `TLAPS` |
| `GameLoop` | main loop in detail, Python game, screens; the HTTP task as the two steps that are its own | - |
| `GameLoopProofs` | theorems about `GameLoop` | `GameLoop`, `TLAPS` |
| `WifiPlayers` | WiFi events, player count, LED trigger | - |
| `WifiPlayersProofs` | theorems about `WifiPlayers` | `WifiPlayers`, `FiniteSetTheorems`, `TLAPS` |
| `DNSServer` | DNS task, resolvers, UDP | - |
| `DNSServerProofs` | theorems about `DNSServer` | `DNSServer`, `TLAPS` |
| `BrowserPage` | the x0 page: start, buttons and their requests, notifications, messages; its user | - |
| `BrowserPageProofs` | theorems about `BrowserPage` | `BrowserPage`, `TLAPS` |
| `Screens` | screens, overlay, events that set properties of objects | - |
| `ScreensProofs` | theorems about `Screens` | `Screens`, `FiniteSetTheorems`, `TLAPS` |
| `EntryList` | what the list of scores promises its user: entries, chosen ones, a menu about one | - |
| `ScoreHistory` | the list of scores with its pages, selection and menus, and the form a score is pasted into | `SequencesExt`, instance of `EntryList` as refinement |
| `ScoreHistoryProofs` | theorems about `ScoreHistory` | `ScoreHistory`, `WellFoundedInduction`, `SequenceTheorems`, `TLAPS` |
| `Validators` | validators of fields and of groups, as operators | - |
| `FormValidate` | forms: fields, marks, errors, the button that validates and sends, tabs | `Validators`, `SequencesExt` |
| `FormValidateProofs` | theorems about `FormValidate` | `FormValidate`, `WellFoundedInduction`, `TLAPS` |
| `MCASServer`, `MCGameLoop`, `MCWifiPlayers`, `MCDNSServer`, `MCBrowserPage`, `MCScreens`, `MCFormValidate` | constants for TLC | the module of that name |

### ASServer

A connection is opened at most once (FDs are reused by the code only after
`close`). `sent[c]` is what the browser has sent, `rcvd[c]` how much of it is
parsed, `done[c]` how much is answered, so the queue of the code is
`done[c]+1 .. rcvd[c]` and `Requests->at(0)` is `HeadReq(c)`. One visit of a
client in `processClients` is three steps, because the main loop can run
between them and both look at `ASRequestStatus`: `Receive` (read, mark on end of
file), `CheckASRequest` (lines 74-77), and one of `AnswerAS`, `AnswerStatic`,
`LeaveQueued`, `Write`, `WriteFails`. The iteration order of the
`unordered_map` is left open. `ASRequestInit` is one step: the main loop looks at
the other globals only after the status, which is written last; for the same
reason `AnswerAS` is one step. The main loop reads the ID (`MainBranch`) and the
payload (`MainExecute`) in two steps. The browsers are the environment.

Left out: contents of responses, header parsing (httpparser), the length of
delays, the listen backlog of 0 (the kernel may refuse a connection; a browser
that was refused is one that has not connected). A connection that ends before it
is accepted may make `accept` fail, and then adds no client (`AcceptFailed`).

### GameLoop

A turn is `request` (one of five branches), `render` (three branches; the game
branch continues with `draw`), `events`. JSON strings are records of what they
parse to; `{ "quit" }` parses to nothing, so `RenderFrameNoDt` leaves the result
string alone, as `callFunction` does. The exchange buffer is kept as which bytes
are non-zero, enough to tell whether a byte of an earlier payload stays behind
a shorter one. Such a payload does not parse, and what `ResultString` holds is
taken for the player: after a frame that is the frame's last field, as `split` eats
the string it is given, and so the score of the right player (`Remainder`), which
reads like a player at 1 and 2. `read` in `handled` remembers whether the
payload parsed. Who scores is chosen freely in each frame, at most one player, as
the puck has one position. The bookkeeping that the code does once in fifty
turns may happen in any turn.

### WifiPlayers

The event handler runs in a task of its own, so `GetBits`, the branch and
`ClearBits` are separate steps, as are reading the LED trigger (`StartFade`) and
resetting it (`EndFade`). `patient` is chosen once, in the initial state: patient
phones come and go one at a time, each after the main loop and the LED have
dealt with the one before; other phones come and go as they like.

### DNSServer

A datagram is its length and the fields the server tests, each with the bytes it
occupies (`Begin`, `End`). `Received` overlays it on what the buffer held: whole
fields are replaced, those behind the end stay, one that is cut may come out
as old, new or something else. A reply is sent from the buffer. The network
loses, repeats and reorders; a resolver repeats its question, accepts a reply
with the ID of that question, or gives up.

### BrowserPage

JavaScript runs a handler to its end, so a handler is an action: `FileArrives`
(callback of a loader, `checkLoaded`, and at the last file `sysFactory.init`),
`Click` (`EventListenerClick` with its action, source data, notification and
request), `Answer` (callback of a button), `Close`. A batch of messages is one
handler in the code and a step per message here (`ProcessMsg`, `IndicatorMsg` for
the result of a notification, `MsgError`); no other handler runs meanwhile (`Idle`). `Lost`, `FileFails` and `PollFails` are
requests that end without a callback, as `sysXMLRPCRequest` calls back for
status 200 only.

An item of the indicator and the div that shows it are kept apart, because the
code does: `Items` finds the newest item of a name, while `shows` is what the
div of a level shows. A new item whose level has a div already does not get one
of its own; `listeners` then holds both, and one click closes both (`DownAll`).
`careful` is chosen once, in the initial state: a careful user does not repeat a
command before its answer and closes only the topmost notification, once it is
answered, and goes with a message server that sends no result for a notification
that is closed (`MaySend`); it may send one for a notification whose own request
is still unanswered, or several. With others the page still counts levels correctly, but an answer
may be written into a notification it does not belong to, which the properties
say by being about careful ones.

The page in this repository switches message handling off (`index.html`), the
framework has it; `browser_page` checks it switched on, where a poll may also stay
unanswered for ever, which is the page with it switched off.

Left out: what an error of `sysFactory.init` would do, screens and events that a
message may switch or fire (`fire-events`, `switch-screen-id`) and a success may fire
(`OnSuccess.FireEvents`), the third text of `processResult` for a status that is
neither success nor error, buttons other than the game's.

### Screens

The page in this repository has one screen; the module is about the framework.
`Screens` is the factory's table, `displayed` what the DOM shows, and the two
differ because an overlay replaces its screen in the table and deletes the
entry when it closes. A root object is a screen's (number 0) or that of the
n-th overlay. `SwitchScreen`, `SetupOverlay` and `CloseOverlay` are the handlers;
a link that does several of these and fires events is several steps. A style that
a link gives its screen is only looks, but for a screen that is not in the table any
more: it throws before the link does anything, which is a stutter. `Fire` is a
dispatch with one request for each registration, those of closed overlays
included, because the code never removes one; `Answer` takes the marks off the
objects it finds, up to the first it does not. `Lose` is a request that fails.
No screen has a configuration of data to load (`index.html` leaves it
undefined).

### ScoreHistory

The score tab as the page configures it. An entry is the number of the append that
made it, and stands for the whole row, whose fields travel together. Each render
makes new row objects (`NewRow`), so that a selection is lost, while an open menu
keeps the row object it was opened on: `menu` is its index and entry. `Splice` is
`Array.splice(i, 1)`, `SpliceDown` the loop of `removeSelectedRows`, with `Drop` for
what it does of one row. `EntryList` knows entries only, no index, row or page, and
keeps them in the order they were added; the mapping takes the entries of the data,
of the selected rows and of the menu. Pages are hidden and shown rows (`ShowPage`);
the number of pages is that of the last render, as the buttons were made then.
`Paste` sets the fields of the system form from the clipboard; nothing copied means
that each field throws and is left alone.

### Validators and FormValidate

`Validators` says of a text only how it reads (a date, octets, two digits, ...)
and translates each validator to what it answers: `"ok"` for false, `"fail"` for
true, or the message of its error object. The peculiarities of JavaScript that
decide an answer are kept: comparisons with a NaN are false, an empty string
compares as 0, a date is midnight UTC but read back in local time, a digit that is
`-1` makes a text of three characters.

In `FormValidate` a press of the button is one action, as it is one handler: all
fields of a list in order, then its group if the last field did not fail, list
after list; a field that throws ends the press and leaves the lists behind it
alone. `MarkAfter` and `ErrorAfter` are what is left on the screen. Typing into a
field with an `OnChange` entry activates or deactivates another one, and so
does switching tabs, for all fields of the tab. Every change calls
`resetErrorContainer`, which goes through an object that is not iterable and catches
the error of that, so that no container is reset. Two of the three forms of the
instance are not on the shipped page; with the page's form alone most of the
validators would not be reached.

## 3. Runs

| Run | Question | Bounds |
|---|---|---|
| `as_server_safety` | do two racing browsers get mixed up? | 2 browsers, 3 requests (2 + 1) of 3 kinds (AS GET, AS POST, file), 1 write each |
| `as_server_liveness` | is everybody answered and released, each command executed? | 2 browsers, 1 request each of 3 kinds (AS POST, file, POST of no definition), 2 writes |
| `game_loop` | do screen, Python game and commands agree; does each request and each game get through? | payload lengths 1 and 2, both players, 1 point each |
| `wifi` | are events counted once whatever interleaves, and with patient phones is the count right and each event shown? | 3 phones, 3 events of each kind |
| `dns_server` | can stale bytes, cuts or late replies mislead a resolver? | 11 kinds of datagrams from 20 to 128 bytes, 2 questions and any number of copies |
| `browser_page` | does the page start, read the right answers, and keep level, player and polling through any order of answers, losses and clicks? | 4 files, 3 buttons, 3 requests, 3 notifications, batches of up to 2 messages |
| `score_history` | does the menu stay with its row, do removals take what was chosen, is the list one of entries? | 2 rows a page, 5 appends |
| `form_validate` | are marks, masks and dates judged right through any order of typing, pressing, resetting and switching tabs? | 3 forms, 4 lists, 16 fields with 2 to 6 values each |
| `screens` | do screens, overlays and marks stay consistent? | 3 screens, 2 objects, 2 events, 3 overlays, 3 requests under way of an event |
| `as_post_executed`, `game_loop_two_clients`, `form_time_range` | violations, see section 6 | as small as shows them |

Why the bounds are enough: the mailbox has one slot, so two browsers and three
requests cover each pair of contenders and a bystander request; orphaned results
need two requests; the write of a response in pieces needs two writes. A stale
payload byte needs two adjacent lengths. A rise of one score after
the other needs one point of each player, and with it the score of the right
player reaches the number of one player; that of the other is the same by
symmetry, and `MovesAreCommands` is about every score. The count saturates at two, so three
phones exceed it. A decision on stale bytes needs the datagram before and
one that is cut, at each boundary the code tests (24, 27, 38, 100).
Two items that share a div and a third above or after them need three
notifications; an error in a batch needs a message before or behind it.
Five rows on pages of two make a full, a middle and a partly filled page, and
let two rows be removed with others before, between and behind them. Each
validator has values on both sides of each of its conditions, and each kind of
group, of switch and of exception (nullable, throwing) is in one of the forms. An
event with objects on two screens, one of them replaced by an overlay, and two
overlapping requests are all that a mark can depend on.

Fairness: each task loops forever and sleeps with `vTaskDelay` once a turn, so
weak fairness of its next step is what FreeRTOS gives it. A browser that stays
reads what it is sent (strong fairness of a write that takes bytes). A resolver
repeats its question, and UDP does not lose every copy (strong fairness of
arrival and of the reply). Patient phones get an address before they leave. A browser ends
a request for a file with success or failure and runs a callback to its end;
nothing is assumed of answers to buttons, of the message server or of the user.

Deadlock is checked everywhere but in `dns_server`, where the task may wait in
`recvfrom` for ever once no phone asks any more, and in `browser_page`, where a
page whose file has failed does nothing any more. `ScoreHistory`, `FormValidate`
and `Screens` have no fairness: they are moved by a user who need not do anything,
and no answer of the server is promised.

## 4. Properties

`ASServer`: `ResponsesInOrder`, `ResultSentOnce`, `ExecutedAsRequested`,
`CommandsInOrder`; `MailboxSpec` (refinement of `ASMailbox`, with fairness);
`KnownAnswered`, `ClosedReleased`. `GameLoop`: `RenderSafe`, `CommandMovesOnce`,
`ShownScoreExact`, `StartedGameDrawn`, `RequestsAcknowledged`. `WifiPlayers`:
`NoEventCountedTwice`; `CountsStations` and `EventsFlash` with patient phones.
`DNSServer`: `RepliesFromQuery`, `RepliesFit`, `VerdictRight`, `PongGameResolved`.
`BrowserPage`: `LevelCountsOpen`, `ShowsOwnAnswer`, `PageStarts`, `PollingGoesOn`.
`Screens`: `CurrentScreenShown`, `OverlayCanBeClosed`, `MarkedAwaitsAnswer`.
`ScoreHistory`: `MenuNamesItsRow`, `OnlyRemovalEmptiesPage`, `ListSafety` (refinement
of `EntryList`). `FormValidate`: `SentUnmarked`; `MaskRight` and `DateRight`, which
compare a validator with an independent definition (the bits of the mask, the days of
the calendar); a field that may be empty and is (`Pardoned`) is right in both. Each
is stated in words above its definition, and for each `PROJECT.json` names a mutant
of the code model that breaks it.

Some are narrower than one might wish, because the code does not do more:
`KnownAnswered` holds only when no POST of an unknown URL is queued before the
request, since such a POST is never answered; `CountsStations` and `EventsFlash` are
about patient phones, `ShowsOwnAnswer` about careful users and message servers; and
`CommandMovesOnce` excludes the turn in which a request is acknowledged without being
heeded (a start while a game runs), since the last move is then repeated for one
frame, and lets a payload that does not parse move the paddle whose number is the
score of the right player. `SentUnmarked` excludes fields
that were deactivated while red and groups that answer with a plain true;
`CurrentScreenShown` ends for a screen with its first overlay; `MarkedAwaitsAnswer`
ends with the first failure; `DateRight` promises that a day of the calendar is
accepted only east of Greenwich, because west of it none is.

## 5. Proofs

All theorems hold for every value of the constants that the assumptions of the
modules admit; type correctness is one in each module.

`ASServerProofs` (from `ServerAssumption`, finitely many connections and finite
bounds). `Base` is `TypeOK` with `VisitOK` (inside a visit the HTTP task holds a
connection with a queued request) and `CountsOK` (responses and requests of a
connection agree in number). Alone it gives `TypeCorrect`, and with `StaticOK` (each
response is a result or the file of the request with its number)
`ResponsesKeepOrder`. `Handshake` adds `InFlightOK` (while the status says
PROCESSING, buffer and ID name one request that its browser sent and that matches)
and `ExecutedOK` (so did everything executed, and nothing in flight precedes it):
without the first, nothing is known of what the main loop executes, without the
second an old request could overtake. It gives `ExecutionsAreRequests`,
`CommandsKeepOrder` and, with `PublishedOK` (a published result belongs to an
execution and has no taker yet), `ResultsSentOnce`. `ImplementsMailbox` is the
refinement of `ASMailbox` step by step.

`GameLoopProofs` (from `LoopAssumption`). Screen and Python game are started and
stopped by different means and do not agree; what holds is `ScreenOK`: the game
screen is initialised before a turn looks at the next request, and from then on
the Python game plays, because it never quits. So the screen gets whole frames
(`WholeFramesOnly`). `ShownOK`, never more than the game counts, makes "a score
rose" complete (`ScoreShown`). For `MovesAreCommands` the invariant `MoveOK` says
that between two turns `ResultString` names no player but the one whose number is
the score of the right player on the screen (`RemainderResult`), so that a payload
that does not parse moves that paddle or none.

`WifiPlayersProofs` (from `WifiAssumption`). A bit that is set promises an event
that is not counted yet, except while the main loop, having counted it, is about
to clear it: `PromisesOK`, from which `EventsCountedOnce`. `StationsCounted` is about
patient phones. When all is quiet the count is that of the phones with an address;
in between it differs by the event that is still to be counted, which the bits tell
as long as they are about one phone: `PatientInv`. Its parts say that the bits are one
of four sets and which phone they mean (`OneAtATime`), and that count and phones agree
but for a join or a leave not yet handled (`CountOK`); sizes of sets are compared by
the theorems on cardinalities, for any number of phones.

`DNSServerProofs` (from `DNSAssumption`, which places the fields in the
datagram). `BufferOK`: a field that ends within the datagram is the datagram's
own. The limits the server tests thus decide which fields it may believe
(`RepliesFollowQueries`, `WritesStayInBuffer`); whatever travels under the present
ID of a resolver is about its present question (`VerdictsRight`).

`BrowserPageProofs` (from `PageAssumption`). `Base` says who listens to a div was
made for its level (`ListenOK`) and that a div is on screen exactly as long as
someone listens (`DivOK`), so that closing takes from the level what it takes from
the open items: `LevelsCountOpen`. For `OwnAnswersShown` it needs `StackOK`
(with a careful user the divs are a stack without gaps, of one item each) and
`OwnOK` (a command under way is the only one of its name, its item is open and
is the one that the name finds) and `BatchOK` (each result of the batch that is
being handled is for an open item or none): without the first, two items could
share a div, without the others an answer or a message could find another item.

`ScreensProofs` (from `ScreensAssumption`, finitely many screens and events, so that
registrations can be counted: `RegistrationsFinite`). `OverlayCanBeClosed` is not
inductive, as switching displays what the table holds. `TableOverlay` says that the
table holds no overlay but the last one opened, which the count knows of, and
`OverlayReal` that the close button never removes a screen; with them `TypeCorrect`,
`OnlyCurrentShown`, `OverlayCloses`. `MarksAreTaken` needs that a request finds all its
objects or sets `failed`: `TargetsAreObjects`.

`FormValidateProofs` (from `FormAssumption`, which says how the lists and groups of
a form are made). `ValidatorAnswers` and `GroupAnswers` bound what validators answer;
`LastHasMessage`, by the well-foundedness of <, that the last error with a message
exists. `SentUnmarked` needs `IgnoredOK`: a field without a validator keeps its
mark, so that it must not have got a red one but from its group. It gives
`SentListsUnmarked` and, with the lemmas, `TypeCorrect`. What a mark says of a value
needs `VerdictsShown`: until something is touched, the mark of a field is the verdict of
its own validator on the present value, through presses that end early, resets and
tabs. `MaskAccepts` then shows that the six conditions of the mask agree with its 32
bits, octet by octet (`OctetFalls`) and at the seams (`BitsFall`), and `DateAccepts`
that days are counted as the calendar does, for every year: `MasksMarkedRight`,
`DatesMarkedRight`. `TimesAccepted` solves the loops that make the accepted times: after
k steps the digits are `k \div 11` and `(k % 11) - 1` (`DigitsAre`), so the 23 and 59 steps
end at 20 and 53. It confirms the violation of section 6 and says how far it goes.

`ScoreHistoryProofs` (from `ListAssumption`). `MenuNamesItsRow` is inductive with the
places of entries and rows that `TypeOK` states; the removals also need the order of
the entries (`OrderOK`, without which removing an entry could leave its double) and
the page turns what the last render counted and shows (`PagesOK`). What removing the
selected rows leaves is a fold over the rows. `SpliceDownFolds` gives it as a
function down the rows, `Partial` says what is left once the rows from j on have been
handled (those before are still in their places, so that their index is still right;
this is where a loop from the first row down would fail), and `PartialStep` carries
it over one row. So `SelectedGone`, and `MenuRowGone` for a single row, show that
indexes take the very entries that were meant, in lists of any length;
`ImplementsList` is the refinement of `EntryList` step by step, in which page turns
and pastes are stutters. `RemovalsEmptyPages` comes down to `PageHasRow`: the first
row of each page that was counted is a row of the list. With them `TypeCorrect` and
`MenusNameTheirRow`.

Induction in these proofs is by the smallest counterexample (`WFMin` for `<` on the
numbers), over a set of numbers rather than an operator: `UpTo` in `ScoreHistoryProofs`.

Not proved, only model-checked: the liveness properties, since fairness and ENABLED are
outside the prover's reach: `KnownAnswered`, `ClosedReleased` and the fairness part of
`MailboxSpec`, `StartedGameDrawn`, `RequestsAcknowledged`, `EventsFlash`, `PongGameResolved`,
`PageStarts` (that the page starts whole when it does is proved, `StartsWhole`) and
`PollingGoesOn`. All invariants and action properties of the passing runs are proved.

## 6. What the runs found

- `as_post_executed`: GET /python/startgame is answered 404 although it is executed,
  because the test for a result follows the hand-over in the same visit. The
  orphaned result is given to a POST of another connection, which the closed mailbox
  had not admitted; while its response is being sent the first GET takes the mailbox
  again, so that the POST is erased without ever having been put or executed.
- `game_loop_two_clients`: stop never reaches the Python game, so a game of two
  after a game of one is still played by the computer on the left.
- `form_time_range`: the validator of times makes the list of texts it accepts
  with a digit that starts over at -1: hours 21 to 23 and minutes and seconds 54 to 59
  are refused, 1-1 is accepted.

Seen while modelling and not given a run:

- the mailbox does not look at the send state, so that a POST whose response is still
  being sent can be put a second time and executed twice;
- the terminator behind a payload is written one byte too far: a payload behind one
  that was a byte longer does not parse, and the move goes to no player or, when the
  right player's score is 1 or 2, to the player of that number;
- a change of a field resets no error container, since the reset goes through an
  object that is not iterable;
- two phones that join between two looks at the event bits count as one; an LED
  trigger written during a fade is reset at its end; at 0:0 `renderScores`
  triggers the score flash in every frame;
- `DECISIONS.md` says the DNS server reacts to questions about pong.game only,
  while it answers others with NXDOMAIN; a question about pong.game of another
  type is not answered at all;
- a name that the code calls unique is given to two open notifications when a
  button is clicked twice, and the first one waits for ever; the answer to a closed
  notification, or a message with a result for it, is written into the one that has
  taken its level;
- `validateForm` sends if any of several lists is valid, and with the data of
  those that are not; `ValidateMinChar` calls a function that does not exist and
  ends the press; a group that answers true marks its fields and is not counted;
  an error container may show the text of one field with the detail of another;
  `resetStyle` does not take a mark back; what `IPPort` cannot read as a number it accepts;
- west of Greenwich every well-formed date is refused;
- a screen that had an overlay is never hidden or shown again by `switchScreen`, and
  its objects are not found; each overlay of a screen adds a listener, and each
  listener a request; `disable()` of a button always throws (the caller catches it);
- switching tabs activates fields again that an OnChange had hidden.

## 7. Not modelled, and why

- Third-party code (SSD1306 driver, MicroPython, ESP-IDF, httpparser and
  httpgenerator): only as the code uses it.
- Start-up (runs once, before any task), build-time converters, the Linux build's
  stubs and test clients.
- Physics of puck and paddles (real arithmetic), the cube and the header of the
  title screen, LED fades: numbers that only change what is drawn or how bright
  it is.
- x0, loading: service connectors and callback buttons that load lists, the data
  of a screen, the interval handler, events over the net. The shipped page
  configures none of them. The loader of a screen's data throws on its first use
  when containers are to be loaded at all (`sysScreen.js:258`).
- x0, widgets: tree, upload, radio lists, dynamic pulldowns, progress bar, slider,
  grid, open/close containers: markup with no state that other parts read.
- x0, forms: `Validate.Objects` of a button, `CheckDatePeriodOneYear`, `CheckTableRows`
  (which the page does not use), the transformation of request data, the validation
  status of tabs, OnChange entries that update texts or fire events.
- Compositions of the page with the server: what crosses between them is one request
  and its answer, and each side is checked against any behaviour of the other.
