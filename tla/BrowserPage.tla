----------------------------- MODULE BrowserPage -----------------------------
(***************************************************************************)
(* The x0 page in a browser: it requests its four files at once and starts *)
(* when the last one has arrived; its buttons send requests whose answers  *)
(* come in any order or never; a notification is put on screen for each    *)
(* request and each polled message, and its result is written into it; a   *)
(* polled message may also be a result, for the notification it names.     *)
(*                                                                         *)
(* A JavaScript handler runs to its end before the next one, so a handler  *)
(* is an action; only a batch of messages, handled in one callback, takes  *)
(* a step per message, with all other handlers waiting (Idle).             *)
(*                                                                         *)
(* A notification is an object of the indicator (an item) and a div that   *)
(* shows it.  The div's ID is made from the level, zIndex, at which the    *)
(* item was made: where a div of that ID exists none is made, and the item *)
(* and its close listener settle on the existing one.                      *)
(***************************************************************************)
EXTENDS Naturals, FiniteSets, Sequences

CONSTANTS Files,            \* what sysObjLoader waits for
          Buttons,
          NotifyIDs, NoID,  \* Notify.ID of a button
          Notify,           \* the notification of a button, or NoID
          Starters,         \* buttons with Action setGlobalVar SelectedPlayer
          Movers,           \* buttons with SrcDataObjects SelectedPlayer
          MessageID,        \* SYS__GLOBAL_MSG
          MessageHandling,  \* sysVarMessageHandling
          MaxRequests, MaxItems, MaxBatch  \* bounds

ASSUME PageAssumption ==
    /\ IsFiniteSet(Files) /\ Files # {}
    /\ NoID \notin NotifyIDs /\ MessageID \notin NotifyIDs \cup {NoID}
    /\ Notify \in [Buttons -> NotifyIDs \cup {NoID}]
    /\ Starters \subseteq Buttons /\ Movers \subseteq Buttons
    /\ MessageHandling \in BOOLEAN
    /\ MaxRequests \in Nat /\ MaxItems \in Nat /\ MaxBatch \in Nat

VARIABLES
    file,           \* per file: "sent", "ready" or "failed"
    started,        \* calls of sysFactory.init
    SelectedPlayer, \* global variable of the page
    sent,           \* number of requests sent
    pending,        \* requests not answered yet
    made,           \* number of items made
    item,           \* the items: their ID and level
    Items,          \* the indicator's items by ID, 0 none
    zIndex,         \* the indicator's next level
    listeners,      \* per level: items whose close listener its div has
    shows,          \* per level: what its div shows, NoDiv if there is none
    polling,        \* message handler: "off", "sent", "busy" or "ended"
    batch,          \* messages still to be processed
    careful,        \* environment: the habits of user and message server
    answer          \* history: the last answer or result meant for an item

boot == <<file, started>>
note == <<made, item, Items, zIndex, listeners>>
vars == <<boot, SelectedPlayer, sent, pending, note, shows, polling, batch,
          careful, answer>>

IDs        == NotifyIDs \cup {MessageID}
ItemNumber == 1 .. MaxItems
BaseLevel  == 10
Levels     == BaseLevel .. BaseLevel + MaxItems
Players    == {"1", "2"}

\* Messages by what processMsg does with them: a call or a text, a method call,
\* data for an object that does not exist, and a 'sys-indicator' with the result
\* for the notification that its notify-id names.
ResultTypes == {"ok", "error"}
Messages    == [type : {"net-phone", "net-text", "method", "set-data-unknown"},
                id : {MessageID}]
                   \cup [type : ResultTypes, id : IDs]

NoDiv           == [kind |-> "none", id |-> NoID]
Waiting         == [kind |-> "waiting", id |-> NoID]
Result(kind, id) == [kind |-> kind, id |-> id]
Exists(l)       == shows[l] # NoDiv
Ready(f)        == file[f] = "ready"
Idle            == batch = <<>>

\* The items that the user can still see and close.
Open == {i \in 1 .. made : i \in listeners[item[i].level]}

\* A request and, as history, the item made for it.
Request == [n : 1 .. MaxRequests, button : Buttons, player : Players \cup {"none"},
            item : 0 .. MaxItems]

Init ==
    /\ file = [f \in Files |-> "sent"]
    /\ started = 0
    /\ SelectedPlayer = "1"
    /\ sent = 0 /\ pending = {}
    /\ made = 0
    /\ item = [i \in ItemNumber |-> [id |-> NoID, level |-> 0]]
    /\ Items = [id \in IDs |-> 0]
    /\ zIndex = BaseLevel
    /\ listeners = [l \in Levels |-> {}]
    /\ shows = [l \in Levels |-> NoDiv]
    /\ polling = "off" /\ batch = <<>>
    /\ careful \in BOOLEAN
    /\ answer = [i \in ItemNumber |-> "none"]

-----------------------------------------------------------------------------
(* Start. *)

\* checkLoaded.  Mutants: it counts the files that have not failed; it waits
\* for one file more.
NoneFailed == \A f \in Files : file'[f] # "failed"
OneMore    == Cardinality({f \in Files : file'[f] = "ready"}) > Cardinality(Files)
AllReady   == \A f \in Files : file'[f] = "ready"

\* Of sysFactory.init, what this module has: the call and the first getMsg.
FileArrives(f) ==
    /\ file[f] = "sent"
    /\ file' = [file EXCEPT ![f] = "ready"]
    /\ started' = IF AllReady THEN started + 1 ELSE started
    /\ polling' = IF AllReady /\ MessageHandling THEN "sent" ELSE polling
    /\ UNCHANGED <<SelectedPlayer, sent, pending, note, shows, batch, careful, answer>>

\* Another status than 200, or a file that does not parse: no callback.
FileFails(f) ==
    /\ file[f] = "sent"
    /\ file' = [file EXCEPT ![f] = "failed"]
    /\ UNCHANGED <<started, SelectedPlayer, sent, pending, note, shows, polling,
                   batch, careful, answer>>

-----------------------------------------------------------------------------
(* Notifications. *)

\* addMsgItem.  Mutant: the item is named once.
NextLevel == zIndex + 1
NamedOnce(id) == IF Items[id] = 0 THEN [Items EXCEPT ![id] = made + 1] ELSE Items
NamedLast(id) == [Items EXCEPT ![id] = made + 1]

AddMsgItem(id) ==
    /\ made < MaxItems
    /\ made' = made + 1
    /\ item' = [item EXCEPT ![made + 1] = [id |-> id, level |-> zIndex]]
    /\ Items' = NamedLast(id)
    /\ listeners' = [listeners EXCEPT ![zIndex] = @ \cup {made + 1}]
    /\ zIndex' = NextLevel

\* What the div at the new item's level shows once the item is rendered.
Rendered == IF Exists(zIndex) THEN shows[zIndex] ELSE Waiting

\* The text of an item goes to the div that has the ID of its own, if any.
ShowIn(i, kind) ==
    LET l == item[i].level
    IN  shows' = IF Exists(l) THEN [shows EXCEPT ![l] = Result(kind, item[i].id)]
                              ELSE shows

\* close of every item that listens to the div: the first removes it, each
\* counts the level down.  Mutant: only the one that removes it does.
DownOne(l) == zIndex - 1
DownAll(l) == zIndex - Cardinality(listeners[l])

\* A careful user closes the topmost notification only, and not before its
\* request is answered (or lost).
MayClose(l) ==
    careful => /\ l = zIndex - 1
               /\ \A r \in pending : r.item \notin listeners[l]

Close(l) ==
    /\ Idle
    /\ Exists(l)
    /\ MayClose(l)
    /\ shows' = [shows EXCEPT ![l] = NoDiv]
    /\ listeners' = [listeners EXCEPT ![l] = {}]
    /\ zIndex' = DownAll(l)
    /\ UNCHANGED <<boot, SelectedPlayer, sent, pending, made, item, Items, polling,
                   batch, careful, answer>>

-----------------------------------------------------------------------------
(* Buttons and requests. *)

\* A careful user does not repeat a command before it is answered (or lost).
MayClick(b) ==
    careful /\ Notify[b] # NoID =>
        \A r \in pending : Notify[r.button] # Notify[b]

\* EventListenerClick: the action, the source data, the notification, the
\* request.  A button without Notify raises an error that is caught.
PlayerAfter(b) == IF b \in Starters THEN "2" ELSE SelectedPlayer
Payload(b)     == IF b \in Movers THEN PlayerAfter(b) ELSE "none"

Click(b) ==
    /\ started > 0 /\ Idle /\ sent < MaxRequests
    /\ MayClick(b)
    /\ SelectedPlayer' = PlayerAfter(b)
    /\ sent' = sent + 1
    /\ \/ /\ Notify[b] # NoID
          /\ AddMsgItem(Notify[b])
          /\ shows' = [shows EXCEPT ![zIndex] = Rendered]
          /\ pending' = pending \cup
                {[n |-> sent + 1, button |-> b, player |-> Payload(b),
                  item |-> made + 1]}
       \/ /\ Notify[b] = NoID
          /\ pending' = pending \cup
                {[n |-> sent + 1, button |-> b, player |-> Payload(b),
                  item |-> 0]}
          /\ UNCHANGED <<note, shows>>
    /\ UNCHANGED <<boot, polling, batch, careful, answer>>

\* A 200 answer with (error) or without (ok) an error code in it: callback,
\* processMsg sys-indicator, processResult.
Answer(r, kind) ==
    /\ Idle
    /\ pending' = pending \ {r}
    /\ \/ /\ Notify[r.button] # NoID
          /\ ShowIn(Items[Notify[r.button]], kind)
          /\ answer' = [answer EXCEPT ![r.item] = kind]
       \/ /\ Notify[r.button] = NoID
          /\ UNCHANGED <<shows, answer>>
    /\ UNCHANGED <<boot, SelectedPlayer, sent, note, polling, batch, careful>>

\* Any other answer, or none: nothing happens on the page.
Lost(r) ==
    /\ Idle
    /\ pending' = pending \ {r}
    /\ UNCHANGED <<boot, SelectedPlayer, sent, note, shows, polling, batch, careful,
                   answer>>

-----------------------------------------------------------------------------
(* Messages. *)

Batches == UNION {[1 .. k -> Messages] : k \in 1 .. MaxBatch}

\* A message server that goes with a careful user sends no result for a
\* notification that has been closed.
MaySend(m) ==
    careful /\ m.type \in ResultTypes => Items[m.id] = 0 \/ Items[m.id] \in Open

PollAnswered(ms) ==
    /\ polling = "sent"
    /\ made + Len(ms) <= MaxItems
    /\ \A k \in 1 .. Len(ms) : MaySend(ms[k])
    /\ polling' = "busy"
    /\ batch' = ms
    /\ UNCHANGED <<boot, SelectedPlayer, sent, pending, note, shows, careful, answer>>

\* There is no callback, so there is no next poll.
PollFails ==
    /\ polling = "sent"
    /\ polling' = "ended"
    /\ UNCHANGED <<boot, SelectedPlayer, sent, pending, note, shows, batch, careful,
                   answer>>

\* getMsg once the batch is done.  Mutant: not if an error ended the batch.
NextPollOnSuccess(rest, error) ==
    IF rest # <<>> THEN "busy" ELSE IF error THEN "ended" ELSE "sent"
NextPoll(rest, error) == IF rest # <<>> THEN "busy" ELSE "sent"

\* A call or a text is shown at once; a method call gets an item that goes on
\* waiting.
ProcessMsg ==
    /\ batch # <<>>
    /\ Head(batch).type \in {"net-phone", "net-text", "method"}
    /\ AddMsgItem(MessageID)
    /\ shows' = [shows EXCEPT ![zIndex] =
                    IF Head(batch).type = "method" THEN Rendered
                                                   ELSE Result("message", MessageID)]
    /\ batch' = Tail(batch)
    /\ polling' = NextPoll(batch', FALSE)
    /\ UNCHANGED <<boot, SelectedPlayer, sent, pending, careful, answer>>

\* A result goes to the item that its notify-id names, if one was ever made,
\* whether or not that item's own request is answered.
IndicatorMsg ==
    /\ batch # <<>>
    /\ Head(batch).type \in ResultTypes
    /\ \/ /\ Items[Head(batch).id] # 0
          /\ ShowIn(Items[Head(batch).id], Head(batch).type)
          /\ answer' = [answer EXCEPT ![Items[Head(batch).id]] = Head(batch).type]
       \/ /\ Items[Head(batch).id] = 0
          /\ UNCHANGED <<shows, answer>>
    /\ batch' = Tail(batch)
    /\ polling' = NextPoll(batch', FALSE)
    /\ UNCHANGED <<boot, SelectedPlayer, sent, pending, note, careful>>

\* Data for an object that does not exist: the error ends the batch.
MsgError ==
    /\ batch # <<>>
    /\ Head(batch).type = "set-data-unknown"
    /\ batch' = <<>>
    /\ polling' = NextPoll(batch', TRUE)
    /\ UNCHANGED <<boot, SelectedPlayer, sent, pending, note, shows, careful, answer>>

-----------------------------------------------------------------------------
Loading == \E f \in Files : FileArrives(f) \/ FileFails(f)
Handling == ProcessMsg \/ IndicatorMsg \/ MsgError

Next ==
    \/ Loading
    \/ \E l \in Levels : Close(l)
    \/ \E b \in Buttons : Click(b)
    \/ \E r \in pending : Lost(r) \/ \E kind \in {"ok", "error"} : Answer(r, kind)
    \/ \E ms \in Batches : PollAnswered(ms)
    \/ PollFails
    \/ Handling

\* A request for a file ends some way, and a callback runs to its end.
Spec == Init /\ [][Next]_vars /\ WF_vars(Loading) /\ WF_vars(Handling)

-----------------------------------------------------------------------------
(* Properties. *)

Texts == {NoDiv, Waiting} \cup [kind : {"ok", "error", "message"}, id : IDs]

\* The type invariant.
TypeOK ==
    /\ file \in [Files -> {"sent", "ready", "failed"}]
    /\ started \in 0 .. 1
    /\ SelectedPlayer \in Players
    /\ sent \in 0 .. MaxRequests
    /\ pending \subseteq Request
    /\ made \in 0 .. MaxItems
    /\ item \in [ItemNumber -> [id : IDs \cup {NoID}, level : Levels \cup {0}]]
    /\ Items \in [IDs -> 0 .. MaxItems]
    /\ zIndex \in Levels
    /\ listeners \in [Levels -> SUBSET ItemNumber]
    /\ shows \in [Levels -> Texts]
    /\ polling \in {"off", "sent", "busy", "ended"}
    /\ batch \in Seq(Messages) /\ Len(batch) <= MaxBatch
    /\ careful \in BOOLEAN
    /\ answer \in [ItemNumber -> {"none", "ok", "error"}]

\* The level at which the next notification goes, and from which its name is
\* made, is always the number of open notifications above the first, however
\* they have been closed and shared.
LevelCountsOpen == zIndex = BaseLevel + Cardinality(Open)

\* For a careful user and message server each open notification has a div of its
\* own, which shows the answer to its own request or the result a message has
\* for it, the last that came, and waits until one comes.
\* (A button's notification; what a message shows is its own text.)
Awaited(i) == answer[i] = "none"
ShowsOwnAnswer ==
    careful => \A i \in Open :
        /\ listeners[item[i].level] = {i}
        /\ item[i].id # MessageID =>
             shows[item[i].level] = IF Awaited(i) THEN Waiting
                                    ELSE Result(answer[i], item[i].id)

\* The page starts unless a file fails, and only with all of its files.
StartsComplete == started = 1 => \A f \in Files : Ready(f)
PageStarts == <>(started = 1 \/ \E f \in Files : file[f] = "failed")

\* After each batch, also one that an error cut short, the page polls again.
PollingGoesOn == polling = "busy" ~> polling = "sent"
=============================================================================
