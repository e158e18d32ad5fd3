------------------------------ MODULE ASServer ------------------------------
(***************************************************************************)
(* The HTTP application server: the loop of Server.cpp, ClientHandler.cpp, *)
(* Client.cpp and ASRequestHandler.cpp in one task, the request branch of  *)
(* app_main in another, and the browsers at the far end of the sockets.    *)
(*                                                                         *)
(* A connection is a member of Conns and is opened at most once.  The      *)
(* queue of parsed requests of a client is the stretch done+1 .. rcvd of   *)
(* what its browser has sent; Requests->at(0) is number done+1.  Bytes     *)
(* still on the way are requests not yet sent, so a read that returns      *)
(* early (EINTR, half a request) is a browser that sends later.            *)
(***************************************************************************)
EXTENDS Naturals, Sequences, FiniteSets

CONSTANTS Conns,        \* the connections browsers may open
          RequestKinds, \* the requests they may send, [URL, HTTPMethod]
          Files,        \* the URLs of the static file system
          MaxRequests,  \* bound: requests of each connection
          MaxWrites,    \* bound: write() calls one response may need
          None          \* no connection, no request

ASSUME ServerAssumption ==
    /\ \A r \in RequestKinds : DOMAIN r = {"URL", "HTTPMethod"}
    /\ MaxRequests \in [Conns -> Nat]
    /\ MaxWrites \in Nat \ {0}
    /\ None \notin Conns
    /\ None \notin Conns \X (Nat \ {0})

VARIABLES
    peer,             \* per connection: "none", "open" or "closed" by the browser
    backlog,          \* connections the kernel holds for accept()
    Clients,          \* keys of the map of ClientHandler
    sent,             \* per connection: the requests the browser has sent
    rcvd,             \* per connection: how many of them are parsed
    done,             \* per connection: how many are answered and erased
    writesLeft,       \* per connection: writes left, 0 is SEND_STATE_IDLE
    log,              \* history: the responses generated per connection
    hpc, cur,         \* HTTP thread: where it is, client it processes
    toVisit,          \* HTTP thread: clients this pass has still to visit
    EraseFDs,         \* HTTP thread: clients to remove at the end of the pass
    ASRequestStatus,  \* shared
    ASRequestID,      \* shared
    ASRequestBuffer,  \* shared: request whose payload and length are stored
    mpc, mainID,      \* main loop: where it is, the ID it branched on
    executed          \* history: what the main loop executed

network == <<peer, backlog, sent>>
http    == <<Clients, rcvd, done, writesLeft, log, hpc, cur, toVisit, EraseFDs>>
shared  == <<ASRequestStatus, ASRequestID, ASRequestBuffer>>
main    == <<mpc, mainID, executed>>
vars    == <<network, http, shared, main>>

-----------------------------------------------------------------------------
(* ASRequestDef.hpp *)
ASRequestDefinitions ==
    { [ID |-> "GAME_START",  URL |-> "/python/startgame",  HTTPMethod |-> "GET"],
      [ID |-> "GAME_STOP",   URL |-> "/python/stopgame",   HTTPMethod |-> "GET"],
      [ID |-> "PADDLE_UP",   URL |-> "/python/paddleup",   HTTPMethod |-> "POST"],
      [ID |-> "PADDLE_DOWN", URL |-> "/python/paddledown", HTTPMethod |-> "POST"] }

ASRequestIDs == { d.ID : d \in ASRequestDefinitions }

\* The definitions that a request matches.
Matching(r) == { d \in ASRequestDefinitions :
                     d.URL = r.URL /\ d.HTTPMethod = r.HTTPMethod }

\* A request is known by its connection and its number on it.
ReqNames == Conns \X (Nat \ {0})
Named(q) == sent[q[1]][q[2]]

\* Requests->at(0).  Mutant: the queue is served from its back.
HeadReqLast(c) == <<c, rcvd[c] - done[c]>>
HeadReq(c) == <<c, done[c] + 1>>

\* What the client generates: an AS result (of the latest execution), a
\* static file, or the 404 page.
ASResult(n)   == [kind |-> "as", run |-> n]
StaticFor(r)  == IF r.URL \in Files THEN [kind |-> "file", URL |-> r.URL]
                                    ELSE [kind |-> "404"]

Init ==
    /\ peer = [c \in Conns |-> "none"]
    /\ backlog = {}
    /\ Clients = {}
    /\ sent = [c \in Conns |-> <<>>]
    /\ rcvd = [c \in Conns |-> 0]
    /\ done = [c \in Conns |-> 0]
    /\ writesLeft = [c \in Conns |-> 0]
    /\ log = [c \in Conns |-> <<>>]
    /\ hpc = "poll"
    /\ cur = None
    /\ toVisit = {}
    /\ EraseFDs = {}
    /\ ASRequestStatus = "WAIT_IN"
    /\ ASRequestID = "NONE"
    /\ ASRequestBuffer = None
    /\ mpc = "loop"
    /\ mainID = "NONE"
    /\ executed = <<>>

-----------------------------------------------------------------------------
(* The browsers. *)
Connect(c) ==
    /\ peer[c] = "none"
    /\ peer' = [peer EXCEPT ![c] = "open"]
    /\ backlog' = backlog \cup {c}
    /\ UNCHANGED <<sent, http, shared, main>>

SendRequest(c, r) ==
    /\ peer[c] = "open"
    /\ Len(sent[c]) < MaxRequests[c]
    /\ sent' = [sent EXCEPT ![c] = Append(@, r)]
    /\ UNCHANGED <<peer, backlog, http, shared, main>>

Disconnect(c) ==
    /\ peer[c] = "open"
    /\ peer' = [peer EXCEPT ![c] = "closed"]
    /\ UNCHANGED <<backlog, sent, http, shared, main>>

-----------------------------------------------------------------------------
(* The HTTP thread. *)

\* accept() returns -1 for a connection that was reset while it waited; only a
\* positive FD is added.  Mutant: the -1 becomes a client as well.
AddsMinusOne == Clients' = Clients \cup {None}
AcceptFailed == UNCHANGED Clients

\* One turn of Server::ServerLoop up to the loop over the clients: at most one
\* connection is accepted and added.
Poll ==
    /\ hpc = "poll"
    /\ \/ \E c \in backlog :
              /\ backlog' = backlog \ {c}
              /\ \/ Clients' = Clients \cup {c}
                 \/ peer[c] = "closed" /\ AcceptFailed
       \/ backlog = {} /\ UNCHANGED <<backlog, Clients>>
    /\ toVisit' = Clients'
    /\ hpc' = "next"
    /\ UNCHANGED <<peer, sent, rcvd, done, writesLeft, log, cur,
                   EraseFDs, shared, main>>

\* EraseFDs.insert.  Mutant: the client is never marked.
NotMarked(c) == UNCHANGED EraseFDs
Mark(c) == EraseFDs' = EraseFDs \cup {c}

\* Client::receiveData and the test of the queue.  A browser that has closed
\* shows as end of file after its data, or as a reset that loses some of it;
\* the client is then marked, but processed all the same in this pass.
Receive(c) ==
    /\ hpc = "next"
    /\ c \in toVisit
    /\ toVisit' = toVisit \ {c}
    /\ \/ /\ peer[c] = "open"
          /\ rcvd' = [rcvd EXCEPT ![c] = Len(sent[c])]
          /\ UNCHANGED EraseFDs
       \/ /\ peer[c] = "closed"
          /\ \E n \in rcvd[c] .. Len(sent[c]) : rcvd' = [rcvd EXCEPT ![c] = n]
          /\ Mark(c)
    /\ IF done[c] < rcvd'[c] THEN hpc' = "init" /\ cur' = c
                             ELSE UNCHANGED <<hpc, cur>>
    /\ UNCHANGED <<network, Clients, done, writesLeft, log, shared, main>>

\* ASRequestHandler::ASRequestInit: the first matching definition; the status
\* is written last, so the main loop sees ID and payload together.
ASRequestInit(q) ==
    \E d \in Matching(Named(q)) :
        /\ ASRequestID' = d.ID
        /\ ASRequestBuffer' = q
        /\ ASRequestStatus' = "PROCESSING"

\* Is the mailbox free?  Mutant: the test is missing.
MailboxAlwaysOpen == TRUE
MailboxOpen == ASRequestStatus = "WAIT_IN"

\* The test for a MicroPython request: made for every client with a queued
\* request, in whatever send state that client is.
CheckASRequest ==
    /\ hpc = "init"
    /\ IF MailboxOpen /\ Matching(Named(HeadReq(cur))) # {}
       THEN ASRequestInit(HeadReq(cur))
       ELSE UNCHANGED shared
    /\ hpc' = "dispatch"
    /\ UNCHANGED <<network, Clients, rcvd, done, writesLeft, log, cur, toVisit,
                   EraseFDs, main>>

\* Generate a response for the client at hand and set SEND_STATE_SENDING.
Generate(response) ==
    /\ log' = [log EXCEPT ![cur] = Append(@, response)]
    /\ writesLeft' = [writesLeft EXCEPT ![cur] = MaxWrites]

\* On to the next client of the pass.
LeaveVisit == hpc' = "next" /\ cur' = None

\* "reset AS status to wait incoming".  Mutant: it is not reset.
StatusNotReset == UNCHANGED ASRequestStatus
ResetStatus == ASRequestStatus' = "WAIT_IN"

\* SEND_STATE_IDLE: the result of the main loop goes to this client.
AnswerAS ==
    /\ hpc = "dispatch"
    /\ writesLeft[cur] = 0
    /\ ASRequestStatus = "PROCESSED"
    /\ Generate(ASResult(Len(executed)))
    /\ ResetStatus
    /\ LeaveVisit
    /\ UNCHANGED <<network, Clients, rcvd, done, toVisit, EraseFDs,
                   ASRequestID, ASRequestBuffer, main>>

\* SEND_STATE_IDLE and no result: a GET is answered from the file system.
AnswerStatic ==
    /\ hpc = "dispatch"
    /\ writesLeft[cur] = 0
    /\ ASRequestStatus # "PROCESSED"
    /\ Named(HeadReq(cur)).HTTPMethod = "GET"
    /\ Generate(StaticFor(Named(HeadReq(cur))))
    /\ LeaveVisit
    /\ UNCHANGED <<network, Clients, rcvd, done, toVisit, EraseFDs,
                   shared, main>>

\* SEND_STATE_IDLE, no result, and a method other than GET: nothing yet.
LeaveQueued ==
    /\ hpc = "dispatch"
    /\ writesLeft[cur] = 0
    /\ ASRequestStatus # "PROCESSED"
    /\ Named(HeadReq(cur)).HTTPMethod # "GET"
    /\ LeaveVisit
    /\ UNCHANGED <<network, Clients, rcvd, done, writesLeft, log, toVisit,
                   EraseFDs, shared, main>>

\* What may still be unsent after a write that takes some bytes.  Mutant: a
\* partial write is forgotten and the response sent from its start again.
UnsentForgotten(c) == {0, writesLeft[c]}
UnsentAfterWrite(c) == 0 .. (writesLeft[c] - 1)

\* SEND_STATE_SENDING: a write that takes some bytes.  When they were the last,
\* the generator is reset and the request leaves the queue.
Write(c) ==
    /\ hpc = "dispatch"
    /\ cur = c
    /\ writesLeft[c] > 0
    /\ \E left \in UnsentAfterWrite(c) :
          /\ writesLeft' = [writesLeft EXCEPT ![c] = left]
          /\ done' = [done EXCEPT ![c] = IF left = 0 THEN @ + 1 ELSE @]
    /\ LeaveVisit
    /\ UNCHANGED <<network, Clients, rcvd, log, toVisit, EraseFDs, shared,
                   main>>

\* SEND_STATE_SENDING: EAGAIN (or no byte taken) leaves everything as it is;
\* any other error, possible once the browser has closed, marks the client.
WriteFails ==
    /\ hpc = "dispatch"
    /\ writesLeft[cur] > 0
    /\ \/ UNCHANGED EraseFDs
       \/ peer[cur] = "closed" /\ Mark(cur)
    /\ LeaveVisit
    /\ UNCHANGED <<network, Clients, rcvd, done, writesLeft, log, toVisit,
                   shared, main>>

\* The end of processClients: marked clients are dropped and their FDs closed.
EndPass ==
    /\ hpc = "next"
    /\ toVisit = {}
    /\ Clients' = Clients \ EraseFDs
    /\ EraseFDs' = {}
    /\ hpc' = "poll"
    /\ UNCHANGED <<network, rcvd, done, writesLeft, log, cur, toVisit, shared,
                   main>>

HTTPNext ==
    \/ Poll
    \/ \E c \in Conns : Receive(c) \/ Write(c)
    \/ CheckASRequest
    \/ AnswerAS \/ AnswerStatic \/ LeaveQueued
    \/ WriteFails
    \/ EndPass

-----------------------------------------------------------------------------
(* The main loop, in a task of its own. *)

\* The main loop's test of the status.  Mutant: it waits for the wrong status.
WrongPending == ASRequestStatus = "PROCESSED"
RequestPending == ASRequestStatus = "PROCESSING"

\* The loop finds a request and branches on its ID ...
MainBranch ==
    /\ mpc = "loop"
    /\ RequestPending
    /\ mainID' = ASRequestID
    /\ mpc' = "run"
    /\ UNCHANGED <<network, http, shared, executed>>

\* ... and runs it on the payload in the buffer, then publishes the result.
MainExecute ==
    /\ mpc = "run"
    /\ executed' = Append(executed, [req |-> ASRequestBuffer, ID |-> mainID])
    /\ ASRequestStatus' = "PROCESSED"
    /\ mpc' = "loop"
    /\ mainID' = "NONE"
    /\ UNCHANGED <<network, http, ASRequestID, ASRequestBuffer>>

MainNext == MainBranch \/ MainExecute

-----------------------------------------------------------------------------
BrowserNext == \E c \in Conns : \/ Connect(c)
                                \/ \E r \in RequestKinds : SendRequest(c, r)
                                \/ Disconnect(c)

Next == BrowserNext \/ HTTPNext \/ MainNext

Safety == Init /\ [][Next]_vars

(***************************************************************************)
(* Both FreeRTOS tasks loop forever and block in vTaskDelay once a turn,   *)
(* so neither starves the other, whatever core they run on; and a browser  *)
(* that stays keeps reading, so a write that is tried again and again does *)
(* not return EAGAIN for ever.                                             *)
(***************************************************************************)
Fairness ==
    /\ WF_vars(HTTPNext)
    /\ WF_vars(MainNext)
    /\ \A c \in Conns : SF_vars(Write(c))

Spec == Safety /\ Fairness

-----------------------------------------------------------------------------
(* Properties. *)

Responses == [kind : {"as"}, run : Nat] \cup [kind : {"404"}]
                 \cup [kind : {"file"}, URL : Files]

\* The type invariant.
TypeOK ==
    /\ peer \in [Conns -> {"none", "open", "closed"}]
    /\ backlog \subseteq Conns
    /\ Clients \subseteq Conns
    /\ sent \in [Conns -> Seq(RequestKinds)]
    /\ rcvd \in [Conns -> Nat]
    /\ done \in [Conns -> Nat]
    /\ writesLeft \in [Conns -> Nat]
    /\ log \in [Conns -> Seq(Responses)]
    /\ hpc \in {"poll", "next", "init", "dispatch"}
    /\ cur \in Conns \cup {None}
    /\ toVisit \subseteq Conns
    /\ EraseFDs \subseteq Conns
    /\ ASRequestStatus \in {"WAIT_IN", "PROCESSING", "PROCESSED"}
    /\ ASRequestID \in ASRequestIDs \cup {"NONE"}
    /\ ASRequestBuffer \in ReqNames \cup {None}
    /\ mpc \in {"loop", "run"}
    /\ mainID \in ASRequestIDs \cup {"NONE"}
    /\ executed \in Seq([req : ReqNames \cup {None},
                         ID : ASRequestIDs \cup {"NONE"}])

\* Pipelining keeps order: the n-th response of a connection was generated for
\* its n-th request, a static one is the file that request names or the 404
\* page for a GET of no file, and only one response is under way at a time.
ResponsesInOrder ==
    \A c \in Conns :
        /\ Len(log[c]) = done[c] + (IF writesLeft[c] > 0 THEN 1 ELSE 0)
        /\ Len(log[c]) <= rcvd[c] /\ rcvd[c] <= Len(sent[c])
        /\ \A n \in 1 .. Len(log[c]) :
              \/ log[c][n].kind = "as"
              \/ /\ sent[c][n].HTTPMethod = "GET"
                 /\ log[c][n] = StaticFor(sent[c][n])

\* The result of one execution goes out at most once, to one client, and only
\* after the main loop has published it: no two responses carry the same run.
ResultSentOnce ==
    /\ \A c, d \in Conns :
         \A m \in 1 .. Len(log[c]), n \in 1 .. Len(log[d]) :
            /\ log[c][m].kind = "as"
            /\ log[d][n].kind = "as"
            /\ log[c][m].run = log[d][n].run
            => c = d /\ m = n
    /\ \A c \in Conns : \A m \in 1 .. Len(log[c]) :
         log[c][m].kind = "as"
            => /\ log[c][m].run \in 1 .. Len(executed)
               /\ log[c][m].run = Len(executed) => ASRequestStatus # "PROCESSED"

\* The two tasks never mix requests: whatever the main loop executed is one
\* request that a browser sent and the server parsed, run under the ID of a
\* definition that this very request matches.
ExecutedAsRequested ==
    \A k \in 1 .. Len(executed) :
        LET q == executed[k].req IN
        /\ q \in ReqNames
        /\ q[2] <= rcvd[q[1]]
        /\ \E d \in Matching(Named(q)) : d.ID = executed[k].ID

\* The commands of one connection are executed in the order they were sent;
\* one may be repeated, but an earlier one never follows a later one.
CommandsInOrder ==
    \A j, k \in 1 .. Len(executed) :
        j < k /\ executed[j].req[1] = executed[k].req[1]
            => executed[j].req[2] <= executed[k].req[2]

\* The globals implement the one-slot mailbox: each command put is executed
\* once, in order, and its result is taken before the next is put; in between
\* the HTTP thread never overwrites what the main loop may be reading.
Mailbox == INSTANCE ASMailbox WITH
    Commands <- [req : ReqNames, ID : ASRequestIDs],
    phase <- ASRequestStatus,
    slot <- [req |-> ASRequestBuffer, ID |-> ASRequestID],
    executed <- executed

MailboxSafety == Mailbox!Safety
MailboxSpec == Mailbox!Spec

\* Every known request is answered, POST or GET, while its browser stays.
KnownAnswered ==
    \A c \in Conns : \A n \in 1 .. MaxRequests[c] :
        (/\ n <= Len(sent[c])
         /\ \A i \in 1 .. n : sent[c][i].HTTPMethod = "GET" \/ Matching(sent[c][i]) # {})
            ~> (done[c] >= n \/ peer[c] = "closed")

\* A client whose browser has gone is dropped from the map and its FD closed.
ClosedReleased ==
    \A c \in Conns : (c \in Clients /\ peer[c] = "closed") ~> c \notin Clients

-----------------------------------------------------------------------------
(* What the repository says and the code does not do. *)

\* "On an HTTP POST request with a JSON payload, it executes a MicroPython
\* script with that payload": when the response of a POST of a defined URL is out
\* and its request erased, it has been executed, or is in the mailbox for the
\* main loop to execute.
AnsweredPostExecuted ==
    \A c \in Conns : \A n \in 1 .. done[c] :
        sent[c][n].HTTPMethod = "POST" /\ Matching(sent[c][n]) # {}
            => \/ \E k \in 1 .. Len(executed) : executed[k].req = <<c, n>>
               \/ ASRequestBuffer = <<c, n>> /\ ASRequestStatus = "PROCESSING"
=============================================================================
