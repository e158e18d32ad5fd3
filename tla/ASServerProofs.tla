--------------------------- MODULE ASServerProofs ---------------------------
(***************************************************************************)
(* Proofs about ASServer, for every set of connections, every set of       *)
(* request kinds and files, and every bound.                               *)
(***************************************************************************)
EXTENDS ASServer, SequenceTheorems, TLAPS

-----------------------------------------------------------------------------
(* The IDs and the fields of the definitions. *)
LEMMA MatchingIDs ==
    ASSUME NEW r, NEW d \in Matching(r)
    PROVE  d.ID \in ASRequestIDs
  BY DEF Matching, ASRequestIDs

LEMMA HeadIsName ==
    ASSUME TypeOK, NEW c \in Conns
    PROVE  /\ HeadReq(c) \in ReqNames
           /\ HeadReq(c)[1] = c
           /\ HeadReq(c)[2] = done[c] + 1
  BY DEF TypeOK, HeadReq, ReqNames

-----------------------------------------------------------------------------
(* Where the HTTP thread is: inside a visit it holds a connection with a   *)
(* queued request, outside a visit none.                                   *)
VisitOK ==
    IF hpc \in {"init", "dispatch"}
    THEN cur \in Conns /\ done[cur] < rcvd[cur]
    ELSE cur = None

\* The counters of a connection agree with its log.
CountsOK ==
    \A c \in Conns :
        /\ Len(log[c]) = done[c] + (IF writesLeft[c] > 0 THEN 1 ELSE 0)
        /\ Len(log[c]) <= rcvd[c]
        /\ rcvd[c] <= Len(sent[c])

Base == TypeOK /\ VisitOK /\ CountsOK

LEMMA BaseInit == Init => Base
  <1> SUFFICES ASSUME Init PROVE Base
    OBVIOUS
  <1> USE ServerAssumption DEF Init
  <1>1. TypeOK
    BY DEF TypeOK
  <1>2. VisitOK
    BY DEF VisitOK
  <1>3. CountsOK
    BY DEF CountsOK
  <1> QED BY <1>1, <1>2, <1>3 DEF Base

\* A queued request is one the browser has sent.
LEMMA HeadSent ==
    ASSUME Base, NEW c \in Conns, done[c] < rcvd[c]
    PROVE  /\ done[c] + 1 \in 1 .. Len(sent[c])
           /\ Named(HeadReq(c)) = sent[c][done[c] + 1]
           /\ Named(HeadReq(c)) \in RequestKinds
  <1>1. done[c] \in Nat /\ rcvd[c] \in Nat /\ sent[c] \in Seq(RequestKinds)
    BY DEF Base, TypeOK
  <1>2. rcvd[c] <= Len(sent[c])
    BY DEF Base, CountsOK
  <1>3. done[c] + 1 \in 1 .. Len(sent[c])
    BY <1>1, <1>2
  <1>4. Named(HeadReq(c)) = sent[c][done[c] + 1]
    BY DEF Named, HeadReq
  <1> QED BY <1>1, <1>3, <1>4

LEMMA BaseStep == Base /\ [Next]_vars => Base'
  <1> SUFFICES ASSUME Base, [Next]_vars PROVE Base'
    OBVIOUS
  <1> USE ServerAssumption DEF Base, network, http, shared, main
  <1>1. CASE UNCHANGED vars
    BY <1>1 DEF vars, TypeOK, VisitOK, CountsOK
  <1>2. ASSUME NEW c \in Conns, Connect(c) PROVE Base'
    BY <1>2 DEF Connect, TypeOK, VisitOK, CountsOK
  <1>3. ASSUME NEW c \in Conns, NEW r \in RequestKinds, SendRequest(c, r)
        PROVE Base'
    <2>1. /\ sent' \in [Conns -> Seq(RequestKinds)]
          /\ \A d \in Conns : Len(sent'[d]) \in Nat /\ Len(sent[d]) <= Len(sent'[d])
      BY <1>3, AppendProperties, LenProperties DEF SendRequest, TypeOK
    <2>2. TypeOK'
      BY <1>3, <2>1 DEF SendRequest, TypeOK
    <2>3. VisitOK'
      BY <1>3 DEF SendRequest, VisitOK
    <2>4. CountsOK'
      <3> SUFFICES ASSUME NEW d \in Conns PROVE rcvd[d] <= Len(sent'[d])
        BY <1>3 DEF SendRequest, CountsOK
      <3>1. rcvd[d] \in Nat /\ Len(sent[d]) \in Nat
        BY LenProperties DEF TypeOK
      <3> QED BY <3>1, <2>1 DEF CountsOK
    <2> QED BY <2>2, <2>3, <2>4
  <1>4. ASSUME NEW c \in Conns, Disconnect(c) PROVE Base'
    BY <1>4 DEF Disconnect, TypeOK, VisitOK, CountsOK
  <1>5. CASE Poll
    BY <1>5 DEF Poll, AcceptFailed, TypeOK, VisitOK, CountsOK
  <1>6. ASSUME NEW c \in Conns, Receive(c) PROVE Base'
    <2>1. /\ rcvd' \in [Conns -> Nat]
          /\ \A d \in Conns : rcvd[d] <= rcvd'[d] /\ rcvd'[d] <= Len(sent[d])
      <3>1. Len(sent[c]) \in Nat /\ rcvd[c] \in Nat /\ rcvd[c] <= Len(sent[c])
        BY LenProperties DEF TypeOK, CountsOK
      <3>2. CASE rcvd' = [rcvd EXCEPT ![c] = Len(sent[c])]
        BY <3>1, <3>2 DEF TypeOK, CountsOK
      <3>3. CASE \E n \in rcvd[c] .. Len(sent[c]) : rcvd' = [rcvd EXCEPT ![c] = n]
        <4> PICK n \in rcvd[c] .. Len(sent[c]) : rcvd' = [rcvd EXCEPT ![c] = n]
          BY <3>3
        <4> QED BY <3>1 DEF TypeOK, CountsOK
      <3> QED BY <1>6, <3>2, <3>3 DEF Receive
    <2>2. TypeOK'
      BY <1>6, <2>1 DEF Receive, Mark, TypeOK
    <2>3. VisitOK'
      BY <1>6, <2>1 DEF Receive, VisitOK, TypeOK
    <2>4. CountsOK'
      <3> SUFFICES ASSUME NEW d \in Conns PROVE Len(log[d]) <= rcvd'[d]
        BY <1>6, <2>1 DEF Receive, CountsOK
      <3>1. Len(log[d]) \in Nat /\ rcvd[d] \in Nat /\ rcvd'[d] \in Nat
        BY <2>1, LenProperties DEF TypeOK
      <3> QED BY <3>1, <2>1 DEF CountsOK
    <2> QED BY <2>2, <2>3, <2>4
  <1>7. CASE CheckASRequest
    <2>1. cur \in Conns /\ done[cur] < rcvd[cur]
      BY <1>7 DEF CheckASRequest, VisitOK
    <2>2. HeadReq(cur) \in ReqNames
      BY <2>1, HeadIsName
    <2>3. CASE UNCHANGED shared
      BY <1>7, <2>3, <2>1 DEF CheckASRequest, TypeOK, VisitOK, CountsOK
    <2>4. CASE ASRequestInit(HeadReq(cur))
      <3>1. /\ ASRequestID' \in ASRequestIDs
            /\ ASRequestBuffer' \in ReqNames
            /\ ASRequestStatus' = "PROCESSING"
        BY <2>2, <2>4, MatchingIDs DEF ASRequestInit
      <3> QED BY <1>7, <3>1, <2>1 DEF CheckASRequest, TypeOK, VisitOK, CountsOK
    <2> QED BY <1>7, <2>3, <2>4 DEF CheckASRequest
  <1>8. ASSUME NEW response \in Responses,
               hpc = "dispatch", writesLeft[cur] = 0,
               Generate(response), LeaveVisit,
               UNCHANGED <<network, Clients, rcvd, done, toVisit, EraseFDs,
                           ASRequestID, ASRequestBuffer, main>>,
               ASRequestStatus' \in {"WAIT_IN", ASRequestStatus}
        PROVE  Base'
    <2>1. cur \in Conns /\ done[cur] < rcvd[cur]
      BY <1>8 DEF VisitOK
    <2>2. /\ log' \in [Conns -> Seq(Responses)]
          /\ Len(log'[cur]) = Len(log[cur]) + 1
          /\ \A d \in Conns \ {cur} : log'[d] = log[d]
      BY <1>8, <2>1, AppendProperties DEF Generate, TypeOK
    <2>3. TypeOK'
      BY <1>8, <2>2 DEF Generate, LeaveVisit, TypeOK
    <2>4. VisitOK'
      BY <1>8 DEF LeaveVisit, VisitOK
    <2>5. CountsOK'
      <3> SUFFICES ASSUME NEW d \in Conns
                   PROVE  /\ Len(log'[d]) = done[d] + (IF writesLeft'[d] > 0 THEN 1 ELSE 0)
                          /\ Len(log'[d]) <= rcvd[d]
        BY <1>8 DEF CountsOK
      <3>1. rcvd[d] \in Nat /\ done[d] \in Nat /\ writesLeft[d] \in Nat
        BY DEF TypeOK
      <3>2. CASE d # cur
        BY <1>8, <2>1, <2>2, <3>2 DEF Generate, CountsOK, TypeOK
      <3>3. CASE d = cur
        BY <1>8, <2>1, <2>2, <3>1, <3>3 DEF Generate, CountsOK, TypeOK
      <3> QED BY <3>2, <3>3
    <2> QED BY <2>3, <2>4, <2>5
  <1>9. CASE AnswerAS
    <2>1. ASResult(Len(executed)) \in Responses
      BY LenProperties DEF ASResult, Responses, TypeOK
    <2> QED BY <1>8, <1>9, <2>1 DEF AnswerAS, ResetStatus
  <1>10. CASE AnswerStatic
    <2>1. StaticFor(Named(HeadReq(cur))) \in Responses
      BY DEF StaticFor, Responses
    <2> QED BY <1>8, <1>10, <2>1 DEF AnswerStatic
  <1>11. CASE LeaveQueued
    BY <1>11 DEF LeaveQueued, LeaveVisit, TypeOK, VisitOK, CountsOK
  <1>12. ASSUME NEW c \in Conns, Write(c) PROVE Base'
    <2> PICK left \in UnsentAfterWrite(c) :
              /\ writesLeft' = [writesLeft EXCEPT ![c] = left]
              /\ done' = [done EXCEPT ![c] = IF left = 0 THEN @ + 1 ELSE @]
      BY <1>12 DEF Write
    <2>1. left \in Nat
      BY DEF UnsentAfterWrite, TypeOK
    <2>2. TypeOK'
      BY <1>12, <2>1 DEF Write, LeaveVisit, TypeOK
    <2>3. VisitOK'
      BY <1>12 DEF Write, LeaveVisit, VisitOK
    <2>4. CountsOK'
      <3>1. /\ c = cur /\ done[c] < rcvd[c] /\ writesLeft[c] > 0
            /\ UNCHANGED <<log, rcvd, sent>>
        BY <1>12 DEF Write, VisitOK
      <3>2. /\ Len(log[c]) = done[c] + 1
            /\ done[c] \in Nat /\ rcvd[c] \in Nat
        BY <3>1 DEF CountsOK, TypeOK
      <3>3. Len(log[c]) = done'[c] + (IF writesLeft'[c] > 0 THEN 1 ELSE 0)
        BY <2>1, <3>2 DEF TypeOK
      <3>4. \A d \in Conns \ {c} : done'[d] = done[d] /\ writesLeft'[d] = writesLeft[d]
        OBVIOUS
      <3> QED BY <3>1, <3>3, <3>4 DEF CountsOK
    <2> QED BY <2>2, <2>3, <2>4
  <1>13. CASE WriteFails
    BY <1>13 DEF WriteFails, Mark, LeaveVisit, TypeOK, VisitOK, CountsOK
  <1>14. CASE EndPass
    BY <1>14 DEF EndPass, TypeOK, VisitOK, CountsOK
  <1>15. CASE MainBranch
    BY <1>15 DEF MainBranch, TypeOK, VisitOK, CountsOK
  <1>16. CASE MainExecute
    <2>1. executed' \in Seq([req : ReqNames \cup {None}, ID : ASRequestIDs \cup {"NONE"}])
      BY <1>16, AppendProperties DEF MainExecute, TypeOK
    <2> QED BY <1>16, <2>1 DEF MainExecute, TypeOK, VisitOK, CountsOK
  <1> QED
    BY <1>1, <1>2, <1>3, <1>4, <1>5, <1>6, <1>7, <1>9, <1>10, <1>11, <1>12,
       <1>13, <1>14, <1>15, <1>16
       DEF Next, BrowserNext, HTTPNext, MainNext

\* Type correctness: no sequence of steps of browsers, HTTP thread and main
\* loop leaves the shapes TypeOK names.
THEOREM TypeCorrect == Safety => []TypeOK
  <1>1. Init => Base
    BY BaseInit
  <1>2. Base /\ [Next]_vars => Base'
    BY BaseStep
  <1>3. Base => TypeOK
    BY DEF Base
  <1> QED BY <1>1, <1>2, <1>3, PTL DEF Safety

-----------------------------------------------------------------------------
(* The handshake between the cores.  Four kinds of step touch it: the HTTP *)
(* thread puts a request or takes a result, the main loop branches on a    *)
(* request or executes it.  Every other step leaves it alone.              *)
PutStep == /\ CheckASRequest
           /\ ASRequestStatus = "WAIT_IN"
           /\ ASRequestInit(HeadReq(cur))
           /\ cur \in Conns
           /\ done[cur] < rcvd[cur]
           /\ UNCHANGED main

LEMMA HandshakeSteps ==
    ASSUME Base, [Next]_vars
    PROVE  \/ UNCHANGED <<shared, main>>
           \/ PutStep
           \/ AnswerAS
           \/ MainBranch
           \/ MainExecute
  <1>1. CASE UNCHANGED vars
    BY <1>1 DEF vars
  <1>2. CASE BrowserNext
    BY <1>2 DEF BrowserNext, Connect, SendRequest, Disconnect
  <1>3. CASE CheckASRequest
    BY <1>3 DEF CheckASRequest, MailboxOpen, PutStep, Base, VisitOK
  <1>4. CASE Poll \/ (\E c \in Conns : Receive(c) \/ Write(c))
    BY <1>4 DEF Poll, AcceptFailed, Receive, Write
  <1>5. CASE AnswerStatic \/ LeaveQueued \/ WriteFails \/ EndPass
    BY <1>5 DEF AnswerStatic, LeaveQueued, WriteFails, EndPass
  <1> QED BY <1>1, <1>2, <1>3, <1>4, <1>5 DEF Next, HTTPNext, MainNext

\* Queues only grow at their end, and what has been sent stays sent.
LEMMA QueuesGrow ==
    ASSUME Base, [Next]_vars, NEW c \in Conns
    PROVE  /\ rcvd[c] <= rcvd'[c]
           /\ done[c] <= done'[c]
           /\ \A n \in 1 .. Len(sent[c]) : sent'[c][n] = sent[c][n]
  <1> USE DEF Base, network, http
  <1>0. /\ rcvd[c] \in Nat /\ done[c] \in Nat /\ sent[c] \in Seq(RequestKinds)
        /\ rcvd[c] <= Len(sent[c])
    BY DEF TypeOK, CountsOK
  <1>1. CASE UNCHANGED <<sent, rcvd, done>>
    BY <1>0, <1>1
  <1>2. ASSUME NEW d \in Conns, NEW r \in RequestKinds, SendRequest(d, r)
        PROVE  /\ UNCHANGED <<rcvd, done>>
               /\ \A n \in 1 .. Len(sent[c]) : sent'[c][n] = sent[c][n]
    BY <1>0, <1>2, AppendProperties DEF SendRequest, TypeOK
  <1>3. ASSUME NEW d \in Conns, Receive(d)
        PROVE  UNCHANGED <<sent, done>> /\ rcvd[c] <= rcvd'[c]
    <2>1. CASE rcvd' = [rcvd EXCEPT ![d] = Len(sent[d])]
      BY <1>0, <1>3, <2>1 DEF Receive, TypeOK
    <2>2. CASE \E n \in rcvd[d] .. Len(sent[d]) : rcvd' = [rcvd EXCEPT ![d] = n]
      <3> PICK n \in rcvd[d] .. Len(sent[d]) : rcvd' = [rcvd EXCEPT ![d] = n]
        BY <2>2
      <3> QED BY <1>0, <1>3 DEF Receive, TypeOK
    <2> QED BY <1>3, <2>1, <2>2 DEF Receive
  <1>4. ASSUME NEW d \in Conns, Write(d)
        PROVE  UNCHANGED <<sent, rcvd>> /\ done[c] <= done'[c]
    BY <1>0, <1>4 DEF Write, TypeOK
  <1>5. ASSUME NEW d \in Conns, Connect(d) \/ Disconnect(d)
        PROVE  UNCHANGED <<sent, rcvd, done>>
    BY <1>5 DEF Connect, Disconnect
  <1>6. CASE \/ UNCHANGED vars \/ Poll \/ CheckASRequest \/ AnswerAS
             \/ AnswerStatic \/ LeaveQueued \/ WriteFails \/ EndPass \/ MainNext
    BY <1>1, <1>6 DEF vars, Poll, CheckASRequest, AnswerAS, AnswerStatic, LeaveQueued,
                WriteFails, EndPass, MainNext, MainBranch, MainExecute
  <1> QED BY <1>0, <1>1, <1>2, <1>3, <1>4, <1>5, <1>6
             DEF Next, BrowserNext, HTTPNext
-----------------------------------------------------------------------------
(* The invariant of the handshake. *)

\* Request q is parsed and not behind the head of its queue, and it matches a
\* definition of this ID (R, D and S stand for rcvd, done and sent).
Legitimate(q, ID, R, D, S) ==
    /\ q \in ReqNames
    /\ q[2] <= R[q[1]]
    /\ q[2] <= D[q[1]] + 1
    /\ \E d \in Matching(S[q[1]][q[2]]) : d.ID = ID

\* While a request is in flight, the globals hold a legitimate one, and the
\* main loop, once it has branched, has branched on this one.
InFlightOK ==
    /\ ASRequestStatus = "PROCESSING" => Legitimate(ASRequestBuffer, ASRequestID, rcvd, done, sent)
    /\ mpc = "run" => ASRequestStatus = "PROCESSING" /\ mainID = ASRequestID

\* So was everything that has been executed, and nothing in flight precedes it.
ExecutedOK ==
    \A k \in 1 .. Len(executed) :
        /\ Legitimate(executed[k].req, executed[k].ID, rcvd, done, sent)
        /\ ASRequestStatus = "PROCESSING" /\ executed[k].req[1] = ASRequestBuffer[1]
               => executed[k].req[2] <= ASRequestBuffer[2]

Handshake == Base /\ InFlightOK /\ ExecutedOK /\ CommandsInOrder

LEMMA LegitimateStays ==
    ASSUME Base, [Next]_vars, NEW q, NEW ID, Legitimate(q, ID, rcvd, done, sent)
    PROVE  Legitimate(q, ID, rcvd', done', sent')
  <1> DEFINE c == q[1]
  <1>1. c \in Conns /\ q[2] \in Nat /\ q[2] >= 1
    BY DEF Legitimate, ReqNames
  <1>2. /\ rcvd[c] \in Nat /\ done[c] \in Nat /\ rcvd'[c] \in Nat /\ done'[c] \in Nat
        /\ sent[c] \in Seq(RequestKinds) /\ rcvd[c] <= Len(sent[c])
    BY <1>1, BaseStep DEF Base, TypeOK, CountsOK
  <1>3. rcvd[c] <= rcvd'[c] /\ done[c] <= done'[c]
    BY <1>1, QueuesGrow
  <1>4. q[2] \in 1 .. Len(sent[c])
    BY <1>1, <1>2 DEF Legitimate
  <1>5. sent'[c][q[2]] = sent[c][q[2]]
    BY <1>1, <1>4, QueuesGrow
  <1>6. q[2] <= rcvd'[c] /\ q[2] <= done'[c] + 1
    BY <1>1, <1>2, <1>3 DEF Legitimate
  <1> QED BY <1>5, <1>6 DEF Legitimate

LEMMA HandshakeInit == Init => Handshake
  BY BaseInit DEF Init, Handshake, InFlightOK, ExecutedOK, CommandsInOrder

LEMMA HandshakeStep == Handshake /\ [Next]_vars => Handshake'
  <1> SUFFICES ASSUME Handshake, [Next]_vars PROVE Handshake'
    OBVIOUS
  <1> USE DEF Handshake
  <1>1. Base'
    BY BaseStep
  <1>2. \A k \in 1 .. Len(executed) :
           Legitimate(executed[k].req, executed[k].ID, rcvd', done', sent')
    BY LegitimateStays DEF ExecutedOK
  <1>3. ASRequestStatus = "PROCESSING"
           => Legitimate(ASRequestBuffer, ASRequestID, rcvd', done', sent')
    BY LegitimateStays DEF InFlightOK
  <1>4. Len(executed) \in Nat
    BY LenProperties DEF Base, TypeOK
  <1>5. CASE UNCHANGED <<shared, main>>
    <2>1. InFlightOK'
      BY <1>3, <1>5 DEF InFlightOK, shared, main
    <2>2. ExecutedOK'
      BY <1>2, <1>5 DEF ExecutedOK, shared, main
    <2>3. CommandsInOrder'
      BY <1>5 DEF CommandsInOrder, main
    <2> QED BY <1>1, <2>1, <2>2, <2>3
  <1>6. CASE PutStep
    <2>1. /\ mpc # "run" /\ UNCHANGED <<mpc, mainID, executed, sent, rcvd, done>>
          /\ ASRequestBuffer' = HeadReq(cur)
      BY <1>6 DEF PutStep, CheckASRequest, ASRequestInit, InFlightOK, main, network
    <2>2. /\ done[cur] \in Nat /\ rcvd[cur] \in Nat
          /\ HeadReq(cur) \in ReqNames /\ HeadReq(cur)[1] = cur
          /\ HeadReq(cur)[2] = done[cur] + 1
      BY <1>6, HeadIsName DEF PutStep, Base, TypeOK
    <2>3. Legitimate(ASRequestBuffer', ASRequestID', rcvd', done', sent')
      BY <1>6, <2>1, <2>2 DEF PutStep, ASRequestInit, Legitimate, Named
    <2>4. InFlightOK'
      BY <2>1, <2>3 DEF InFlightOK
    <2>5. ExecutedOK'
      BY <1>2, <2>1, <2>2 DEF ExecutedOK, Legitimate
    <2>6. CommandsInOrder'
      BY <2>1 DEF CommandsInOrder
    <2> QED BY <1>1, <2>4, <2>5, <2>6
  <1>7. CASE AnswerAS
    <2>1. /\ ASRequestStatus = "PROCESSED" /\ ASRequestStatus' = "WAIT_IN"
          /\ UNCHANGED <<mpc, mainID, executed>>
      BY <1>7 DEF AnswerAS, ResetStatus, main
    <2>2. InFlightOK'
      BY <2>1 DEF InFlightOK
    <2>3. ExecutedOK'
      BY <1>2, <2>1 DEF ExecutedOK
    <2>4. CommandsInOrder'
      BY <2>1 DEF CommandsInOrder
    <2> QED BY <1>1, <2>2, <2>3, <2>4
  <1>8. CASE MainBranch
    <2>1. /\ ASRequestStatus = "PROCESSING" /\ mainID' = ASRequestID
          /\ UNCHANGED <<ASRequestStatus, ASRequestID, ASRequestBuffer, executed>>
      BY <1>8 DEF MainBranch, RequestPending, shared
    <2>2. InFlightOK'
      BY <1>3, <2>1 DEF InFlightOK
    <2>3. ExecutedOK'
      BY <1>2, <2>1 DEF ExecutedOK
    <2>4. CommandsInOrder'
      BY <2>1 DEF CommandsInOrder
    <2> QED BY <1>1, <2>2, <2>3, <2>4
  <1>9. CASE MainExecute
    <2> DEFINE entry == [req |-> ASRequestBuffer, ID |-> mainID]
    <2>1. /\ ASRequestStatus = "PROCESSING" /\ mainID = ASRequestID
          /\ ASRequestStatus' = "PROCESSED" /\ mpc' = "loop"
          /\ executed' = Append(executed, entry)
      BY <1>9 DEF MainExecute, InFlightOK
    <2>2. /\ Len(executed') = Len(executed) + 1
          /\ executed'[Len(executed) + 1] = entry
          /\ \A k \in 1 .. Len(executed) : executed'[k] = executed[k]
      BY <2>1, AppendProperties DEF Base, TypeOK
    <2>3. Legitimate(entry.req, entry.ID, rcvd', done', sent')
      BY <1>3, <2>1
    <2>4. InFlightOK'
      BY <2>1 DEF InFlightOK
    <2>5. ExecutedOK'
      <3> SUFFICES ASSUME NEW k \in 1 .. (Len(executed) + 1)
                   PROVE  Legitimate(executed'[k].req, executed'[k].ID, rcvd', done', sent')
        BY <2>1, <2>2 DEF ExecutedOK
      <3>1. CASE k = Len(executed) + 1
        BY <2>2, <2>3, <3>1
      <3>2. CASE k \in 1 .. Len(executed)
        BY <1>2, <2>2, <3>2
      <3> QED BY <1>4, <3>1, <3>2
    <2>6. CommandsInOrder'
      <3> SUFFICES ASSUME NEW j \in 1 .. (Len(executed) + 1),
                          NEW k \in 1 .. (Len(executed) + 1),
                          j < k, executed'[j].req[1] = executed'[k].req[1]
                   PROVE  executed'[j].req[2] <= executed'[k].req[2]
        BY <2>2 DEF CommandsInOrder
      <3>1. j \in 1 .. Len(executed)
        BY <1>4
      <3>2. CASE k = Len(executed) + 1
        BY <2>1, <2>2, <3>1, <3>2 DEF ExecutedOK
      <3>3. CASE k \in 1 .. Len(executed)
        BY <2>2, <3>1, <3>3 DEF CommandsInOrder
      <3> QED BY <1>4, <3>2, <3>3
    <2> QED BY <1>1, <2>4, <2>5, <2>6
  <1> QED BY <1>5, <1>6, <1>7, <1>8, <1>9, HandshakeSteps

LEMMA HandshakeHolds == Safety => []Handshake
  BY HandshakeInit, HandshakeStep, PTL DEF Safety

\* Whatever the main loop executed is a request that a browser sent and the
\* server parsed, under the ID of a definition that very request matches.
THEOREM ExecutionsAreRequests == Safety => []ExecutedAsRequested
  <1>1. Handshake => ExecutedAsRequested
    BY DEF Handshake, ExecutedOK, Legitimate, ExecutedAsRequested, Named
  <1> QED BY <1>1, HandshakeHolds, PTL

\* The commands of a connection are executed in the order they were sent.
THEOREM CommandsKeepOrder == Safety => []CommandsInOrder
  <1>1. Handshake => CommandsInOrder
    BY DEF Handshake
  <1> QED BY <1>1, HandshakeHolds, PTL

\* The lock-free globals implement the mailbox: the initial state maps to its
\* initial state, PutStep to Put, MainExecute to Execute, AnswerAS to Take, and
\* every other step leaves the mailbox as it is.
THEOREM ImplementsMailbox == Safety => MailboxSafety
  <1>1. Init => Mailbox!Init
    BY DEF Init, Mailbox!Init
  <1>2. Handshake /\ [Next]_vars => [Mailbox!Next]_(Mailbox!mailbox)
    <2> SUFFICES ASSUME Handshake, [Next]_vars
                 PROVE  Mailbox!Next \/ UNCHANGED Mailbox!mailbox
      OBVIOUS
    <2> USE DEF Mailbox!Next, Mailbox!mailbox
    <2>1. Base
      BY DEF Handshake
    <2>2. CASE UNCHANGED <<shared, main>>
      BY <2>2 DEF shared, main
    <2>3. CASE PutStep
      <3>1. /\ ASRequestStatus = "WAIT_IN" /\ ASRequestStatus' = "PROCESSING"
            /\ executed' = executed
            /\ ASRequestBuffer' \in ReqNames /\ ASRequestID' \in ASRequestIDs
        BY <2>1, <2>3, HeadIsName, MatchingIDs DEF PutStep, ASRequestInit, Base, main
      <3> QED BY <3>1 DEF Mailbox!Put
    <2>4. CASE AnswerAS
      BY <2>4 DEF AnswerAS, ResetStatus, main, Mailbox!Take
    <2>5. CASE MainBranch
      BY <2>5 DEF MainBranch, shared
    <2>6. CASE MainExecute
      BY <2>6 DEF MainExecute, Handshake, InFlightOK, Mailbox!Execute
    <2> QED BY <2>1, <2>2, <2>3, <2>4, <2>5, <2>6, HandshakeSteps
  <1> QED BY <1>1, <1>2, HandshakeHolds, PTL DEF Safety, MailboxSafety, Mailbox!Safety

-----------------------------------------------------------------------------
(* The responses. *)

\* The n-th response of c answers its n-th request.
StaticOK ==
    \A c \in Conns : \A n \in 1 .. Len(log[c]) :
        \/ log[c][n].kind = "as"
        \/ sent[c][n].HTTPMethod = "GET" /\ log[c][n] = StaticFor(sent[c][n])

\* A step appends a response to the log of the client at hand, or none at all.
LEMMA LogSteps ==
    ASSUME Base, [Next]_vars
    PROVE  \/ UNCHANGED log
           \/ /\ cur \in Conns /\ done[cur] < rcvd[cur] /\ writesLeft[cur] = 0
              /\ UNCHANGED <<sent, executed>>
              /\ \/ AnswerAS /\ Generate(ASResult(Len(executed)))
                 \/ /\ AnswerStatic
                    /\ Named(HeadReq(cur)).HTTPMethod = "GET"
                    /\ Generate(StaticFor(Named(HeadReq(cur))))
  <1>1. CASE AnswerAS \/ AnswerStatic
    BY <1>1 DEF AnswerAS, AnswerStatic, Base, VisitOK, network, main
  <1>2. CASE UNCHANGED vars \/ BrowserNext \/ MainNext
    BY <1>2 DEF vars, http, BrowserNext, Connect, SendRequest, Disconnect, MainNext,
                MainBranch, MainExecute
  <1>3. CASE Poll \/ CheckASRequest \/ LeaveQueued \/ WriteFails \/ EndPass
    BY <1>3 DEF Poll, CheckASRequest, LeaveQueued, WriteFails, EndPass
  <1>4. CASE \E c \in Conns : Receive(c) \/ Write(c)
    BY <1>4 DEF Receive, Write
  <1> QED BY <1>1, <1>2, <1>3, <1>4 DEF Next, HTTPNext

LEMMA StaticStep == Base /\ StaticOK /\ [Next]_vars => StaticOK'
  <1> SUFFICES ASSUME Base, StaticOK, [Next]_vars,
                      NEW c \in Conns, NEW n \in 1 .. Len(log'[c])
               PROVE  \/ log'[c][n].kind = "as"
                      \/ /\ sent'[c][n].HTTPMethod = "GET"
                         /\ log'[c][n] = StaticFor(sent'[c][n])
    BY DEF StaticOK, StaticFor
  <1> DEFINE StaticN == \/ log'[c][n].kind = "as"
                        \/ /\ sent'[c][n].HTTPMethod = "GET"
                           /\ log'[c][n] = StaticFor(sent'[c][n])
  <1>1. /\ Len(log[c]) \in Nat /\ rcvd[c] \in Nat /\ Len(sent[c]) \in Nat
        /\ log[c] \in Seq(Responses) /\ done[c] \in Nat
        /\ Len(log[c]) <= Len(sent[c])
    BY LenProperties DEF Base, TypeOK, CountsOK
  <1>2. ASSUME n \in 1 .. Len(log[c]), log'[c][n] = log[c][n] PROVE  StaticN
    BY <1>1, <1>2, QueuesGrow DEF StaticOK
  <1>3. CASE UNCHANGED log
    BY <1>2, <1>3
  <1>4. ASSUME NEW response, Generate(response), cur \in Conns, UNCHANGED sent,
               writesLeft[cur] = 0, done[cur] < rcvd[cur],
               \/ response.kind = "as"
               \/ /\ Named(HeadReq(cur)).HTTPMethod = "GET"
                  /\ response = StaticFor(Named(HeadReq(cur)))
        PROVE  StaticN
    <2>1. CASE c # cur
      BY <1>2, <1>4, <2>1 DEF Generate, Base, TypeOK
    <2>2. CASE c = cur
      <3>1. log'[c] = Append(log[c], response)
        BY <1>4, <2>2 DEF Generate, Base, TypeOK
      <3>2. Len(log[c]) = done[c]
        BY <1>4, <2>2, <1>1 DEF Base, CountsOK
      <3>3. CASE n \in 1 .. Len(log[c])
        BY <1>1, <1>2, <3>1, <3>3
      <3>4. CASE n = done[c] + 1
        BY <1>1, <1>4, <2>2, <3>1, <3>2, <3>4, HeadSent
      <3> QED BY <1>1, <3>1, <3>2, <3>3, <3>4
    <2> QED BY <2>1, <2>2
  <1> QED BY <1>3, <1>4, LogSteps DEF ASResult

\* Pipelining keeps order, and a static response is the file (or the 404 page)
\* of the very request whose turn it is.
THEOREM ResponsesKeepOrder == Safety => []ResponsesInOrder
  <1>1. Init => StaticOK
    BY DEF Init, StaticOK
  <1>2. Base /\ StaticOK => ResponsesInOrder
    BY DEF Base, CountsOK, StaticOK, ResponsesInOrder
  <1> QED BY <1>1, <1>2, BaseInit, BaseStep, StaticStep, PTL DEF Safety
-----------------------------------------------------------------------------
(* A published result is taken by one client only. *)

\* A published result belongs to an execution, and no client has it yet.
PublishedOK ==
    /\ ASRequestStatus = "PROCESSED" => Len(executed) > 0
    /\ ResultSentOnce

LEMMA PublishedStep == Handshake /\ PublishedOK /\ [Next]_vars => PublishedOK'
  <1> SUFFICES ASSUME Handshake, PublishedOK, [Next]_vars PROVE PublishedOK'
    OBVIOUS
  <1>0. /\ Base
        /\ Len(executed) \in Nat
        /\ \A c \in Conns : log[c] \in Seq(Responses) /\ Len(log[c]) \in Nat
    BY LenProperties DEF Handshake, Base, TypeOK
  <1>1. CASE UNCHANGED <<shared, main>> /\ UNCHANGED log
    BY <1>1 DEF PublishedOK, ResultSentOnce, shared, main
  <1>2. CASE (PutStep \/ MainBranch) /\ UNCHANGED log
    <2>1. ASRequestStatus' # "PROCESSED" /\ UNCHANGED <<executed, log>>
      BY <1>2 DEF PutStep, ASRequestInit, MainBranch, RequestPending, shared, main
    <2> QED BY <2>1 DEF PublishedOK, ResultSentOnce
  <1>3. CASE MainExecute /\ UNCHANGED log
    <2>1. Len(executed') = Len(executed) + 1
      BY <1>3, AppendProperties DEF MainExecute, Base, TypeOK, Handshake
    <2>2. \A c \in Conns : \A m \in 1 .. Len(log[c]) :
             log[c][m].kind = "as" => log[c][m].run \in 1 .. Len(executed)
      BY DEF PublishedOK, ResultSentOnce
    <2>3. \A c \in Conns : \A m \in 1 .. Len(log[c]) :
             log[c][m].kind = "as" => /\ log[c][m].run \in 1 .. Len(executed')
                                      /\ log[c][m].run # Len(executed')
      BY <1>0, <2>1, <2>2
    <2>4. ResultSentOnce'
      BY <1>3, <2>3 DEF PublishedOK, ResultSentOnce
    <2> QED BY <1>0, <2>1, <2>4 DEF PublishedOK
  <1>4. CASE AnswerStatic
    <2> DEFINE response == StaticFor(Named(HeadReq(cur)))
    <2>1. /\ cur \in Conns /\ UNCHANGED <<executed, ASRequestStatus>>
          /\ log' = [log EXCEPT ![cur] = Append(@, response)]
      BY <1>0, <1>4 DEF AnswerStatic, Generate, Base, VisitOK, shared, main
    <2>2. response.kind # "as"
      BY DEF StaticFor
    <2>3. \A c \in Conns : \A n \in 1 .. Len(log'[c]) :
             log'[c][n].kind = "as" => n \in 1 .. Len(log[c]) /\ log'[c][n] = log[c][n]
      <3> SUFFICES ASSUME NEW c \in Conns, NEW n \in 1 .. Len(log'[c]),
                          log'[c][n].kind = "as"
                   PROVE  n \in 1 .. Len(log[c]) /\ log'[c][n] = log[c][n]
        OBVIOUS
      <3>1. CASE c # cur
        BY <2>1, <3>1 DEF Base, TypeOK, Handshake
      <3>2. CASE c = cur
        <4>1. log'[c] = Append(log[c], response)
          BY <2>1, <3>2 DEF Base, TypeOK, Handshake
        <4> HIDE DEF response
        <4> QED BY <1>0, <2>2, <4>1
      <3> QED BY <3>1, <3>2
    <2> QED BY <2>1, <2>3 DEF PublishedOK, ResultSentOnce
  <1>5. CASE AnswerAS
    <2> DEFINE response == ASResult(Len(executed))
    <2>1. /\ cur \in Conns /\ UNCHANGED executed
          /\ ASRequestStatus = "PROCESSED" /\ ASRequestStatus' = "WAIT_IN"
          /\ log' = [log EXCEPT ![cur] = Append(@, response)]
      BY <1>0, <1>5 DEF AnswerAS, ResetStatus, Generate, Base, VisitOK, main
    <2>2. response.kind = "as" /\ response.run = Len(executed)
      BY DEF ASResult
    <2>3. /\ Len(executed) > 0
          /\ \A c \in Conns : \A n \in 1 .. Len(log[c]) :
               log[c][n].kind = "as" => /\ log[c][n].run \in 1 .. Len(executed)
                                        /\ log[c][n].run # Len(executed)
      BY <2>1 DEF PublishedOK, ResultSentOnce
    <2>4. ASSUME NEW c \in Conns, NEW n \in 1 .. Len(log'[c])
          PROVE  \/ n \in 1 .. Len(log[c]) /\ log'[c][n] = log[c][n]
                 \/ c = cur /\ n = Len(log[c]) + 1 /\ log'[c][n] = response
      <3>1. CASE c # cur
        BY <2>1, <3>1 DEF Base, TypeOK, Handshake
      <3>2. CASE c = cur
        <4>1. log'[c] = Append(log[c], response)
          BY <2>1, <3>2 DEF Base, TypeOK, Handshake
        <4> HIDE DEF response
        <4> QED BY <1>0, <3>2, <4>1
      <3> QED BY <3>1, <3>2
    <2> HIDE DEF response
    <2>5. ASSUME NEW c \in Conns, NEW d \in Conns,
                 NEW m \in 1 .. Len(log'[c]), NEW n \in 1 .. Len(log'[d]),
                 log'[c][m].kind = "as", log'[d][n].kind = "as",
                 log'[c][m].run = log'[d][n].run
          PROVE  c = d /\ m = n
      <3>1. CASE /\ m \in 1 .. Len(log[c]) /\ log'[c][m] = log[c][m]
                 /\ n \in 1 .. Len(log[d]) /\ log'[d][n] = log[d][n]
        BY <2>5, <3>1 DEF PublishedOK, ResultSentOnce
      <3>2. CASE log'[c][m] = response \/ log'[d][n] = response
        BY <2>2, <2>3, <2>4, <2>5, <3>2
      <3> QED BY <2>4, <3>1, <3>2
    <2>6. ASSUME NEW c \in Conns, NEW n \in 1 .. Len(log'[c]),
                 log'[c][n].kind = "as"
          PROVE  log'[c][n].run \in 1 .. Len(executed)
      BY <1>0, <2>2, <2>3, <2>4, <2>6
    <2> QED BY <2>1, <2>5, <2>6 DEF PublishedOK, ResultSentOnce
  <1>6. UNCHANGED log \/ AnswerAS \/ AnswerStatic
    BY <1>0, LogSteps
  <1> QED BY <1>0, <1>1, <1>2, <1>3, <1>4, <1>5, <1>6, HandshakeSteps

\* The result of one execution is sent at most once and to one client, and only
\* after the main loop has published it.
THEOREM ResultsSentOnce == Safety => []ResultSentOnce
  <1>1. Init => Handshake /\ PublishedOK
    BY HandshakeInit DEF Init, PublishedOK, ResultSentOnce
  <1>2. Handshake /\ PublishedOK /\ [Next]_vars => Handshake' /\ PublishedOK'
    BY HandshakeStep, PublishedStep
  <1>3. PublishedOK => ResultSentOnce
    BY DEF PublishedOK
  <1> QED BY <1>1, <1>2, <1>3, PTL DEF Safety
=============================================================================
