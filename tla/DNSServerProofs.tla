--------------------------- MODULE DNSServerProofs ---------------------------
(***************************************************************************)
(* Proofs about DNSServer, for every set of resolvers and of datagrams.    *)
(*                                                                         *)
(* The buffer is never cleared.  What makes the decision a function of the *)
(* datagram is that every field that ends within the datagram was received *)
(* with it, and that each test that looks further is guarded by a length.  *)
(***************************************************************************)
EXTENDS DNSServer, TLAPS

LEMMA FieldNames ==
    Fields = {"flags", "qd", "an", "ns", "ar", "name", "qtype", "opt"}
  BY DEF Fields, Begin

LEMMA FieldEnds ==
    /\ End.flags = 4 /\ End.qd = 6 /\ End.an = 8 /\ End.ns = 10
    /\ End.ar = 12 /\ End.name = 23 /\ End.qtype = 27 /\ End.opt = 38
  BY DEF End, DNSQuestionTypeOffset, PongGameQueryLength,
         PongGameEdns0QueryLengthMinimum

LEMMA QuestionType ==
    ASSUME NEW d \in Questions
    PROVE  /\ d.length \in 0 .. 128
           /\ d.bytes \in [Fields -> Values]
  BY DNSAssumption DEF BufferLength

\* recvfrom replaces every field that ends within the datagram.
LEMMA ReceivedFields ==
    ASSUME NEW d \in Questions, RecvBuffer \in [Fields -> Values],
           NEW b \in Received(d)
    PROVE  /\ b \in [Fields -> Values]
           /\ \A f \in Fields : End[f] <= d.length => b[f] = d.bytes[f]
  <1>1. PICK cut \in Values :
          b = [f \in Fields |-> IF End[f] <= d.length THEN d.bytes[f]
                                ELSE IF d.length <= Begin[f] THEN RecvBuffer[f]
                                ELSE cut]
    BY DEF Received, Values
  <1> QED BY <1>1, QuestionType

-----------------------------------------------------------------------------
(* The server. *)

\* While it serves, the buffer holds the fields of the datagram at hand.
BufferOK ==
    pc = "serve" =>
        \A f \in Fields : End[f] <= request.datagram.length
                             => RecvBuffer[f] = request.datagram.bytes[f]

Inv == TypeOK /\ BufferOK /\ RepliesFromQuery /\ RepliesFit

\* A datagram of accepted length holds the whole header, so the counts that are
\* tested are its own.
LEMMA ServedQuery ==
    ASSUME TypeOK, BufferOK, pc = "serve", LengthAccepted
    PROVE  /\ request \in Queries
           /\ ReceivedBytes \in 24 .. 99
           /\ \A f \in {"flags", "qd", "an", "ns", "ar", "name"} :
                 RecvBuffer[f] = request.datagram.bytes[f]
           /\ ReceivedBytes >= 27 => RecvBuffer.qtype = request.datagram.bytes.qtype
           /\ ReceivedBytes >= 38 => RecvBuffer.opt = request.datagram.bytes.opt
  <1>1. request \in Queries
    BY DEF TypeOK
  <1>2. request.datagram \in Questions
    BY <1>1 DEF Queries
  <1>3. ReceivedBytes \in 24 .. 99
    BY <1>2, QuestionType DEF LengthAccepted, ReceivedBytes
  <1>4. \A f \in Fields : End[f] <= ReceivedBytes
                             => RecvBuffer[f] = request.datagram.bytes[f]
    BY DEF BufferOK, ReceivedBytes
  <1>5. \A f \in {"flags", "qd", "an", "ns", "ar", "name"} :
           f \in Fields /\ End[f] <= 23
    BY FieldNames, FieldEnds
  <1>6. "qtype" \in Fields /\ "opt" \in Fields
    BY FieldNames
  <1> QED BY <1>1, <1>3, <1>4, <1>5, <1>6, FieldEnds

LEMMA NameDecides ==
    ASSUME TypeOK, BufferOK, pc = "serve", LengthAccepted
    PROVE  HasPongGameQueryName <=> NamesPongGame(request.datagram)
  BY ServedQuery, FieldEnds
  DEF HasPongGameQueryName, NamesPongGame, ReceivedBytes, DNSQuestionTypeOffset

LEMMA AnswerDecides ==
    ASSUME TypeOK, BufferOK, pc = "serve", LengthAccepted,
           IsPlainPongGameQuery \/ IsEdns0PongGameQuery
    PROVE  /\ AsksForAddress(request.datagram)
           /\ RecvBuffer.name = "pong.game" /\ RecvBuffer.qtype = "A/IN"
           /\ IsEdns0PongGameQuery <=> CarriesOpt(request.datagram)
           /\ IsEdns0PongGameQuery => RecvBuffer.opt = "OPT"
  <1>1. RecvBuffer.name = "pong.game" /\ ReceivedBytes >= 27
    BY DEF IsPlainPongGameQuery, IsEdns0PongGameQuery, HasPongGameQueryName,
           DNSQuestionTypeOffset
  <1>2. RecvBuffer.qtype = "A/IN" /\ IsStandardSingleQuestionQuery
    BY DEF IsPlainPongGameQuery, IsEdns0PongGameQuery, IsAInQuery
  <1>3. CASE IsPlainPongGameQuery
    <2>1. ReceivedBytes = 27 /\ RecvBuffer.ar = "0"
      BY <1>3 DEF IsPlainPongGameQuery, PlainLength, PongGameQueryLength
    <2>2. ~IsEdns0PongGameQuery /\ ~CarriesOpt(request.datagram)
      BY <2>1, FieldEnds DEF IsEdns0PongGameQuery, CarriesOpt, ReceivedBytes
    <2> QED
      BY <1>1, <1>2, <2>1, <2>2, ServedQuery, FieldEnds
      DEF AsksForAddress, NamesPongGame, IsStandardSingleQuestionQuery,
          ReceivedBytes
  <1>4. CASE IsEdns0PongGameQuery
    <2>1. ReceivedBytes >= 38 /\ RecvBuffer.opt = "OPT" /\ RecvBuffer.ar = "1"
      BY <1>4 DEF IsEdns0PongGameQuery, IsEdns0OptQuery,
                  PongGameEdns0QueryLengthMinimum
    <2>2. CarriesOpt(request.datagram)
      BY <2>1, ServedQuery, FieldEnds DEF CarriesOpt, ReceivedBytes
    <2> QED
      BY <1>1, <1>2, <1>4, <2>1, <2>2, ServedQuery, FieldEnds
      DEF AsksForAddress, NamesPongGame, IsStandardSingleQuestionQuery,
          ReceivedBytes
  <1> QED BY <1>3, <1>4

LEMMA InvInit == Init => Inv
  <1> SUFFICES ASSUME Init PROVE Inv
    OBVIOUS
  <1>1. TypeOK
    BY DNSAssumption DEF Init, TypeOK, Values
  <1> QED BY <1>1 DEF Init, Inv, BufferOK, RepliesFromQuery, RepliesFit

\* Steps that leave the server and the replies alone.
LEMMA Elsewhere ==
    ASSUME Inv, TypeOK', UNCHANGED server, replies' \subseteq replies
    PROVE  Inv'
  BY DEF Inv, server, BufferOK, RepliesFromQuery, RepliesFit

LEMMA TypeNext == Inv /\ [Next]_vars => TypeOK'
  <1> SUFFICES ASSUME Inv, [Next]_vars PROVE TypeOK'
    OBVIOUS
  <1> USE DEF Inv, TypeOK, resolver, server
  <1>1. ASSUME NEW c \in Resolvers, NEW d \in Questions, Ask(c, d) PROVE TypeOK'
    <2>1. asks' \in [Resolvers -> 0 .. MaxAsks]
      BY <1>1, DNSAssumption DEF Ask
    <2> QED BY <1>1, <2>1 DEF Ask
  <1>2. ASSUME NEW c \in Resolvers, Transmit(c) PROVE TypeOK'
    BY <1>2 DEF Transmit, Queries, NoReply
  <1>3. ASSUME NEW c \in Resolvers, GiveUp(c) PROVE TypeOK'
    BY <1>3 DEF GiveUp, NoReply
  <1>4. ASSUME NEW c \in Resolvers, Hear(c) PROVE TypeOK'
    BY <1>4 DEF Hear, NoReply, RepliesFromQuery
  <1>5. CASE Lose
    BY <1>5 DEF Lose
  <1>6. ASSUME NEW q \in net, Receive(q) PROVE TypeOK'
    <2>1. q.datagram \in Questions
      BY DEF Queries
    <2>2. RecvBuffer' \in [Fields -> Values]
      BY <1>6, <2>1, ReceivedFields DEF Receive
    <2> QED BY <1>6, <2>2 DEF Receive
  <1>7. ASSUME NEW bytes \in [Fields -> Values], NEW length,
               NEW moved \in {"nothing", "OPT"}, pc = "serve",
               Send(bytes, length, moved)
        PROVE  TypeOK'
    <2>1. request \in Queries
      BY <1>7
    <2> QED BY <1>7, <2>1 DEF Send, Queries
  <1>8. CASE Answer
    <2> DEFINE b == [RecvBuffer EXCEPT !.flags = "response", !.an = "1", !.ns = "0",
                        !.ar = IF IsEdns0PongGameQuery THEN "1" ELSE "0",
                        !.opt = "answer"]
               m == IF IsEdns0PongGameQuery THEN RecvBuffer.opt ELSE "nothing"
    <2>1. IsEdns0PongGameQuery => RecvBuffer.opt = "OPT"
      BY <1>8, AnswerDecides DEF Answer
    <2>2. b \in [Fields -> Values]
      BY FieldNames DEF Values
    <2>3. m \in {"nothing", "OPT"}
      BY <2>1
    <2>4. pc = "serve" /\ Send(b, ReceivedBytes + AnswerLength, m)
      BY <1>8 DEF Answer
    <2> HIDE DEF b, m
    <2> QED BY <1>7, <2>2, <2>3, <2>4
  <1>9. CASE NXDomain
    <2>1. [RecvBuffer EXCEPT !.flags = "nxdomain", !.an = "0", !.ns = "0"]
             \in [Fields -> Values]
      BY FieldNames DEF Values
    <2> QED BY <1>7, <1>9, <2>1 DEF NXDomain
  <1>10. CASE NotServed
    BY <1>10 DEF NotServed
  <1>11. CASE UNCHANGED vars
    BY <1>11 DEF vars
  <1> QED
    BY <1>1, <1>2, <1>3, <1>4, <1>5, <1>6, <1>8, <1>9, <1>10, <1>11
    DEF Next, Serve

LEMMA InvNext == Inv /\ [Next]_vars => Inv'
  <1> SUFFICES ASSUME Inv, [Next]_vars PROVE Inv'
    OBVIOUS
  <1>1. TypeOK'
    BY TypeNext
  <1>2. CASE Lose \/ UNCHANGED vars \/ \E c \in Resolvers :
                 \/ \E d \in Questions : Ask(c, d)
                 \/ Transmit(c) \/ GiveUp(c) \/ Hear(c)
    <2>1. UNCHANGED server /\ replies' \subseteq replies
      BY <1>2 DEF Lose, vars, Ask, Transmit, GiveUp, Hear, server
    <2> QED BY <1>1, <2>1, Elsewhere
  <1>3. ASSUME NEW q \in net, Receive(q) PROVE Inv'
    <2>1. q.datagram \in Questions
      BY DEF Inv, TypeOK, Queries
    <2>2. BufferOK'
      BY <1>3, <2>1, ReceivedFields DEF Receive, BufferOK, Inv, TypeOK
    <2> QED
      BY <1>1, <1>3, <2>2
      DEF Receive, Inv, RepliesFromQuery, RepliesFit
  <1>4. CASE Answer
    <2> DEFINE edns == IsEdns0PongGameQuery
               b == [RecvBuffer EXCEPT !.flags = "response", !.an = "1", !.ns = "0",
                        !.ar = IF edns THEN "1" ELSE "0", !.opt = "answer"]
               r == [to |-> request.from, id |-> request.id,
                     query |-> request.datagram, length |-> ReceivedBytes + AnswerLength,
                     bytes |-> b, moved |-> IF edns THEN RecvBuffer.opt ELSE "nothing"]
    <2>1. replies' = replies \cup {r} /\ pc' = "recv"
      BY <1>4 DEF Answer, Send
    <2>2. /\ AsksForAddress(request.datagram)
          /\ RecvBuffer.name = "pong.game" /\ RecvBuffer.qtype = "A/IN"
          /\ edns <=> CarriesOpt(request.datagram)
          /\ edns => RecvBuffer.opt = "OPT"
      BY <1>4, AnswerDecides DEF Answer, Inv
    <2>3. /\ b.flags = "response" /\ b.an = "1" /\ b.name = RecvBuffer.name
          /\ b.qtype = RecvBuffer.qtype /\ b.ar = IF edns THEN "1" ELSE "0"
      BY FieldNames DEF Inv, TypeOK
    <2>4. r.length <= BufferLength
      BY <1>4, ServedQuery DEF Answer, Inv, AnswerLength, BufferLength
    <2> HIDE DEF b, edns
    <2>5. RepliesFromQuery'
      BY <2>1, <2>2, <2>3 DEF Inv, RepliesFromQuery
    <2>6. RepliesFit'
      BY <2>1, <2>4 DEF Inv, RepliesFit
    <2> QED BY <1>1, <2>1, <2>5, <2>6 DEF Inv, BufferOK
  <1>5. CASE NXDomain
    <2> DEFINE b == [RecvBuffer EXCEPT !.flags = "nxdomain", !.an = "0", !.ns = "0"]
               r == [to |-> request.from, id |-> request.id,
                     query |-> request.datagram, length |-> ReceivedBytes,
                     bytes |-> b, moved |-> "nothing"]
    <2>1. replies' = replies \cup {r} /\ pc' = "recv"
      BY <1>5 DEF NXDomain, Send
    <2>2. ~NamesPongGame(request.datagram)
      BY <1>5, NameDecides DEF NXDomain, Inv
    <2>3. b.flags = "nxdomain"
      BY FieldNames DEF Inv, TypeOK
    <2>4. r.length <= BufferLength
      BY <1>5, ServedQuery DEF NXDomain, Inv, BufferLength
    <2> HIDE DEF b
    <2>5. RepliesFromQuery'
      BY <2>1, <2>2, <2>3 DEF Inv, RepliesFromQuery
    <2>6. RepliesFit'
      BY <2>1, <2>4 DEF Inv, RepliesFit
    <2> QED BY <1>1, <2>1, <2>5, <2>6 DEF Inv, BufferOK
  <1>6. CASE NotServed
    BY <1>1, <1>6 DEF NotServed, Inv, BufferOK, RepliesFromQuery, RepliesFit
  <1> QED BY <1>2, <1>3, <1>4, <1>5, <1>6 DEF Next, Serve

\* Type correctness, for any questions a resolver may ask.
THEOREM TypeCorrect == Safety => []TypeOK
  <1>1. Inv => TypeOK
    BY DEF Inv
  <1> QED BY <1>1, InvInit, InvNext, PTL DEF Safety

\* ServerLoop never decides on, nor sends an address because of, bytes that an
\* earlier datagram left in its buffer.
THEOREM RepliesFollowQueries == Safety => []RepliesFromQuery
  <1>1. Inv => RepliesFromQuery
    BY DEF Inv
  <1> QED BY <1>1, InvInit, InvNext, PTL DEF Safety

\* The answer and the OPT record moved behind it stay within RecvBuffer.
THEOREM WritesStayInBuffer == Safety => []RepliesFit
  <1>1. Inv => RepliesFit
    BY DEF Inv
  <1> QED BY <1>1, InvInit, InvNext, PTL DEF Safety

-----------------------------------------------------------------------------
(* The resolvers. *)

\* Whatever travels under the ID of a resolver's present question is about that
\* question; everything else has an older ID.
Asked(c, id, d) ==
    /\ id <= asks[c]
    /\ id = asks[c] => question[c].verdict # "none" /\ d = question[c].datagram

IDsOK ==
    /\ \A q \in net : Asked(q.from, q.id, q.datagram)
    /\ \A r \in replies : Asked(r.to, r.id, r.query)
    /\ pc = "serve" => Asked(request.from, request.id, request.datagram)

\* A new question leaves nothing under its ID; a change of verdict keeps the
\* question.
LEMMA AskedKept ==
    ASSUME Inv, NEW c \in Resolvers, NEW id \in Nat, NEW d, Asked(c, id, d),
           NEW e \in Resolvers,
           \/ \E f \in Questions : Ask(e, f)
           \/ Transmit(e) \/ GiveUp(e) \/ Hear(e)
    PROVE  Asked(c, id, d)'
  <1> USE DEF Inv
  <1>1. asks \in [Resolvers -> Nat]
    BY DNSAssumption DEF TypeOK
  <1>2. CASE \E f \in Questions : Ask(e, f)
    BY <1>1, <1>2 DEF Ask, Asked, TypeOK
  <1>3. CASE Transmit(e)
    BY <1>3 DEF Transmit, Asked, resolver
  <1>4. CASE GiveUp(e)
    <2>1. /\ question[e] \in [verdict : {"waiting", "timeout", "response", "nxdomain"},
                              datagram : Questions]
          /\ asks' = asks
          /\ question' = [question EXCEPT ![e] = [question[e] EXCEPT !.verdict = "timeout"]]
      BY <1>4 DEF GiveUp, TypeOK, NoReply
    <2>2. question'[e].datagram = question[e].datagram /\ question'[e].verdict = "timeout"
      BY <2>1 DEF TypeOK
    <2>3. c # e => question'[c] = question[c]
      BY <2>1 DEF TypeOK
    <2> QED BY <2>1, <2>2, <2>3 DEF Asked
  <1>5. CASE Hear(e)
    <2>1. PICK r \in replies :
             question' = [question EXCEPT ![e] = [question[e] EXCEPT !.verdict = r.bytes.flags]]
      BY <1>5 DEF Hear
    <2>2. /\ question[e] \in [verdict : {"waiting", "timeout", "response", "nxdomain"},
                              datagram : Questions]
          /\ asks' = asks
      BY <1>5 DEF Hear, TypeOK, NoReply
    <2>3. r.bytes.flags # "none"
      BY DEF Inv, RepliesFromQuery
    <2>4. question'[e].datagram = question[e].datagram /\ question'[e].verdict # "none"
      BY <2>1, <2>2, <2>3 DEF TypeOK
    <2>5. c # e => question'[c] = question[c]
      BY <2>1 DEF TypeOK
    <2> QED BY <2>2, <2>4, <2>5 DEF Asked
  <1> QED BY <1>2, <1>3, <1>4, <1>5

\* What travels is of the right type.
LEMMA Travelling ==
    ASSUME TypeOK
    PROVE  /\ \A q \in net : q.from \in Resolvers /\ q.id \in Nat
           /\ \A r \in replies : r.to \in Resolvers /\ r.id \in Nat
           /\ pc = "serve" => request.from \in Resolvers /\ request.id \in Nat
  <1>1. \A r \in replies : [from |-> r.to, id |-> r.id, datagram |-> r.query] \in Queries
    BY DEF TypeOK
  <1>2. \A q \in net : q \in Queries
    BY DEF TypeOK
  <1> QED BY <1>1, <1>2 DEF TypeOK, Queries

LEMMA IDsNext == Inv /\ IDsOK /\ [Next]_vars => IDsOK'
  <1> SUFFICES ASSUME Inv, IDsOK, [Next]_vars PROVE IDsOK'
    OBVIOUS
  <1>1. TypeOK
    BY DEF Inv
  <1>2. ASSUME NEW e \in Resolvers,
               \/ \E f \in Questions : Ask(e, f)
               \/ Transmit(e) \/ GiveUp(e) \/ Hear(e)
        PROVE  IDsOK'
    <2>1. \A c \in Resolvers : \A id \in Nat : \A d :
             Asked(c, id, d) => Asked(c, id, d)'
      BY <1>1, <1>2, AskedKept
    <2>2. UNCHANGED <<replies, pc, request>>
      BY <1>2 DEF Ask, Transmit, GiveUp, Hear, server
    <2>3. \A q \in net' : \/ q \in net
                         \/ /\ Transmit(e)
                            /\ q = [from |-> e, id |-> asks[e],
                                    datagram |-> question[e].datagram]
      BY <1>2 DEF Ask, Transmit, GiveUp, Hear
    <2>4. Transmit(e) => asks[e] \in Nat /\ question[e].verdict # "none"
                         /\ UNCHANGED <<asks, question>>
      BY <1>1, DNSAssumption DEF Transmit, TypeOK, resolver
    <2>5. \A q \in net' : Asked(q.from, q.id, q.datagram)'
      <3> TAKE q \in net'
      <3>1. CASE q \in net
        BY <1>1, <2>1, <3>1, Travelling DEF IDsOK
      <3>2. CASE q \notin net
        BY <2>3, <2>4, <3>2 DEF Asked
      <3> QED BY <3>1, <3>2
    <2>6. \A r \in replies' : Asked(r.to, r.id, r.query)'
      BY <1>1, <2>1, <2>2, Travelling DEF IDsOK
    <2>7. pc' = "serve" => Asked(request.from, request.id, request.datagram)'
      BY <1>1, <2>1, <2>2, Travelling DEF IDsOK
    <2> QED BY <2>5, <2>6, <2>7 DEF IDsOK
  <1>3. CASE Lose
    BY <1>3 DEF Lose, IDsOK, Asked, resolver, server
  <1>4. ASSUME NEW q \in net, Receive(q) PROVE IDsOK'
    BY <1>4 DEF Receive, IDsOK, Asked, resolver
  <1>5. CASE Answer
    BY <1>5 DEF Answer, Send, IDsOK, Asked, resolver
  <1>6. CASE NXDomain
    BY <1>6 DEF NXDomain, Send, IDsOK, Asked, resolver
  <1>7. CASE NotServed
    BY <1>7 DEF NotServed, IDsOK, Asked, resolver
  <1>8. CASE UNCHANGED vars
    BY <1>8 DEF vars, IDsOK, Asked, resolver, server
  <1> QED
    BY <1>2, <1>3, <1>4, <1>5, <1>6, <1>7, <1>8 DEF Next, Serve

LEMMA VerdictNext == Inv /\ IDsOK /\ VerdictRight /\ [Next]_vars => VerdictRight'
  <1> SUFFICES ASSUME Inv, IDsOK, VerdictRight, [Next]_vars PROVE VerdictRight'
    OBVIOUS
  <1>1. TypeOK
    BY DEF Inv
  <1>2. ASSUME NEW e \in Resolvers, NEW f \in Questions, Ask(e, f) PROVE VerdictRight'
    BY <1>1, <1>2 DEF Ask, VerdictRight, TypeOK
  <1>3. ASSUME NEW e \in Resolvers, GiveUp(e) PROVE VerdictRight'
    <2>1. \A c \in Resolvers : question'[c].verdict = "timeout" \/ question'[c] = question[c]
      BY <1>1, <1>3 DEF GiveUp, TypeOK, NoReply
    <2> QED BY <2>1 DEF VerdictRight
  <1>4. ASSUME NEW e \in Resolvers, Hear(e) PROVE VerdictRight'
    <2>1. PICK r \in replies :
             /\ r.to = e /\ r.id = asks[e]
             /\ question' = [question EXCEPT ![e] = [question[e] EXCEPT !.verdict = r.bytes.flags]]
      BY <1>4 DEF Hear
    <2>2. r.query = question[e].datagram
      BY <2>1 DEF IDsOK, Asked
    <2>3. question[e] \in [verdict : {"waiting", "timeout", "response", "nxdomain"},
                           datagram : Questions]
      BY <1>1, <1>4 DEF Hear, TypeOK, NoReply
    <2>4. question'[e].verdict = r.bytes.flags /\ question'[e].datagram = r.query
      BY <1>1, <2>1, <2>2, <2>3 DEF TypeOK
    <2>5. \A c \in Resolvers : c # e => question'[c] = question[c]
      BY <1>1, <2>1 DEF TypeOK
    <2>6. /\ r.bytes.flags = "response" => AsksForAddress(r.query)
          /\ r.bytes.flags = "nxdomain" => ~NamesPongGame(r.query)
      BY DEF Inv, RepliesFromQuery
    <2> QED BY <2>4, <2>5, <2>6 DEF VerdictRight
  <1>5. CASE UNCHANGED question
    BY <1>5 DEF VerdictRight
  <1> QED
    BY <1>2, <1>3, <1>4, <1>5
    DEF Next, Transmit, Lose, Receive, Serve, Answer, NXDomain, NotServed, Send,
        resolver, vars

\* A resolver never takes an address for another question than the one it
\* waits on, nor NXDOMAIN for pong.game, however replies are delayed.
THEOREM VerdictsRight == Safety => []VerdictRight
  <1>1. Init => IDsOK /\ VerdictRight
    BY DEF Init, IDsOK, VerdictRight, NoReply
  <1> QED BY <1>1, InvInit, InvNext, IDsNext, VerdictNext, PTL DEF Safety
=============================================================================
