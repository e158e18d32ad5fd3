------------------------------ MODULE DNSServer ------------------------------
(***************************************************************************)
(* The DNS task (DNSServer.cpp): one buffer, reused for every datagram,    *)
(* is received into, tested byte by byte, turned into the reply and sent.  *)
(* Bytes behind a short datagram are those of the traffic before it.  UDP  *)
(* may lose, repeat and reorder; resolvers repeat a question until they    *)
(* hear a reply with its ID or give up.                                    *)
(*                                                                         *)
(* A datagram is its length, its ID and the fields the server looks at,    *)
(* each with the bytes it occupies; what follows the header of an OPT      *)
(* record is only moved, never read, and is left out.                      *)
(***************************************************************************)
EXTENDS Naturals

CONSTANTS Resolvers,  \* the phones
          Questions,  \* the datagrams they may ask with, [length, bytes]
          MaxAsks     \* bound: questions of each resolver

\* DNSServer.hpp, and the size recvfrom is given.
BufferLength                    == 128
DNSQuestionTypeOffset           == 23
PongGameQueryLength             == 27
PongGameEdns0QueryLengthMinimum == 38
AnswerLength                    == 16

Begin == [flags |-> 2, qd |-> 4, an |-> 6, ns |-> 8, ar |-> 10, name |-> 12,
          qtype |-> DNSQuestionTypeOffset, opt |-> PongGameQueryLength]
End   == [flags |-> 4, qd |-> 6, an |-> 8, ns |-> 10, ar |-> 12,
          name |-> DNSQuestionTypeOffset, qtype |-> PongGameQueryLength,
          opt |-> PongGameEdns0QueryLengthMinimum]
Fields == DOMAIN Begin
Values == {"query", "response", "nxdomain", "0", "1", "pong.game", "A/IN", "OPT",
           "answer", "other"}

ASSUME DNSAssumption ==
    /\ Questions \subseteq [length : 0 .. BufferLength, bytes : [Fields -> Values]]
    /\ MaxAsks \in Nat

VARIABLES
    asks,       \* per resolver: how many questions it has asked
    question,   \* per resolver: the question it waits on, or how it ended
    net,        \* queries under way to the server
    replies,    \* replies under way to the resolvers
    pc,         \* the server: "recv" or "serve"
    RecvBuffer, \* the fields of the buffer (its ID is the one of `request`)
    request     \* the datagram received last; its length is ReceivedBytes

resolver == <<asks, question>>
server   == <<pc, RecvBuffer, request>>
vars     == <<resolver, net, replies, server>>

Queries  == [from : Resolvers, id : Nat, datagram : Questions]
NoReply  == [verdict |-> "none"]
ReceivedBytes == request.datagram.length

-----------------------------------------------------------------------------
(* The tests of ServerLoop, on the buffer. *)
HasPongGameQueryName ==
    /\ ReceivedBytes >= DNSQuestionTypeOffset + 4
    /\ RecvBuffer.name = "pong.game"

\* Mutant: the type of the question is not looked at.
AnyType == TRUE
IsAInQuery == RecvBuffer.qtype = "A/IN"

IsStandardSingleQuestionQuery ==
    RecvBuffer.qd = "1" /\ RecvBuffer.an = "0" /\ RecvBuffer.ns = "0"

\* Mutants: any record will do; without the length, one of earlier traffic will.
AnyRecord == ReceivedBytes >= PongGameEdns0QueryLengthMinimum
OptAnywhere == RecvBuffer.opt = "OPT"
IsEdns0OptQuery ==
    /\ ReceivedBytes >= PongGameEdns0QueryLengthMinimum
    /\ RecvBuffer.opt = "OPT"

\* Mutant: off by one.
LongerThanQuery == ReceivedBytes > PongGameQueryLength
PlainLength == ReceivedBytes = PongGameQueryLength

IsPlainPongGameQuery ==
    /\ HasPongGameQueryName
    /\ PlainLength
    /\ IsStandardSingleQuestionQuery
    /\ RecvBuffer.ar = "0"
    /\ IsAInQuery

IsEdns0PongGameQuery ==
    /\ HasPongGameQueryName
    /\ IsStandardSingleQuestionQuery
    /\ RecvBuffer.ar = "1"
    /\ IsAInQuery
    /\ IsEdns0OptQuery

\* Mutant: no upper limit but that of recvfrom.
NoUpperLimit == ReceivedBytes >= 24
LengthAccepted == ReceivedBytes >= 24 /\ ReceivedBytes < 100

-----------------------------------------------------------------------------
Init ==
    /\ asks = [c \in Resolvers |-> 0]
    /\ question = [c \in Resolvers |-> NoReply]
    /\ net = {}
    /\ replies = {}
    /\ pc = "recv"
    /\ RecvBuffer = [f \in Fields |-> "other"]
    /\ request = NoReply

(* The resolvers and the network. *)
Ask(c, d) ==
    /\ question[c].verdict # "waiting"
    /\ asks[c] < MaxAsks
    /\ asks' = [asks EXCEPT ![c] = @ + 1]
    /\ question' = [question EXCEPT ![c] = [verdict |-> "waiting", datagram |-> d]]
    /\ UNCHANGED <<net, replies, server>>

Transmit(c) ==
    /\ question[c].verdict = "waiting"
    /\ net' = net \cup {[from |-> c, id |-> asks[c], datagram |-> question[c].datagram]}
    /\ UNCHANGED <<resolver, replies, server>>

GiveUp(c) ==
    /\ question[c].verdict = "waiting"
    /\ question' = [question EXCEPT ![c].verdict = "timeout"]
    /\ UNCHANGED <<asks, net, replies, server>>

Hear(c) ==
    /\ question[c].verdict = "waiting"
    /\ \E r \in replies :
          /\ r.to = c /\ r.id = asks[c]
          /\ question' = [question EXCEPT ![c].verdict = r.bytes.flags]
    /\ UNCHANGED <<asks, net, replies, server>>

Lose ==
    /\ \/ \E q \in net : net' = net \ {q} /\ UNCHANGED replies
       \/ \E r \in replies : replies' = replies \ {r} /\ UNCHANGED net
    /\ UNCHANGED <<resolver, server>>

-----------------------------------------------------------------------------
(* The server. *)

\* What the buffer may hold once the first bytes of it are overwritten: a field
\* that is cut keeps some of its old bytes, whatever that makes of it.
Received(d) ==
    {[f \in Fields |-> IF End[f] <= d.length THEN d.bytes[f]
                       ELSE IF d.length <= Begin[f] THEN RecvBuffer[f] ELSE cut]
        : cut \in {"other"} \cup {v \in Values : \E f \in Fields :
                     /\ Begin[f] < d.length /\ d.length < End[f]
                     /\ v \in {d.bytes[f], RecvBuffer[f]}}}

\* recvfrom: a datagram that is also kept by the network arrives twice.
Receive(q) ==
    /\ pc = "recv"
    /\ q \in net
    /\ net' \in {net, net \ {q}}
    /\ RecvBuffer' \in Received(q.datagram)
    /\ request' = q
    /\ pc' = "serve"
    /\ UNCHANGED <<resolver, replies>>

\* sendto: the buffer, and what was moved behind the answer.
Send(bytes, length, moved) ==
    /\ RecvBuffer' = bytes
    /\ replies' = replies \cup
          {[to |-> request.from, id |-> request.id, query |-> request.datagram,
            length |-> length, bytes |-> bytes, moved |-> moved]}
    /\ pc' = "recv"
    /\ UNCHANGED <<resolver, net, request>>

Answer ==
    /\ pc = "serve"
    /\ LengthAccepted
    /\ IsPlainPongGameQuery \/ IsEdns0PongGameQuery
    /\ Send([RecvBuffer EXCEPT !.flags = "response", !.an = "1", !.ns = "0",
                               !.ar = IF IsEdns0PongGameQuery THEN "1" ELSE "0",
                               !.opt = "answer"],
            ReceivedBytes + AnswerLength,
            IF IsEdns0PongGameQuery THEN RecvBuffer.opt ELSE "nothing")

NXDomain ==
    /\ pc = "serve"
    /\ LengthAccepted
    /\ ~HasPongGameQueryName
    /\ Send([RecvBuffer EXCEPT !.flags = "nxdomain", !.an = "0", !.ns = "0"],
            ReceivedBytes, "nothing")

\* pong.game, but not a question the server supports; or a datagram of another
\* length, after which the task sleeps.
NotServed ==
    /\ pc = "serve"
    /\ \/ ~LengthAccepted
       \/ HasPongGameQueryName /\ ~IsPlainPongGameQuery /\ ~IsEdns0PongGameQuery
    /\ pc' = "recv"
    /\ UNCHANGED <<resolver, net, replies, RecvBuffer, request>>

Serve == Answer \/ NXDomain \/ NotServed

Next ==
    \/ \E c \in Resolvers : \/ \E d \in Questions : Ask(c, d)
                            \/ Transmit(c) \/ GiveUp(c) \/ Hear(c)
    \/ Lose
    \/ \E q \in net : Receive(q)
    \/ Serve

Safety == Init /\ [][Next]_vars

\* The task serves what it has received, a resolver repeats its question, not
\* every time while the task is busy, and the network does not lose every copy
\* of a question or of a reply.
Fairness ==
    /\ WF_vars(Serve)
    /\ \A c \in Resolvers :
          /\ SF_vars(pc = "recv" /\ Transmit(c))
          /\ SF_vars(Hear(c))
          /\ SF_vars(\E q \in net : q.from = c /\ q.id = asks[c] /\ Receive(q))

Spec == Safety /\ Fairness

-----------------------------------------------------------------------------
(* Properties. *)

\* The type invariant.
TypeOK ==
    /\ asks \in [Resolvers -> 0 .. MaxAsks]
    /\ question \in [Resolvers -> {NoReply} \cup
           [verdict : {"waiting", "timeout", "response", "nxdomain"},
            datagram : Questions]]
    /\ \A q \in net : q \in Queries
    /\ \A r \in replies :
          /\ [from |-> r.to, id |-> r.id, datagram |-> r.query] \in Queries
          /\ r.bytes \in [Fields -> Values]
          /\ r.moved \in {"nothing", "OPT"}
    /\ pc \in {"recv", "serve"}
    /\ RecvBuffer \in [Fields -> Values]
    /\ request \in Queries \cup {NoReply}
    /\ pc = "serve" => request \in Queries

\* What a question means by itself, with no buffer in sight.
NamesPongGame(d) == d.length >= End.qtype /\ d.bytes.name = "pong.game"
CarriesOpt(d) == /\ d.length >= End.opt
                 /\ d.bytes.ar = "1" /\ d.bytes.opt = "OPT"
AsksForAddress(d) ==
    /\ NamesPongGame(d)
    /\ d.length < 100
    /\ d.bytes.qtype = "A/IN"
    /\ d.bytes.qd = "1" /\ d.bytes.an = "0" /\ d.bytes.ns = "0"
    /\ \/ CarriesOpt(d)
       \/ d.length = End.qtype /\ d.bytes.ar = "0"

\* Each reply follows from the datagram it replies to, and never from bytes that
\* earlier traffic left in the buffer: an address is sent for a whole address
\* question about pong.game, with an OPT record behind it exactly when the
\* question carried one, and NXDOMAIN for a question about any other name.
RepliesFromQuery ==
    \A r \in replies :
        /\ r.bytes.flags = "response" => AsksForAddress(r.query)
        /\ r.bytes.flags = "response"
              => /\ r.bytes.name = "pong.game" /\ r.bytes.qtype = "A/IN"
                 /\ r.bytes.an = "1"
                 /\ r.moved = "OPT" <=> CarriesOpt(r.query)
                 /\ r.bytes.ar = "1" <=> CarriesOpt(r.query)
        /\ r.bytes.flags = "nxdomain" => ~NamesPongGame(r.query)
        /\ r.bytes.flags \in {"response", "nxdomain"}

\* The answer is written and the OPT record moved within the buffer.
RepliesFit == \A r \in replies : r.length <= BufferLength

\* What a resolver concludes is right for the question it waits on, however late
\* or often replies to this and to earlier questions arrive.
VerdictRight ==
    \A c \in Resolvers :
        /\ question[c].verdict = "response" => AsksForAddress(question[c].datagram)
        /\ question[c].verdict = "nxdomain" => ~NamesPongGame(question[c].datagram)

\* pong.game is resolved for every resolver that asks and does not give up.
PongGameResolved ==
    \A c \in Resolvers :
        (question[c].verdict = "waiting" /\ AsksForAddress(question[c].datagram))
            ~> question[c].verdict # "waiting"
=============================================================================
