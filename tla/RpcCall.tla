------------------------------ MODULE RpcCall ------------------------------
(***************************************************************************)
(* RPC calls end to end: the client of src/rpc/src/client/client.cpp, whose*)
(* coroutines call server 1 one after the other, server 1, whose RelayEcho *)
(* makes a nested call to server 2, and server 2.                          *)
(*                                                                         *)
(* Each process has one thread, and its coroutines run only from its main  *)
(* loop, so an action is what a process does for one packet, one timeout or*)
(* one launch, up to the point where the main loop has control again.      *)
(* RpcCoroMgr is the model of that machinery; here a suspended coroutine is*)
(* woken by a response, a timeout or a cancellation, in any order.         *)
(***************************************************************************)
EXTENDS Integers, Sequences, FiniteSets

CONSTANTS
    Callers,     \* the coroutines the client creates
    Script       \* the methods each of them calls, in order

Methods == {"Echo", "RelayEcho", "GetData"}

ASSUME ScriptAssumption == Script \in Seq(Methods)

VARIABLES
    pc,          \* which call a coroutine is suspended in, 0 before its start
    failed,      \* isFailed_ of the controller the coroutines share
    got,         \* history: how each call of a coroutine returned
    toS1, toC,   \* packets on the session between the client and server 1
    up,          \* that session is alive
    relays,      \* the RelayEcho coroutines of server 1, by coroutine id
    toS2, toS1R, \* packets on the session between server 1 and server 2
    link,        \* server 1's cached channel to server 2
    served,      \* history: the calls whose Echo a server has executed
    fault        \* server 1 has dereferenced null and is dead

client == <<pc, failed, got>>
session1 == <<toS1, toC, up>>
session2 == <<toS2, toS1R, link>>
vars == <<client, session1, relays, session2, served, fault>>

Calls == 1..Len(Script)
Tags == [co : Callers, n : Calls]      \* the n-th call of a coroutine

\* What the packets carry.  `tag' and `inner' stand for the payload: the call
\* that a request or a response belongs to, and the call whose response the
\* relay has passed on.  The code writes the coroutine id only.
NoTag == [co |-> "none", n |-> 0]
Request(method, from, tag) == [method |-> method, from |-> from, tag |-> tag]
Response(to, err, tag, inner) == [to |-> to, err |-> err, tag |-> tag, inner |-> inner]

Suspended(c) == pc[c] \in Calls

Request1 == [method : Methods, from : Callers, tag : Tags]
Response1 == [to : Callers, err : BOOLEAN, tag : Tags, inner : Tags \cup {NoTag}]
Request2 == [method : {"Echo"}, from : Nat, tag : Tags]
Response2 == [to : Nat, err : {FALSE}, tag : Tags, inner : {NoTag}]
Relay == [from : Callers, tag : Tags, ended : BOOLEAN]
Result == [how : {"response", "timeout", "cancel"}, ok : BOOLEAN, err : BOOLEAN,
           tag : Tags \cup {NoTag}, inner : Tags \cup {NoTag}]

TypeOK ==
    /\ pc \in [Callers -> 0..(Len(Script) + 1)]
    /\ failed \in BOOLEAN /\ up \in BOOLEAN /\ fault \in BOOLEAN
    /\ got \in [Callers -> Seq(Result)]
    /\ \A c \in Callers : Len(got[c]) = IF pc[c] = 0 THEN 0 ELSE pc[c] - 1
    /\ toS1 \in Seq(Request1) /\ toC \in Seq(Response1)
    /\ relays \in Seq(Relay)
    /\ toS2 \in Seq(Request2) /\ toS1R \in Seq(Response2)
    /\ link \in {"none", "up", "broken"}
    /\ served \subseteq {"server1", "server2"} \X Tags

Init ==
    /\ pc = [c \in Callers |-> 0] /\ failed = FALSE
    /\ got = [c \in Callers |-> <<>>]
    /\ toS1 = <<>> /\ toC = <<>> /\ up = TRUE
    /\ relays = <<>>
    /\ toS2 = <<>> /\ toS1R = <<>> /\ link = "none"
    /\ served = {} /\ fault = FALSE

PushTwice(queue, alive, packet) ==       \* mutant: the packet is sent again
    IF alive THEN queue \o <<packet, packet>> ELSE queue

\* PushPacket: a packet for a session that is gone is lost, and nobody looks at
\* the result of Send.
PushPacket(queue, alive, packet) == IF alive THEN Append(queue, packet) ELSE queue

-----------------------------------------------------------------------------
(* The client.                                                             *)

RetryCall(c, k) ==                       \* mutant: a call that returned is made again
    /\ pc' = [pc EXCEPT ![c] = IF k > 1 THEN k - 1 ELSE k]
    /\ UNCHANGED toS1

\* The coroutine goes on to its k-th call: RpcChannel::CallMethod up to its
\* Yield; the callers are coroutines, which CallMethod does not refuse.  After
\* the last call the coroutine returns.
CallMethod(c, k) ==
    /\ pc' = [pc EXCEPT ![c] = k]
    /\ toS1' = IF k \in Calls
                 THEN PushPacket(toS1, up, Request(Script[k], c, [co |-> c, n |-> k]))
                 ELSE toS1

IgnoreError(f, how, err) == f \/ how # "response"      \* mutant: errText is not read

\* The controller after CallMethod: SetFailed for a timeout, a cancellation or
\* an error text.  Nothing ever clears it.
ControllerFailed(f, how, err) == f \/ how # "response" \/ err

\* CallMethod after its Yield, then on to the next call.
Return(c, how, err, tag, inner) ==
    /\ failed' = ControllerFailed(failed, how, err)
    /\ got' = [got EXCEPT ![c] = Append(@, [how |-> how, ok |-> ~failed', err |-> err,
                                            tag |-> tag, inner |-> inner])]
    /\ CallMethod(c, pc[c] + 1)

Launch(c) ==
    /\ pc[c] = 0
    /\ CallMethod(c, 1)
    /\ UNCHANGED <<failed, got, toC, up, relays, session2, served, fault>>

\* OnCoroTimeout or OnCoroCancel at the client.  The coroutine's timer is armed
\* whatever became of the packet.
ClientWake(c, how) ==
    /\ Suspended(c)
    /\ Return(c, how, FALSE, NoTag, NoTag)
    /\ UNCHANGED <<toC, up, relays, session2, served, fault>>

\* HandleRpcRsp at the client: the coroutine with the id in the packet is
\* resumed, whichever call it is suspended in; a response to a coroutine that
\* is gone is dropped.
ClientReceive ==
    /\ toC # <<>>
    /\ toC' = Tail(toC)
    /\ LET m == Head(toC)
       IN  IF Suspended(m.to) THEN Return(m.to, "response", m.err, m.tag, m.inner)
           ELSE UNCHANGED <<client, toS1>>
    /\ UNCHANGED <<up, relays, session2, served, fault>>

-----------------------------------------------------------------------------
(* Server 1.                                                               *)

\* OnRpcDone: the response goes to the coroutine id in the request.
OnRpcDone(from, err, tag, inner) ==
    toC' = PushPacket(toC, up, Response(from, err, tag, inner))

\* A method that needs no coroutine is executed in the main loop.
Echo(m) ==
    /\ served' = served \cup {<<"server1", m.tag>>}
    /\ OnRpcDone(m.from, FALSE, m.tag, NoTag)
    /\ UNCHANGED <<relays, session2, fault>>

\* GetData runs the closure, and HandleRpcReq always passes null: the process
\* dies, while the client and server 2 go on.
GetData(m) ==
    /\ fault' = TRUE
    /\ UNCHANGED <<toC, relays, session2, served>>

\* RelayEcho when the channel to server 2 cannot be created.
RelayWithoutChannel(m) ==
    /\ link = "none"
    /\ OnRpcDone(m.from, TRUE, m.tag, NoTag)
    /\ UNCHANGED <<relays, session2, served, fault>>

\* GetRpcChannel: the cached channel, even if its session is broken, or a new
\* one.
GetRpcChannel == IF link = "none" THEN "up" ELSE link

\* RelayEcho in a new coroutine, up to the Yield of its nested call.
RelayEcho(m) ==
    /\ link' = GetRpcChannel
    /\ relays' = Append(relays, [from |-> m.from, tag |-> m.tag, ended |-> FALSE])
    /\ toS2' = PushPacket(toS2, link' = "up", Request("Echo", Len(relays) + 1, m.tag))
    /\ UNCHANGED <<toC, toS1R, served, fault>>

\* HandleRpcReq.
Server1Request ==
    /\ ~fault /\ toS1 # <<>>
    /\ toS1' = Tail(toS1)
    /\ LET m == Head(toS1)
       IN  \/ m.method = "Echo" /\ Echo(m)
           \/ m.method = "GetData" /\ GetData(m)
           \/ m.method = "RelayEcho" /\ (RelayWithoutChannel(m) \/ RelayEcho(m))
    /\ UNCHANGED <<client, up>>

StayRegistered(i) == UNCHANGED relays    \* mutant: the coroutine is not erased

\* The RelayEcho coroutine returns and is erased from coros_.
EndRelay(i) == relays' = [relays EXCEPT ![i].ended = TRUE]

SilentFailure(i, how, err, inner) ==     \* mutant: only a response is answered
    /\ IF how = "response" THEN OnRpcDone(relays[i].from, err, relays[i].tag, inner)
       ELSE UNCHANGED toC
    /\ EndRelay(i)

\* RelayEcho after its nested call: a failure is passed on.
RelayReturn(i, how, err, inner) ==
    /\ OnRpcDone(relays[i].from, how # "response" \/ err, relays[i].tag, inner)
    /\ EndRelay(i)

\* HandleRpcRsp at server 1 finds the coroutine by the id in the packet.
LastRelay(m) == Len(relays)              \* mutant: the newest coroutine
GetCoro(m) == m.to

Server1Response ==
    /\ ~fault /\ toS1R # <<>>
    /\ toS1R' = Tail(toS1R)
    /\ LET m == Head(toS1R)
       IN  IF ~relays[GetCoro(m)].ended
             THEN RelayReturn(GetCoro(m), "response", m.err, m.tag)
             ELSE UNCHANGED <<toC, relays>>
    /\ UNCHANGED <<client, toS1, up, toS2, link, served, fault>>

\* OnCoroTimeout at server 1.
Server1Timeout(i) ==
    /\ ~fault /\ ~relays[i].ended
    /\ RelayReturn(i, "timeout", FALSE, NoTag)
    /\ UNCHANGED <<client, toS1, up, session2, served, fault>>

-----------------------------------------------------------------------------
(* Server 2 and the sessions.                                              *)

\* HandleRpcReq at server 2: Echo, executed in the main loop.
Server2Request ==
    /\ toS2 # <<>>
    /\ toS2' = Tail(toS2)
    /\ LET m == Head(toS2)
       IN  /\ served' = served \cup {<<"server2", m.tag>>}
           /\ toS1R' = PushPacket(toS1R, link = "up",
                                  Response(m.from, FALSE, m.tag, NoTag))
    /\ UNCHANGED <<client, session1, relays, link, fault>>

\* A session breaks and what is in transit on it is lost.  The client keeps
\* its channel and never connects again.
BreakClient ==
    /\ up /\ up' = FALSE /\ toS1' = <<>> /\ toC' = <<>>
    /\ UNCHANGED <<client, relays, session2, served, fault>>

BreakLink ==
    /\ link = "up" /\ link' = "broken" /\ toS2' = <<>> /\ toS1R' = <<>>
    /\ UNCHANGED <<client, session1, relays, served, fault>>

\* The destroy event reaches server 1: CloseSession forgets the channel.
OnSessionDestroy ==
    /\ ~fault /\ link = "broken" /\ link' = "none"
    /\ UNCHANGED <<client, session1, relays, toS2, toS1R, served, fault>>

-----------------------------------------------------------------------------
Next ==
    \/ \E c \in Callers : Launch(c)
    \/ \E c \in Callers, how \in {"timeout", "cancel"} : ClientWake(c, how)
    \/ ClientReceive
    \/ Server1Request \/ Server1Response
    \/ \E i \in 1..Len(relays) : Server1Timeout(i)
    \/ Server2Request
    \/ BreakClient \/ BreakLink \/ OnSessionDestroy

Spec == Init /\ [][Next]_vars

-----------------------------------------------------------------------------
(* Properties.                                                             *)

Answered(c, n) == got[c][n].how = "response"
Own(c, n) == got[c][n].tag = [co |-> c, n |-> n]

\* No call of c before the n-th was given up.
AllAnsweredBefore(c, n) == \A k \in 1..(n - 1) : Answered(c, k)

\* A call that ends with a response has got its own response, as long as no
\* earlier call of the same coroutine timed out or was cancelled: HandleRpcRsp
\* looks at the coroutine id only.  What other coroutines, relays and sessions
\* do cannot confuse it.
OwnAnswerUntilTimeout ==
    \A c \in Callers : \A n \in 1..Len(got[c]) :
      Answered(c, n) /\ AllAnsweredBefore(c, n) => Own(c, n)

\* A call that reports success was executed by the server that does the work:
\* an error of the nested call of RelayEcho, from a timeout, a broken session or
\* a channel that could not be created, reaches the client's controller.
OkMeansServed ==
    \A c \in Callers : \A n \in 1..Len(got[c]) :
      got[c][n].ok /\ AllAnsweredBefore(c, n) =>
        <<IF Script[n] = "RelayEcho" THEN "server2" ELSE "server1", [co |-> c, n |-> n]>> \in served

\* A relay that reports success passes on the response to its own nested call.
RelayPassesOwnAnswer ==
    \A i \in 1..Len(toC) :
      LET m == toC[i]
      IN  (~m.err /\ Script[m.tag.n] = "RelayEcho") => m.inner = m.tag

\* A request is answered at most once, although the nested response and the
\* timeout of a relay compete: no call has a second response on its way.
AnsweredOnce ==
    /\ \A i, j \in 1..Len(toC) : toC[i].tag = toC[j].tag => i = j
    /\ \A c, d \in Callers : \A n \in 1..Len(got[c]), k \in 1..Len(got[d]) :
         Answered(c, n) /\ Answered(d, k) /\ got[c][n].tag = got[d][k].tag
           => c = d /\ n = k
    /\ \A c \in Callers : \A n \in 1..Len(got[c]), i \in 1..Len(toC) :
         Answered(c, n) => toC[i].tag # got[c][n].tag

\* "The coroutine will only be awakened when the rpc return packet is received
\* or a timeout or other error occurs" (README.md:74): a response that ends a
\* call is the response to that call.
ResponseIsOwn ==
    \A c \in Callers : \A n \in 1..Len(got[c]) : Answered(c, n) => Own(c, n)

\* "the rpc call status can be read from the proto controller" (README.md:60):
\* a call that ended with a response without error reports success.
StatusIsOfThisCall ==
    \A c \in Callers : \A n \in 1..Len(got[c]) :
      Answered(c, n) /\ ~got[c][n].err => got[c][n].ok

\* The main loop of server 1 dispatches the packets that arrive, and its timers
\* fire (Coro::Yield always arms one and the loop calls Update).  Nothing is
\* assumed of the client, of server 2 and of the sessions.
Fairness ==
    /\ WF_vars(Server1Request)
    /\ \A i \in 1..(Cardinality(Callers) * Len(Script)) :
         WF_vars(i <= Len(relays) /\ Server1Timeout(i))

FairSpec == Spec /\ Fairness

\* Every request that reaches server 1 is answered while server 1 and its
\* session to the client live: a relay whose channel cannot be created, whose
\* nested request or response is lost, or whose server 2 is silent, answers
\* with an error instead of never.
RequestIsAnswered ==
    \A t \in Tags :
      (\E i \in 1..Len(toS1) : toS1[i].tag = t)
        ~> (~up \/ fault \/ \E i \in 1..Len(toC) : toC[i].tag = t)

=============================================================================
