---------------------------- MODULE RpcCallProofs ---------------------------
(***************************************************************************)
(* The invariant of RpcCall behind its safety properties: the steps of the *)
(* client, of the two servers and of the sessions keep it.                 *)
(*                                                                         *)
(* The argument follows the tag of a call.  It is in one place at a time:  *)
(* the request on its way to server 1, a running relay, the response on    *)
(* its way back, or a result of the coroutine.  So a response that reaches *)
(* a coroutine, none of whose earlier calls was given up, cannot carry the *)
(* tag of an earlier call, which has its result already.                   *)
(***************************************************************************)
EXTENDS RpcCall, SequenceTheorems, TLAPS

\* A leaf that names no prover is tried with SMT, then with Zenon, then once more.
USE SMTT(30), ZenonT(30), SMTT(60)

Packets(s) == {s[i] : i \in 1..Len(s)}
TagsOf(s) == {m.tag : m \in Packets(s)}
Distinct(s) == \A i, j \in 1..Len(s) : s[i].tag = s[j].tag => i = j

\* The calls in each place.
AtWork == {relays[i].tag : i \in {k \in 1..Len(relays) : ~relays[k].ended}}
Results ==
    {t \in Tags : \E c \in Callers : \E n \in 1..Len(got[c]) :
                    Answered(c, n) /\ got[c][n].tag = t}

\* The server that does the work has executed the call.
Served(t) == <<IF Script[t.n] = "RelayEcho" THEN "server2" ELSE "server1", t>> \in served

\* Only calls that were made are anywhere.
Made ==
    \A t \in TagsOf(toS1) \cup TagsOf(relays) \cup TagsOf(toC) \cup Results :
        t.n <= pc[t.co]

\* A call is in one place, once.
OnePlace ==
    /\ Distinct(toS1) /\ Distinct(relays) /\ Distinct(toC)
    /\ TagsOf(toS1) \cap (TagsOf(relays) \cup TagsOf(toC) \cup Results) = {}
    /\ AtWork \cap (TagsOf(toC) \cup Results) = {}
    /\ TagsOf(toC) \cap Results = {}

\* What packets and relays say belongs together.
PacketsAreTrue ==
    /\ \A m \in Packets(toS1) : m.from = m.tag.co /\ m.method = Script[m.tag.n]
    /\ \A r \in Packets(relays) : r.from = r.tag.co /\ Script[r.tag.n] = "RelayEcho"
    /\ \A m \in Packets(toS2) : m.from \in 1..Len(relays) /\ m.tag = relays[m.from].tag
    /\ \A m \in Packets(toS1R) :
         m.to \in 1..Len(relays) /\ m.tag = relays[m.to].tag /\ <<"server2", m.tag>> \in served
    /\ \A m \in Packets(toC) :
         /\ m.to = m.tag.co
         /\ ~m.err => Served(m.tag) /\ (Script[m.tag.n] = "RelayEcho" => m.inner = m.tag)

\* What the coroutines have got.
ResultsAreTrue ==
    \A c \in Callers : \A n \in 1..Len(got[c]) :
      /\ got[c][n].ok => Answered(c, n) /\ ~got[c][n].err
      /\ Answered(c, n) =>
           /\ got[c][n].tag \in Tags /\ got[c][n].tag.co = c
           /\ ~got[c][n].err => Served(got[c][n].tag)
           /\ AllAnsweredBefore(c, n) => Own(c, n)
           /\ \A k \in 1..Len(got[c]) :
                Answered(c, k) /\ got[c][k].tag = got[c][n].tag => k = n

\* The inductive invariant.
CallInv == TypeOK /\ Made /\ OnePlace /\ PacketsAreTrue /\ ResultsAreTrue

\* What the type invariant says of the packets and relays.
LEMMA QueueTypes ==
    ASSUME CallInv
    PROVE  /\ toS1 \in Seq(Request1) /\ toC \in Seq(Response1) /\ relays \in Seq(Relay)
           /\ toS2 \in Seq(Request2) /\ toS1R \in Seq(Response2)
           /\ link \in {"none", "up", "broken"} /\ served \subseteq {"server1", "server2"} \X Tags
           /\ up \in BOOLEAN /\ fault \in BOOLEAN
BY DEF CallInv, TypeOK

\* A step that leaves the coroutines alone keeps the types, if the rest of the
\* state has its types.
LEMMA ServerTypes ==
    ASSUME CallInv, UNCHANGED <<pc, failed, got>>, up' \in BOOLEAN, fault' \in BOOLEAN,
           toS1' \in Seq(Request1), toC' \in Seq(Response1), relays' \in Seq(Relay),
           toS2' \in Seq(Request2), toS1R' \in Seq(Response2),
           link' \in {"none", "up", "broken"}, served' \subseteq {"server1", "server2"} \X Tags
    PROVE  TypeOK'
BY DEF CallInv, TypeOK

\* Losing packets makes none of the others untrue.
LEMMA FewerPackets ==
    ASSUME CallInv, UNCHANGED <<relays, served>>,
           Packets(toS1') \subseteq Packets(toS1), Packets(toC') \subseteq Packets(toC),
           Packets(toS2') \subseteq Packets(toS2), Packets(toS1R') \subseteq Packets(toS1R)
    PROVE  PacketsAreTrue' /\ AtWork' = AtWork
BY DEF CallInv, PacketsAreTrue, Served, AtWork

\* What is known of a call of c that was answered.
LEMMA AnswerFacts ==
    ASSUME CallInv, NEW c \in Callers, NEW n \in 1..Len(got[c]), Answered(c, n)
    PROVE  /\ got[c][n].tag \in Tags /\ got[c][n].tag.co = c
           /\ ~got[c][n].err => Served(got[c][n].tag)
           /\ AllAnsweredBefore(c, n) => Own(c, n)
           /\ \A k \in 1..Len(got[c]) :
                Answered(c, k) /\ got[c][k].tag = got[c][n].tag => k = n
           /\ got[c][n].tag \notin TagsOf(toC)
<1>1. ResultsAreTrue /\ TagsOf(toC) \cap Results = {}
  BY DEF CallInv, OnePlace
<1>2. /\ got[c][n].tag \in Tags /\ got[c][n].tag.co = c
      /\ ~got[c][n].err => Served(got[c][n].tag)
      /\ AllAnsweredBefore(c, n) => Own(c, n)
      /\ \A k \in 1..Len(got[c]) :
           Answered(c, k) /\ got[c][k].tag = got[c][n].tag => k = n
  BY <1>1 DEF ResultsAreTrue
<1>3. got[c][n].tag \in Results
  BY <1>2 DEF Results
<1> QED  BY <1>1, <1>2, <1>3

-----------------------------------------------------------------------------
(* Queues of packets.                                                      *)

\* Transitivity of the order, cited where a goal mixes it with sets of tags.
LEMMA LeqTransitive ==
    ASSUME NEW i \in Nat, NEW j \in Nat, NEW k \in Nat, i <= j, k >= j
    PROVE  i <= k
OBVIOUS

\* Taking the first packet leaves the others, and not its tag.
LEMMA TailFacts ==
    ASSUME NEW S, NEW s \in Seq(S), s # <<>>
    PROVE  /\ Head(s) \in S /\ Head(s) \in Packets(s) /\ Head(s).tag \in TagsOf(s)
           /\ Tail(s) \in Seq(S) /\ Packets(Tail(s)) \subseteq Packets(s)
           /\ TagsOf(Tail(s)) \subseteq TagsOf(s)
           /\ Distinct(s) => Distinct(Tail(s)) /\ Head(s).tag \notin TagsOf(Tail(s))
<1>1. /\ Head(s) = s[1] /\ Head(s) \in S /\ Tail(s) \in Seq(S)
      /\ Len(s) \in Nat /\ Len(s) >= 1 /\ Len(Tail(s)) = Len(s) - 1
      /\ \A i \in 1..(Len(s) - 1) : Tail(s)[i] = s[i + 1]
  OBVIOUS
<1>2. Head(s) \in Packets(s) /\ Packets(Tail(s)) \subseteq Packets(s)
  BY <1>1 DEF Packets
<1>3. Head(s).tag \in TagsOf(s) /\ TagsOf(Tail(s)) \subseteq TagsOf(s)
  BY <1>2 DEF TagsOf
<1>4. ASSUME Distinct(s) PROVE Distinct(Tail(s)) /\ Head(s).tag \notin TagsOf(Tail(s))
  <2>1. Distinct(Tail(s))
    BY <1>1, <1>4 DEF Distinct
  <2>2. ASSUME NEW i \in 1..(Len(s) - 1) PROVE Tail(s)[i].tag # Head(s).tag
    BY <1>1, <1>4 DEF Distinct
  <2> QED  BY <1>1, <2>1, <2>2 DEF TagsOf, Packets
<1> QED  BY <1>1, <1>2, <1>3, <1>4

\* Adding a packet adds at most that packet.
LEMMA AppendFacts ==
    ASSUME NEW S, NEW s \in Seq(S), NEW e \in S
    PROVE  /\ Append(s, e) \in Seq(S) /\ Packets(Append(s, e)) = Packets(s) \cup {e}
           /\ TagsOf(Append(s, e)) = TagsOf(s) \cup {e.tag}
           /\ Distinct(s) /\ e.tag \notin TagsOf(s) => Distinct(Append(s, e))
<1>1. /\ Append(s, e) \in Seq(S) /\ Len(s) \in Nat /\ Len(Append(s, e)) = Len(s) + 1
      /\ \A i \in 1..Len(s) : Append(s, e)[i] = s[i]
      /\ Append(s, e)[Len(s) + 1] = e
  OBVIOUS
<1>2. Packets(Append(s, e)) = Packets(s) \cup {e}
  <2>1. 1..(Len(s) + 1) = (1..Len(s)) \cup {Len(s) + 1}
    BY <1>1
  <2> QED  BY <1>1, <2>1 DEF Packets
<1>3. TagsOf(Append(s, e)) = TagsOf(s) \cup {e.tag}
  BY <1>2 DEF TagsOf
<1>4. ASSUME Distinct(s), e.tag \notin TagsOf(s) PROVE Distinct(Append(s, e))
  <2>1. \A i \in 1..Len(s) : s[i].tag # e.tag
    BY <1>4 DEF TagsOf, Packets
  <2> QED  BY <1>1, <1>4, <2>1 DEF Distinct
<1> QED  BY <1>1, <1>2, <1>3, <1>4

\* PushPacket adds at most the packet it is given.
LEMMA PushFacts ==
    ASSUME NEW S, NEW s \in Seq(S), NEW e \in S, NEW alive
    PROVE  /\ PushPacket(s, alive, e) \in Seq(S)
           /\ Packets(PushPacket(s, alive, e)) \subseteq Packets(s) \cup {e}
           /\ TagsOf(PushPacket(s, alive, e)) \subseteq TagsOf(s) \cup {e.tag}
           /\ Distinct(s) /\ e.tag \notin TagsOf(s) => Distinct(PushPacket(s, alive, e))
BY AppendFacts DEF PushPacket

\* An empty queue holds nothing.
LEMMA EmptyFacts ==
    /\ Packets(<<>>) = {} /\ TagsOf(<<>>) = {} /\ Distinct(<<>>)
BY DEF Packets, TagsOf, Distinct

-----------------------------------------------------------------------------
\* Nothing has been sent at the start.
LEMMA InitCallInv == Init => CallInv
<1> SUFFICES ASSUME Init PROVE CallInv
  OBVIOUS
<1>1. Len(Script) \in Nat
  BY ScriptAssumption
<1>2. TypeOK
  <2>1. got \in [Callers -> Seq(Result)] /\ \A c \in Callers : Len(got[c]) = 0
    BY DEF Init
  <2>2. /\ toS1 \in Seq(Request1) /\ toC \in Seq(Response1) /\ relays \in Seq(Relay)
        /\ toS2 \in Seq(Request2) /\ toS1R \in Seq(Response2)
    BY DEF Init
  <2>3. pc \in [Callers -> 0..(Len(Script) + 1)] /\ \A c \in Callers : pc[c] = 0
    BY <1>1 DEF Init
  <2>4. \A c \in Callers : Len(got[c]) = IF pc[c] = 0 THEN 0 ELSE pc[c] - 1
    BY <2>1, <2>3
  <2>5. /\ failed \in BOOLEAN /\ up \in BOOLEAN /\ fault \in BOOLEAN
        /\ link \in {"none", "up", "broken"}
        /\ served \subseteq {"server1", "server2"} \X Tags
    BY Zenon DEF Init
  <2> QED  BY <2>1, <2>2, <2>3, <2>4, <2>5 DEF TypeOK
<1>3. Results = {} /\ ResultsAreTrue
  BY DEF Init, Results, ResultsAreTrue
<1>4. Made /\ OnePlace /\ PacketsAreTrue
  BY <1>3, EmptyFacts DEF Init, Made, OnePlace, PacketsAreTrue, AtWork
<1> QED  BY <1>2, <1>3, <1>4 DEF CallInv

-----------------------------------------------------------------------------
(* The client.                                                             *)

\* Whatever is in a queue or a relay has a tag of the right type.
LEMMA TagTypes ==
    ASSUME TypeOK
    PROVE  /\ TagsOf(toS1) \subseteq Tags /\ TagsOf(relays) \subseteq Tags
           /\ TagsOf(toC) \subseteq Tags /\ Results \subseteq Tags
           /\ Packets(toS1) \subseteq Request1 /\ Packets(relays) \subseteq Relay
           /\ Packets(toC) \subseteq Response1
<1>1. /\ Packets(toS1) \subseteq Request1 /\ Packets(relays) \subseteq Relay
      /\ Packets(toC) \subseteq Response1
  BY DEF TypeOK, Packets
<1> QED  BY <1>1 DEF TagsOf, Request1, Relay, Response1, Results

\* The next call of a coroutine has a tag that is nowhere yet.
LEMMA CallFacts ==
    ASSUME CallInv, NEW c \in Callers, pc[c] <= Len(Script), CallMethod(c, pc[c] + 1),
           NEW t, t = [co |-> c, n |-> pc[c] + 1]
    PROVE  /\ pc' \in [Callers -> 0..(Len(Script) + 1)] /\ pc'[c] = pc[c] + 1
           /\ \A d \in Callers : d # c => pc'[d] = pc[d]
           /\ toS1' \in Seq(Request1) /\ Distinct(toS1')
           /\ \A m \in Packets(toS1') :
                m \in Packets(toS1) \/ (m.from = c /\ m.tag = t /\ m.method = Script[t.n])
           /\ TagsOf(toS1') \subseteq TagsOf(toS1) \cup {t}
           /\ t \notin TagsOf(toS1) \cup TagsOf(relays) \cup TagsOf(toC) \cup Results
<1>0. Len(Script) \in Nat /\ pc[c] \in Nat
  BY ScriptAssumption DEF CallInv, TypeOK
<1>1. /\ pc' \in [Callers -> 0..(Len(Script) + 1)] /\ pc'[c] = pc[c] + 1
      /\ \A d \in Callers : d # c => pc'[d] = pc[d]
  BY <1>0 DEF CallInv, TypeOK, CallMethod
<1>2. t \notin TagsOf(toS1) \cup TagsOf(relays) \cup TagsOf(toC) \cup Results
  <2>1. t.co = c /\ t.n = pc[c] + 1
    OBVIOUS
  <2> QED  BY <1>0, <2>1 DEF CallInv, Made
<1>3. CASE pc[c] + 1 \in Calls
  <2> DEFINE e == Request(Script[pc[c] + 1], c, t)
  <2>1. e \in Request1 /\ e.tag = t /\ e.from = c /\ e.method = Script[t.n]
    BY <1>0, <1>3, ScriptAssumption DEF Request, Request1, Tags, Calls
  <2>2. toS1' = PushPacket(toS1, up, e)
    BY <1>3 DEF CallMethod
  <2>3. toS1 \in Seq(Request1) /\ Distinct(toS1)
    BY DEF CallInv, TypeOK, OnePlace
  <2> HIDE DEF e
  <2>4. /\ PushPacket(toS1, up, e) \in Seq(Request1)
        /\ Packets(PushPacket(toS1, up, e)) \subseteq Packets(toS1) \cup {e}
        /\ TagsOf(PushPacket(toS1, up, e)) \subseteq TagsOf(toS1) \cup {e.tag}
        /\ Distinct(PushPacket(toS1, up, e))
    BY <2>1, <2>3, <1>2, PushFacts
  <2> QED  BY <1>1, <1>2, <2>1, <2>2, <2>4
<1>4. CASE pc[c] + 1 \notin Calls
  <2>1. toS1' = toS1
    BY <1>4 DEF CallMethod
  <2> QED  BY <1>1, <1>2, <2>1 DEF CallInv, TypeOK, OnePlace
<1> QED  BY <1>3, <1>4

\* A call returns: the result is true, and a coroutine none of whose calls was
\* given up has got its own answer.
LEMMA ReturnFacts ==
    ASSUME CallInv, NEW c \in Callers, Suspended(c),
           NEW how \in {"response", "timeout", "cancel"}, NEW err \in BOOLEAN,
           NEW tag \in Tags \cup {NoTag}, NEW inner \in Tags \cup {NoTag},
           how = "response" =>
             tag \in TagsOf(toC) /\ tag.co = c /\ (~err => Served(tag)),
           Return(c, how, err, tag, inner), UNCHANGED served
    PROVE  /\ failed' \in BOOLEAN /\ got' \in [Callers -> Seq(Result)]
           /\ Len(got'[c]) = Len(got[c]) + 1
           /\ \A d \in Callers : d # c => got'[d] = got[d]
           /\ \A u \in Results' : u \in Results \/ (how = "response" /\ u = tag)
           /\ ResultsAreTrue'
<1> DEFINE n == Len(got[c]) + 1
           r == [how |-> how, ok |-> ~failed', err |-> err, tag |-> tag, inner |-> inner]
<1>1. failed' \in BOOLEAN /\ (~failed' => how = "response" /\ ~err)
  BY Zenon DEF Return, ControllerFailed, CallInv, TypeOK
<1>2. r \in Result /\ got[c] \in Seq(Result) /\ got \in [Callers -> Seq(Result)]
  BY Zenon, <1>1 DEF Result, CallInv, TypeOK
<1>3. got' = [got EXCEPT ![c] = Append(@, r)]
  BY DEF Return
<1>4. /\ r.how = how /\ r.ok = ~failed' /\ r.err = err /\ r.tag = tag
  OBVIOUS
<1> HIDE DEF r
<1>5. /\ got' \in [Callers -> Seq(Result)]
      /\ Len(got[c]) \in Nat /\ Len(got'[c]) = n /\ got'[c][n] = r
      /\ \A k \in 1..Len(got[c]) : got'[c][k] = got[c][k]
      /\ \A d \in Callers : d # c => got'[d] = got[d]
  BY <1>2, <1>3
<1>6. pc[c] = n /\ n \in Calls
  BY ScriptAssumption, <1>5 DEF CallInv, TypeOK, Suspended, Calls
<1>7. \A u \in Results' : u \in Results \/ (how = "response" /\ u = tag)
  <2> SUFFICES ASSUME NEW u \in Tags, NEW d \in Callers, NEW k \in 1..Len(got'[d]),
                      got'[d][k].how = "response", got'[d][k].tag = u
               PROVE  u \in Results \/ (how = "response" /\ u = tag)
    BY DEF Results, Answered
  <2>1. CASE d = c /\ k = n
    BY <2>1, <1>4, <1>5
  <2>2. CASE ~(d = c /\ k = n)
    <3>1. k \in 1..Len(got[d]) /\ got'[d][k] = got[d][k]
      BY <2>2, <1>5
    <3> QED  BY <3>1 DEF Results, Answered
  <2> QED  BY <2>1, <2>2
<1>8. how = "response" =>
        /\ tag \in Tags /\ tag \notin Results /\ tag.n \in 1..n
  BY <1>6, TagTypes DEF CallInv, OnePlace, Made, Tags, Calls
<1>9. ASSUME NEW k \in 1..Len(got[c]), Answered(c, k), how = "response"
      PROVE  got[c][k].tag # tag
  BY <1>8, <1>9 DEF Results
<1>10. ASSUME how = "response", \A k \in 1..(n - 1) : Answered(c, k)
       PROVE  tag = [co |-> c, n |-> n]
  <2>1. CASE tag.n = n
    BY <2>1, <1>8, <1>10 DEF Tags
  <2>2. CASE tag.n # n
    <3>1. tag.n \in 1..Len(got[c])
      BY <2>2, <1>5, <1>8, <1>10
    <3>2. Answered(c, tag.n) /\ AllAnsweredBefore(c, tag.n)
      BY <3>1, <1>5, <1>10 DEF AllAnsweredBefore
    <3>3. got[c][tag.n].tag = [co |-> c, n |-> tag.n]
      BY <3>1, <3>2 DEF CallInv, ResultsAreTrue, Own
    <3>4. tag = [co |-> c, n |-> tag.n]
      BY <1>8, <1>10 DEF Tags
    <3> QED  BY <3>1, <3>2, <3>3, <3>4, <1>9, <1>10
  <2> QED  BY <2>1, <2>2
<1>11. ResultsAreTrue'
  <2> DEFINE Good(g, d, k) ==
        /\ g[k].ok => g[k].how = "response" /\ ~g[k].err
        /\ g[k].how = "response" =>
             /\ g[k].tag \in Tags /\ g[k].tag.co = d
             /\ ~g[k].err => Served(g[k].tag)
             /\ (\A j \in 1..(k - 1) : g[j].how = "response")
                  => g[k].tag = [co |-> d, n |-> k]
             /\ \A j \in 1..Len(g) : g[j].how = "response" /\ g[j].tag = g[k].tag => j = k
  <2> SUFFICES ASSUME NEW d \in Callers, NEW k \in 1..Len(got'[d])
               PROVE  Good(got'[d], d, k)
    BY ZenonT(30) DEF ResultsAreTrue, Answered, AllAnsweredBefore, Own, Served
  <2>0. \A i \in 1..Len(got[d]) : Good(got[d], d, i)
    BY Zenon DEF CallInv, ResultsAreTrue, Answered, AllAnsweredBefore, Own
  <2>1. CASE d # c
    <3> HIDE DEF Good
    <3>1. got'[d] = got[d]
      BY <2>1, <1>5
    <3> QED  BY <2>0, <3>1
  <2>2. CASE d = c /\ k = n
    <3>1. \A j \in 1..(n - 1) : got'[c][j] = got[c][j] /\ j \in 1..Len(got[c])
      BY <1>5
    <3>2. \A j \in 1..Len(got'[c]) : j = n \/ j \in 1..(n - 1)
      BY <1>5
    <3> QED
      BY Zenon, <2>2, <1>1, <1>4, <1>5, <1>8, <1>9, <1>10, <3>1, <3>2 DEF Answered
  <2>3. CASE d = c /\ k # n
    <3>1. k \in 1..Len(got[c]) /\ \A j \in 1..(k - 1) : j \in 1..Len(got[c])
      BY <2>3, <1>5
    <3>2. \A j \in 1..Len(got'[c]) : j = n \/ j \in 1..Len(got[c])
      BY <1>5
    <3>3. /\ got'[d][k] = got[d][k]
          /\ \A j \in 1..(k - 1) : got'[d][j] = got[d][j]
      BY <2>3, <1>5, <3>1
    <3>4. Good(got[d], d, k)
      BY <2>0, <2>3, <3>1
    <3>5. ASSUME NEW j \in 1..Len(got'[d]), got[d][k].how = "response",
                 got'[d][j].how = "response", got'[d][j].tag = got[d][k].tag
          PROVE  j = k
      <4>1. CASE j = n
        BY <4>1, <2>3, <3>1, <3>5, <1>4, <1>5, <1>9 DEF Answered
      <4>2. CASE j \in 1..Len(got[c])
        <5>1. got'[d][j] = got[d][j] /\ j \in 1..Len(got[d])
          BY <4>2, <2>3, <1>5
        <5> QED  BY <5>1, <3>4, <3>5
      <4> QED  BY <2>3, <3>2, <4>1, <4>2
    <3> QED  BY <3>3, <3>4, <3>5
  <2> QED  BY <2>1, <2>2, <2>3
<1> QED  BY <1>1, <1>5, <1>7, <1>11

\* Steps of the servers leave the results alone, and take no service back.
LEMMA ResultsFrame ==
    ASSUME ResultsAreTrue, got' = got, served \subseteq served'
    PROVE  ResultsAreTrue' /\ Results' = Results
<1>1. \A u : Served(u) => Served(u)'
  BY DEF Served
<1>2. \A d, k : /\ Answered(d, k)' = Answered(d, k) /\ Own(d, k)' = Own(d, k)
               /\ AllAnsweredBefore(d, k)' = AllAnsweredBefore(d, k)
  BY DEF Answered, Own, AllAnsweredBefore
<1>3. ResultsAreTrue'
  BY <1>1, <1>2 DEF ResultsAreTrue
<1>4. Results' = Results
  BY <1>2 DEF Results
<1> QED  BY <1>3, <1>4

\* Launch makes the first call.
LEMMA LaunchInv ==
    ASSUME CallInv, NEW c \in Callers, Launch(c)
    PROVE  CallInv'
<1> DEFINE t == [co |-> c, n |-> pc[c] + 1]
<1>0. pc[c] = 0 /\ pc[c] <= Len(Script) /\ CallMethod(c, pc[c] + 1) /\ Len(Script) \in Nat
  BY ScriptAssumption DEF Launch
<1>1. /\ pc' \in [Callers -> 0..(Len(Script) + 1)] /\ pc'[c] = pc[c] + 1
      /\ \A d \in Callers : d # c => pc'[d] = pc[d]
      /\ toS1' \in Seq(Request1) /\ Distinct(toS1')
      /\ \A m \in Packets(toS1') :
           m \in Packets(toS1) \/ (m.from = c /\ m.tag = t /\ m.method = Script[t.n])
      /\ TagsOf(toS1') \subseteq TagsOf(toS1) \cup {t}
      /\ t \notin TagsOf(toS1) \cup TagsOf(relays) \cup TagsOf(toC) \cup Results
  BY <1>0, CallFacts
<1>2. t.co = c /\ t.n = pc[c] + 1
  OBVIOUS
<1> HIDE DEF t
<1>3. UNCHANGED <<failed, got, toC, up, relays, toS2, toS1R, link, served, fault>>
  BY DEF Launch, session2
<1>4. TypeOK'
  <2>1. \A d \in Callers : Len(got'[d]) = IF pc'[d] = 0 THEN 0 ELSE pc'[d] - 1
    <3> TAKE d \in Callers
    <3>1. pc[d] \in Nat /\ Len(got[d]) = IF pc[d] = 0 THEN 0 ELSE pc[d] - 1
      BY <1>0 DEF CallInv, TypeOK
    <3>2. CASE d = c
      BY <1>0, <1>1, <1>3, <3>1, <3>2
    <3>3. CASE d # c
      BY <1>1, <1>3, <3>1, <3>3
    <3> QED  BY <3>2, <3>3
  <2> QED  BY <1>1, <1>3, <2>1 DEF CallInv, TypeOK
<1>5. Results' = Results /\ AtWork' = AtWork
  BY <1>3 DEF Results, AtWork, Answered
<1>6. Made'
  <2>1. ASSUME NEW d \in Callers
        PROVE  pc[d] \in Nat /\ pc'[d] >= pc[d] /\ pc'[d] \in Nat
    <3>1. pc[d] \in Nat
      BY <1>0 DEF CallInv, TypeOK
    <3>2. CASE d = c
      BY <1>1, <3>1, <3>2
    <3>3. CASE d # c
      BY <1>1, <3>1, <3>3
    <3> QED  BY <3>2, <3>3
  <2>2. \A u \in Tags : u.co \in Callers /\ u.n \in Nat
    BY DEF Tags, Calls
  <2> QED  BY <1>1, <1>2, <1>3, <1>5, <2>1, <2>2, TagTypes DEF CallInv, Made
<1>7. OnePlace'
  BY <1>1, <1>3, <1>5 DEF CallInv, OnePlace
<1>8. PacketsAreTrue'
  BY <1>1, <1>2, <1>3 DEF CallInv, PacketsAreTrue, Served
<1>9. ResultsAreTrue'
  BY <1>3, ResultsFrame DEF CallInv
<1> QED  BY <1>4, <1>6, <1>7, <1>8, <1>9 DEF CallInv

\* A call of the client returns, with a response that is taken from the queue
\* or without one, and the next call is made.
LEMMA ReturnInv ==
    ASSUME CallInv, NEW c \in Callers, Suspended(c),
           NEW how \in {"response", "timeout", "cancel"}, NEW err \in BOOLEAN,
           NEW tag \in Tags \cup {NoTag}, NEW inner \in Tags \cup {NoTag},
           how = "response" =>
             /\ tag \in TagsOf(toC) /\ tag.co = c /\ (~err => Served(tag))
             /\ tag \notin TagsOf(toC'),
           Return(c, how, err, tag, inner),
           toC' \in Seq(Response1), Distinct(toC'), Packets(toC') \subseteq Packets(toC),
           UNCHANGED <<up, relays, toS2, toS1R, link, served, fault>>
    PROVE  CallInv'
<1> DEFINE t == [co |-> c, n |-> pc[c] + 1]
<1>0. /\ pc[c] <= Len(Script) /\ CallMethod(c, pc[c] + 1) /\ Len(Script) \in Nat
      /\ pc[c] \in Nat /\ pc[c] # 0
  BY ScriptAssumption DEF Return, Suspended, Calls
<1>1. /\ pc' \in [Callers -> 0..(Len(Script) + 1)] /\ pc'[c] = pc[c] + 1
      /\ \A d \in Callers : d # c => pc'[d] = pc[d]
      /\ toS1' \in Seq(Request1) /\ Distinct(toS1')
      /\ \A m \in Packets(toS1') :
           m \in Packets(toS1) \/ (m.from = c /\ m.tag = t /\ m.method = Script[t.n])
      /\ TagsOf(toS1') \subseteq TagsOf(toS1) \cup {t}
      /\ t \notin TagsOf(toS1) \cup TagsOf(relays) \cup TagsOf(toC) \cup Results
  BY <1>0, CallFacts
<1>2. t.co = c /\ t.n = pc[c] + 1
  OBVIOUS
<1> HIDE DEF t
<1>3. /\ failed' \in BOOLEAN /\ got' \in [Callers -> Seq(Result)]
      /\ Len(got'[c]) = Len(got[c]) + 1
      /\ \A d \in Callers : d # c => got'[d] = got[d]
      /\ \A u \in Results' : u \in Results \/ (how = "response" /\ u = tag)
      /\ ResultsAreTrue'
  BY ReturnFacts
<1>4. TypeOK'
  <2>1. \A d \in Callers : Len(got'[d]) = IF pc'[d] = 0 THEN 0 ELSE pc'[d] - 1
    <3> TAKE d \in Callers
    <3>1. pc[d] \in Nat /\ Len(got[d]) = IF pc[d] = 0 THEN 0 ELSE pc[d] - 1
      BY <1>0 DEF CallInv, TypeOK
    <3>2. CASE d = c
      <4>1. Len(got'[c]) = Len(got[c]) + 1 /\ pc'[c] = pc[c] + 1
        BY <1>1, <1>3
      <4>2. Len(got[c]) = pc[c] - 1
        BY <1>0, <3>1, <3>2
      <4> QED  BY <1>0, <3>2, <4>1, <4>2
    <3>3. CASE d # c
      BY <1>1, <1>3, <3>1, <3>3
    <3> QED  BY <3>2, <3>3
  <2> QED  BY <1>1, <1>3, <2>1 DEF CallInv, TypeOK
<1>5. AtWork' = AtWork /\ TagsOf(relays') = TagsOf(relays)
  BY DEF AtWork
<1>6. TagsOf(toC') \subseteq TagsOf(toC)
  BY DEF TagsOf
<1>7. Made'
  <2>1. ASSUME NEW d \in Callers
        PROVE  pc[d] \in Nat /\ pc'[d] >= pc[d] /\ pc'[d] \in Nat
    <3>1. pc[d] \in Nat
      BY <1>0 DEF CallInv, TypeOK
    <3>2. CASE d = c
      BY <1>1, <3>1, <3>2
    <3>3. CASE d # c
      BY <1>1, <3>1, <3>3
    <3> QED  BY <3>2, <3>3
  <2>2. \A u \in Tags : u.co \in Callers /\ u.n \in Nat
    BY DEF Tags, Calls
  <2>3. ASSUME NEW u \in TagsOf(toS1') \cup TagsOf(relays') \cup TagsOf(toC') \cup Results'
        PROVE  u = t \/ u \in TagsOf(toS1) \cup TagsOf(relays) \cup TagsOf(toC) \cup Results
    BY <1>1, <1>3, <1>5, <1>6
  <2>4. ASSUME NEW u \in TagsOf(toS1) \cup TagsOf(relays) \cup TagsOf(toC) \cup Results
        PROVE  u.n <= pc'[u.co]
    <3>1. u \in Tags /\ u.n <= pc[u.co]
      BY TagTypes DEF CallInv, Made
    <3>2. u.co \in Callers /\ u.n \in Nat
      BY <2>2, <3>1
    <3>3. pc[u.co] \in Nat /\ pc'[u.co] >= pc[u.co] /\ pc'[u.co] \in Nat
      BY <2>1, <3>2
    <3> QED  BY <3>1, <3>2, <3>3, LeqTransitive
  <2> QED  BY <1>1, <1>2, <2>1, <2>3, <2>4 DEF Made
<1>8. OnePlace'
  <2>1. /\ TagsOf(toS1) \cap (TagsOf(relays) \cup TagsOf(toC) \cup Results) = {}
        /\ AtWork \cap (TagsOf(toC) \cup Results) = {} /\ TagsOf(toC) \cap Results = {}
        /\ Distinct(relays)
    BY DEF CallInv, OnePlace
  <2>2. /\ TagsOf(toS1') \cap (TagsOf(relays') \cup TagsOf(toC') \cup Results') = {}
        /\ AtWork' \cap (TagsOf(toC') \cup Results') = {}
        /\ TagsOf(toC') \cap Results' = {}
    <3>1. /\ TagsOf(toS1') \subseteq TagsOf(toS1) \cup {t}
          /\ t \notin TagsOf(toS1) \cup TagsOf(relays) \cup TagsOf(toC) \cup Results
      BY <1>1, Zenon
    <3>2. \A u \in Results' : u \in Results \/ (u \in TagsOf(toC) /\ u \notin TagsOf(toC'))
      BY <1>3, Zenon
    <3>3. TagsOf(toC') \cap Results' = {}
      BY <1>6, <2>1, <3>2, Zenon
    <3>4. AtWork' \cap (TagsOf(toC') \cup Results') = {}
      BY <1>5, <1>6, <2>1, <3>2, Zenon
    <3>5. TagsOf(toS1') \cap (TagsOf(relays') \cup TagsOf(toC') \cup Results') = {}
      BY Zenon, <1>5, <1>6, <2>1, <3>1, <3>2, Zenon
    <3> QED  BY <3>3, <3>4, <3>5, Zenon
  <2> QED  BY <1>1, <2>1, <2>2 DEF OnePlace
<1>9. PacketsAreTrue'
  BY Zenon, <1>1, <1>2 DEF CallInv, PacketsAreTrue, Served
<1> QED  BY <1>3, <1>4, <1>7, <1>8, <1>9 DEF CallInv

\* A timeout or a cancellation at the client.
LEMMA WakeInv ==
    ASSUME CallInv, NEW c \in Callers, NEW how \in {"timeout", "cancel"}, ClientWake(c, how)
    PROVE  CallInv'
<1>1. /\ Suspended(c) /\ Return(c, how, FALSE, NoTag, NoTag)
      /\ UNCHANGED <<toC, up, relays, toS2, toS1R, link, served, fault>>
  BY Zenon DEF ClientWake, session2
<1>2. toC' \in Seq(Response1) /\ Distinct(toC') /\ Packets(toC') \subseteq Packets(toC)
  BY <1>1 DEF CallInv, TypeOK, OnePlace
<1>3. how \in {"response", "timeout", "cancel"} /\ how # "response" /\ FALSE \in BOOLEAN
  OBVIOUS
<1> QED  BY <1>1, <1>2, <1>3, ReturnInv

\* A packet arrives at the client.
LEMMA ReceiveInv ==
    ASSUME CallInv, ClientReceive
    PROVE  CallInv'
<1> DEFINE m == Head(toC)
<1>1. /\ toC # <<>> /\ toC' = Tail(toC)
      /\ UNCHANGED <<up, relays, toS2, toS1R, link, served, fault>>
  BY DEF ClientReceive, session2
<1>2. /\ m \in Response1 /\ m \in Packets(toC) /\ m.tag \in TagsOf(toC)
      /\ toC' \in Seq(Response1) /\ Packets(toC') \subseteq Packets(toC)
      /\ TagsOf(toC') \subseteq TagsOf(toC) /\ Distinct(toC') /\ m.tag \notin TagsOf(toC')
  BY <1>1, TailFacts DEF CallInv, TypeOK, OnePlace
<1>3. /\ m.to \in Callers /\ m.err \in BOOLEAN /\ m.tag \in Tags
      /\ m.inner \in Tags \cup {NoTag}
      /\ m.tag.co = m.to /\ (~m.err => Served(m.tag))
  BY <1>2 DEF CallInv, PacketsAreTrue, Response1
<1>4. CASE Suspended(m.to)
  <2>1. Return(m.to, "response", m.err, m.tag, m.inner)
    BY <1>4 DEF ClientReceive
  <2> HIDE DEF m
  <2> QED  BY <1>1, <1>2, <1>3, <1>4, <2>1, ReturnInv
<1>5. CASE ~Suspended(m.to)
  <2>1. UNCHANGED <<pc, failed, got, toS1>>
    BY <1>5 DEF ClientReceive, client
  <2>2. Results' = Results /\ AtWork' = AtWork
    BY <1>1, <2>1 DEF Results, AtWork, Answered
  <2>3. TypeOK'
    BY <1>1, <1>2, <2>1 DEF CallInv, TypeOK
  <2>4. Made' /\ OnePlace'
    BY <1>1, <1>2, <2>1, <2>2 DEF CallInv, Made, OnePlace
  <2>5. PacketsAreTrue'
    BY <1>1, <1>2, <2>1 DEF CallInv, PacketsAreTrue, Served
  <2>6. ResultsAreTrue'
    BY <1>1, <2>1, ResultsFrame DEF CallInv
  <2> QED  BY <2>3, <2>4, <2>5, <2>6 DEF CallInv
<1> QED  BY <1>4, <1>5

-----------------------------------------------------------------------------
(* The servers and the sessions.                                           *)

\* A step that only serves a call, or takes packets from queues, or answers a
\* call that is in no other place, preserves the invariant; the relays keep
\* their tags.
LEMMA ServerStep ==
    ASSUME CallInv, TypeOK', UNCHANGED <<pc, failed, got>>, served \subseteq served',
           Packets(toS1') \subseteq Packets(toS1), Distinct(toS1'),
           Distinct(toC'), Distinct(relays'),
           NEW t \in Tags, t.n <= pc[t.co], t \notin TagsOf(toC) \cup Results,
           t \notin TagsOf(toS1'), t \notin AtWork',
           TagsOf(toC') \subseteq TagsOf(toC) \cup {t},
           TagsOf(relays') = TagsOf(relays), AtWork' \subseteq AtWork,
           PacketsAreTrue'
    PROVE  CallInv'
<1>1. ResultsAreTrue' /\ Results' = Results
  BY ResultsFrame DEF CallInv
<1>2. TagsOf(toS1') \subseteq TagsOf(toS1)
  BY DEF TagsOf
<1>3. Made'
  BY <1>1, <1>2 DEF CallInv, Made
<1>4. OnePlace'
  BY <1>1, <1>2 DEF CallInv, OnePlace
<1> QED  BY <1>1, <1>3, <1>4 DEF CallInv

\* A step that answers nothing, in which a call may move from the queue of
\* server 1 to a relay, preserves the invariant.
LEMMA QuietStep ==
    ASSUME CallInv, TypeOK', UNCHANGED <<pc, failed, got>>, served \subseteq served',
           Packets(toS1') \subseteq Packets(toS1), Distinct(toS1'),
           TagsOf(toC') \subseteq TagsOf(toC), Distinct(toC'), Distinct(relays'),
           TagsOf(relays') \subseteq TagsOf(relays) \cup (TagsOf(toS1) \ TagsOf(toS1')),
           AtWork' \subseteq AtWork \cup (TagsOf(toS1) \ TagsOf(toS1')),
           PacketsAreTrue'
    PROVE  CallInv'
<1>1. ResultsAreTrue' /\ Results' = Results
  BY ResultsFrame DEF CallInv
<1>2. TagsOf(toS1') \subseteq TagsOf(toS1)
  BY DEF TagsOf
<1>3. Made'
  BY <1>1, <1>2 DEF CallInv, Made
<1>4. OnePlace'
  BY <1>1, <1>2 DEF CallInv, OnePlace
<1> QED  BY <1>1, <1>3, <1>4 DEF CallInv

\* A running relay is a relay.
LEMMA AtWorkIsRelay == AtWork \subseteq TagsOf(relays)
BY DEF AtWork, TagsOf, Packets

\* OnRpcDone adds at most its response to the client's queue.
LEMMA DoneFacts ==
    ASSUME CallInv, NEW from \in Callers, NEW err \in BOOLEAN, NEW tag \in Tags,
           NEW inner \in Tags \cup {NoTag}, OnRpcDone(from, err, tag, inner),
           tag \notin TagsOf(toC)
    PROVE  /\ toC' \in Seq(Response1) /\ Distinct(toC')
           /\ TagsOf(toC') \subseteq TagsOf(toC) \cup {tag}
           /\ \A m \in Packets(toC') :
                \/ m \in Packets(toC)
                \/ m.to = from /\ m.err = err /\ m.tag = tag /\ m.inner = inner
<1> DEFINE e == Response(from, err, tag, inner)
<1>1. e \in Response1 /\ e.to = from /\ e.err = err /\ e.tag = tag /\ e.inner = inner
  BY DEF Response, Response1
<1>2. toC' = PushPacket(toC, up, e) /\ toC \in Seq(Response1) /\ Distinct(toC)
  BY DEF OnRpcDone, CallInv, TypeOK, OnePlace
<1> HIDE DEF e
<1>3. /\ PushPacket(toC, up, e) \in Seq(Response1)
      /\ Packets(PushPacket(toC, up, e)) \subseteq Packets(toC) \cup {e}
      /\ TagsOf(PushPacket(toC, up, e)) \subseteq TagsOf(toC) \cup {e.tag}
      /\ Distinct(PushPacket(toC, up, e))
  BY <1>1, <1>2, PushFacts
<1> QED  BY <1>1, <1>2, <1>3

\* Server 1 handles a request: Echo, a GetData that kills it, a relay that
\* cannot be started or one that is.
LEMMA RequestInv ==
    ASSUME CallInv, Server1Request
    PROVE  CallInv'
<1> DEFINE m == Head(toS1)
<1>1. /\ toS1 # <<>> /\ toS1' = Tail(toS1) /\ UNCHANGED <<pc, failed, got, up>>
      /\ \/ m.method = "Echo" /\ Echo(m)
         \/ m.method = "GetData" /\ GetData(m)
         \/ m.method = "RelayEcho" /\ RelayWithoutChannel(m)
         \/ m.method = "RelayEcho" /\ RelayEcho(m)
  BY DEF Server1Request, client
<1>2. /\ m \in Request1 /\ m \in Packets(toS1) /\ m.tag \in TagsOf(toS1)
      /\ toS1' \in Seq(Request1) /\ Packets(toS1') \subseteq Packets(toS1)
      /\ Distinct(toS1') /\ m.tag \notin TagsOf(toS1')
  BY <1>1, TailFacts DEF CallInv, TypeOK, OnePlace
<1>3. /\ m.from \in Callers /\ m.tag \in Tags /\ m.from = m.tag.co
      /\ m.method = Script[m.tag.n] /\ m.tag.n <= pc[m.tag.co]
      /\ m.tag \notin TagsOf(relays) \cup TagsOf(toC) \cup Results
  BY <1>2 DEF CallInv, PacketsAreTrue, Request1, Made, OnePlace
<1>4. Distinct(relays) /\ Distinct(toC)
  BY DEF CallInv, OnePlace
<1> HIDE DEF m
<1>9. m.from \in Callers /\ m.tag \in Tags /\ m.tag \notin TagsOf(toC)
  BY <1>3
<1>5. CASE m.method = "Echo" /\ Echo(m)
  <2>1. /\ served' = served \cup {<<"server1", m.tag>>}
        /\ OnRpcDone(m.from, FALSE, m.tag, NoTag)
        /\ UNCHANGED <<relays, toS2, toS1R, link, fault>>
    BY Zenon, <1>5 DEF Echo, session2
  <2>2. /\ toC' \in Seq(Response1) /\ Distinct(toC')
        /\ TagsOf(toC') \subseteq TagsOf(toC) \cup {m.tag}
        /\ \A r \in Packets(toC') :
             r \in Packets(toC)
             \/ (r.to = m.from /\ r.err = FALSE /\ r.tag = m.tag /\ r.inner = NoTag)
    <3> DEFINE err == FALSE
    <3>1. err \in BOOLEAN /\ NoTag \in Tags \cup {NoTag} /\ OnRpcDone(m.from, err, m.tag, NoTag)
      BY Zenon, <2>1
    <3> HIDE DEF err
    <3>2. /\ toC' \in Seq(Response1) /\ Distinct(toC')
          /\ TagsOf(toC') \subseteq TagsOf(toC) \cup {m.tag}
          /\ \A r \in Packets(toC') :
               r \in Packets(toC)
               \/ (r.to = m.from /\ r.err = err /\ r.tag = m.tag /\ r.inner = NoTag)
      BY <1>9, <3>1, DoneFacts
    <3> QED  BY <3>2 DEF err
  <2>3. TypeOK'
    <3>1. served' \subseteq {"server1", "server2"} \X Tags
      BY <1>9, <2>1, QueueTypes
    <3> QED  BY <1>1, <1>2, <2>1, <2>2, <3>1, QueueTypes, ServerTypes
  <2>4. PacketsAreTrue'
    <3>1. Script[m.tag.n] = "Echo" /\ "Echo" # "RelayEcho"
      BY <1>3, <1>5
    <3> QED  BY Zenon, <1>2, <1>3, <2>1, <2>2, <3>1 DEF CallInv, PacketsAreTrue, Served
  <2>5. AtWork' = AtWork
    BY <2>1 DEF AtWork
  <2>6. served \subseteq served'
    BY <2>1
  <2> QED
    BY Zenon, <1>1, <1>2, <1>3, <1>4, <2>1, <2>2, <2>3, <2>4, <2>5, <2>6, AtWorkIsRelay, ServerStep
<1>6. CASE m.method = "GetData" /\ GetData(m)
  <2>1. fault' = TRUE /\ UNCHANGED <<toC, relays, toS2, toS1R, link, served>>
    BY <1>6 DEF GetData, session2
  <2>2. TypeOK'
    BY <1>1, <1>2, <2>1, QueueTypes, ServerTypes
  <2>3. PacketsAreTrue' /\ AtWork' = AtWork
    BY <1>2, <2>1, FewerPackets
  <2> QED  BY <1>1, <1>2, <1>4, <2>1, <2>2, <2>3, QuietStep
<1>7. CASE m.method = "RelayEcho" /\ RelayWithoutChannel(m)
  <2>1. /\ OnRpcDone(m.from, TRUE, m.tag, NoTag)
        /\ UNCHANGED <<relays, toS2, toS1R, link, served, fault>>
    BY Zenon, <1>7 DEF RelayWithoutChannel, session2
  <2>2. /\ toC' \in Seq(Response1) /\ Distinct(toC')
        /\ TagsOf(toC') \subseteq TagsOf(toC) \cup {m.tag}
        /\ \A r \in Packets(toC') :
             r \in Packets(toC)
             \/ (r.to = m.from /\ r.err = TRUE /\ r.tag = m.tag /\ r.inner = NoTag)
    <3> DEFINE err == TRUE
    <3>1. err \in BOOLEAN /\ NoTag \in Tags \cup {NoTag} /\ OnRpcDone(m.from, err, m.tag, NoTag)
      BY Zenon, <2>1
    <3> HIDE DEF err
    <3>2. /\ toC' \in Seq(Response1) /\ Distinct(toC')
          /\ TagsOf(toC') \subseteq TagsOf(toC) \cup {m.tag}
          /\ \A r \in Packets(toC') :
               r \in Packets(toC)
               \/ (r.to = m.from /\ r.err = err /\ r.tag = m.tag /\ r.inner = NoTag)
      BY <1>9, <3>1, DoneFacts
    <3> QED  BY <3>2 DEF err
  <2>3. TypeOK'
    BY Zenon, <1>1, <1>2, <2>1, <2>2, QueueTypes, ServerTypes
  <2>4. PacketsAreTrue'
    BY Zenon, <1>2, <1>3, <2>1, <2>2 DEF CallInv, PacketsAreTrue, Served
  <2>5. AtWork' = AtWork
    BY <2>1 DEF AtWork
  <2> QED
    BY <1>1, <1>2, <1>3, <1>4, <2>1, <2>2, <2>3, <2>4, <2>5, AtWorkIsRelay, ServerStep
<1>8. CASE m.method = "RelayEcho" /\ RelayEcho(m)
  <2> DEFINE r == [from |-> m.from, tag |-> m.tag, ended |-> FALSE]
             q == Request("Echo", Len(relays) + 1, m.tag)
  <2>1. /\ link' = GetRpcChannel /\ relays' = Append(relays, r)
        /\ toS2' = PushPacket(toS2, link' = "up", q)
        /\ UNCHANGED <<toC, toS1R, served, fault>>
    BY <1>8 DEF RelayEcho
  <2>2. relays \in Seq(Relay) /\ toS2 \in Seq(Request2) /\ Len(relays) \in Nat
    BY QueueTypes
  <2>3. /\ r \in Relay /\ r.from = m.from /\ r.tag = m.tag
        /\ q \in Request2 /\ q.from = Len(relays) + 1 /\ q.tag = m.tag
    BY <1>9, <2>2 DEF Relay, Request2, Request
  <2> HIDE DEF r, q
  <2>4. /\ relays' \in Seq(Relay) /\ Packets(relays') = Packets(relays) \cup {r}
        /\ TagsOf(relays') = TagsOf(relays) \cup {m.tag} /\ Distinct(relays')
    <3>1. m.tag \notin TagsOf(relays) /\ relays' = Append(relays, r)
      BY <1>3, <2>1
    <3> QED  BY <1>4, <2>2, <2>3, <3>1, AppendFacts
  <2>5. /\ Len(relays') = Len(relays) + 1 /\ relays'[Len(relays) + 1] = r
        /\ \A i \in 1..Len(relays) : relays'[i] = relays[i]
    BY <2>1, <2>2, <2>3
  <2>6. toS2' \in Seq(Request2) /\ Packets(toS2') \subseteq Packets(toS2) \cup {q}
    BY <2>1, <2>2, <2>3, PushFacts
  <2>7. link' \in {"none", "up", "broken"}
    BY <2>1, QueueTypes DEF GetRpcChannel
  <2>8. TypeOK'
    BY <1>1, <1>2, <2>1, <2>4, <2>6, <2>7, QueueTypes, ServerTypes
  <2>9. PacketsAreTrue'
    <3>1. \A p \in Packets(toS2') : p.from \in 1..Len(relays') /\ p.tag = relays'[p.from].tag
      <4> TAKE p \in Packets(toS2')
      <4>1. CASE p = q
        BY <4>1, <2>2, <2>3, <2>5
      <4>2. CASE p \in Packets(toS2)
        <5>1. p.from \in 1..Len(relays) /\ p.tag = relays[p.from].tag
          BY <4>2 DEF CallInv, PacketsAreTrue
        <5> QED  BY <5>1, <2>2, <2>5
      <4> QED  BY <4>1, <4>2, <2>6
    <3>2. \A p \in Packets(toS1R') :
            p.to \in 1..Len(relays') /\ p.tag = relays'[p.to].tag /\ <<"server2", p.tag>> \in served'
      <4> TAKE p \in Packets(toS1R')
      <4>1. p.to \in 1..Len(relays) /\ p.tag = relays[p.to].tag /\ <<"server2", p.tag>> \in served
        BY Zenon, <2>1 DEF CallInv, PacketsAreTrue
      <4>2. p.to \in 1..Len(relays')
        BY <4>1, <2>2, <2>5
      <4>3. relays'[p.to] = relays[p.to]
        BY <4>1, <2>5
      <4>4. served' = served
        BY <2>1
      <4> QED  BY <4>1, <4>2, <4>3, <4>4
    <3>3. \A p \in Packets(relays') : p.from = p.tag.co /\ Script[p.tag.n] = "RelayEcho"
      BY Zenon, <1>3, <1>8, <2>3, <2>4 DEF CallInv, PacketsAreTrue
    <3> QED  BY Zenon, <1>2, <2>1, <3>1, <3>2, <3>3 DEF CallInv, PacketsAreTrue, Served
  <2>10. AtWork' \subseteq AtWork \cup {m.tag}
    <3> SUFFICES ASSUME NEW i \in 1..Len(relays'), ~relays'[i].ended
                 PROVE  relays'[i].tag \in AtWork \cup {m.tag}
      BY DEF AtWork
    <3>1. CASE i = Len(relays) + 1
      BY <3>1, <2>3, <2>5
    <3>2. CASE i \in 1..Len(relays)
      BY <3>2, <2>5 DEF AtWork
    <3> QED  BY <3>1, <3>2, <2>2, <2>5
  <2>11. /\ TagsOf(relays') \subseteq TagsOf(relays) \cup (TagsOf(toS1) \ TagsOf(toS1'))
         /\ AtWork' \subseteq AtWork \cup (TagsOf(toS1) \ TagsOf(toS1'))
    BY <1>2, <2>4, <2>10
  <2> QED  BY <1>1, <1>2, <1>4, <2>1, <2>4, <2>8, <2>9, <2>11, QuietStep
<1> QED  BY <1>1, <1>5, <1>6, <1>7, <1>8

\* A relay ends, with the response to its nested call or with a failure.
LEMMA RelayReturnInv ==
    ASSUME CallInv, NEW i \in 1..Len(relays), ~relays[i].ended,
           NEW how, NEW err \in BOOLEAN, NEW inner \in Tags \cup {NoTag},
           how = "response" /\ ~err =>
             inner = relays[i].tag /\ <<"server2", relays[i].tag>> \in served,
           RelayReturn(i, how, err, inner),
           toS1R' \in Seq(Response2), Packets(toS1R') \subseteq Packets(toS1R),
           UNCHANGED <<pc, failed, got, toS1, up, toS2, link, served, fault>>
    PROVE  CallInv'
<1> DEFINE t == relays[i].tag
           e == (how # "response" \/ err)
<1>1. /\ relays \in Seq(Relay) /\ Len(relays) \in Nat /\ relays[i] \in Relay
      /\ Distinct(relays) /\ Distinct(toS1)
  <2>1. Distinct(relays) /\ Distinct(toS1)
    BY DEF CallInv, OnePlace
  <2>2. relays \in Seq(Relay)
    BY QueueTypes, Zenon
  <2>3. Len(relays) \in Nat /\ relays[i] \in Relay
    BY <2>2
  <2> QED  BY <2>1, <2>2, <2>3, Zenon
<1>2. relays[i] \in Packets(relays) /\ t \in TagsOf(relays) /\ t \in AtWork
  BY DEF TagsOf, Packets, AtWork
<1>3. /\ t \in Tags /\ relays[i].from \in Callers /\ relays[i].from = t.co
      /\ Script[t.n] = "RelayEcho" /\ t.n <= pc[t.co]
      /\ t \notin TagsOf(toS1) \cup TagsOf(toC) \cup Results
  BY Zenon, <1>1, <1>2 DEF CallInv, PacketsAreTrue, Made, OnePlace, Relay
<1>4. relays' = [relays EXCEPT ![i].ended = TRUE] /\ OnRpcDone(relays[i].from, e, t, inner)
  BY DEF RelayReturn, EndRelay
<1>5. e \in BOOLEAN /\ (~e => how = "response" /\ ~err)
  OBVIOUS
<1> HIDE DEF e
<1>6. /\ relays' \in Seq(Relay) /\ Len(relays') = Len(relays)
      /\ relays'[i].ended /\ relays'[i].tag = t /\ relays'[i].from = relays[i].from
      /\ \A k \in 1..Len(relays) : k # i => relays'[k] = relays[k]
  <2>1. relays' = [relays EXCEPT ![i] = [relays[i] EXCEPT !.ended = TRUE]]
    BY <1>4
  <2>2. /\ [relays[i] EXCEPT !.ended = TRUE] \in Relay
        /\ [relays[i] EXCEPT !.ended = TRUE].ended = TRUE
        /\ [relays[i] EXCEPT !.ended = TRUE].tag = t
        /\ [relays[i] EXCEPT !.ended = TRUE].from = relays[i].from
    BY Zenon, <1>1 DEF Relay
  <2> QED  BY <1>1, <2>1, <2>2
<1>7. \A k \in 1..Len(relays) :
        relays'[k].tag = relays[k].tag /\ relays'[k].from = relays[k].from
  BY <1>6
<1>8. TagsOf(relays') = TagsOf(relays) /\ Distinct(relays')
  <2>1. Distinct(relays')
    BY <1>1, <1>6, <1>7 DEF Distinct
  <2>2. ASSUME NEW u \in TagsOf(relays) PROVE u \in TagsOf(relays')
    <3>1. PICK k \in 1..Len(relays) : u = relays[k].tag
      BY DEF TagsOf, Packets
    <3>2. relays'[k] \in Packets(relays') /\ relays'[k].tag = u
      BY Zenon, <1>6, <1>7, <3>1 DEF Packets
    <3> QED  BY <3>2 DEF TagsOf
  <2>3. ASSUME NEW u \in TagsOf(relays') PROVE u \in TagsOf(relays)
    <3>1. PICK k \in 1..Len(relays') : u = relays'[k].tag
      BY DEF TagsOf, Packets
    <3>2. relays[k] \in Packets(relays) /\ relays[k].tag = u
      BY <1>6, <1>7, <3>1 DEF Packets
    <3> QED  BY <3>2 DEF TagsOf
  <2> QED  BY Zenon, <2>1, <2>2, <2>3
<1>9. AtWork' \subseteq AtWork /\ t \notin AtWork'
  <2> SUFFICES ASSUME NEW k \in 1..Len(relays'), ~relays'[k].ended
               PROVE  relays'[k].tag \in AtWork /\ relays'[k].tag # t
    BY Zenon DEF AtWork
  <2>1. k \in 1..Len(relays) /\ k # i /\ relays'[k] = relays[k]
    BY <1>6
  <2> QED  BY <1>1, <2>1 DEF AtWork, Distinct
<1>10. /\ toC' \in Seq(Response1) /\ Distinct(toC')
       /\ TagsOf(toC') \subseteq TagsOf(toC) \cup {t}
       /\ \A m \in Packets(toC') :
            m \in Packets(toC)
            \/ (m.to = relays[i].from /\ m.err = e /\ m.tag = t /\ m.inner = inner)
  BY <1>3, <1>4, <1>5, DoneFacts
<1>11. TypeOK'
  BY <1>6, <1>10, QueueTypes, ServerTypes
<1>12. PacketsAreTrue'
  <2>1. \A r \in Packets(relays') : r.from = r.tag.co /\ Script[r.tag.n] = "RelayEcho"
    <3>1. \A k \in 1..Len(relays) :
            relays[k].from = relays[k].tag.co /\ Script[relays[k].tag.n] = "RelayEcho"
      BY Zenon DEF CallInv, PacketsAreTrue, Packets
    <3> TAKE r \in Packets(relays')
    <3>2. PICK k \in 1..Len(relays') : r = relays'[k]
      BY DEF Packets
    <3>3. k \in 1..Len(relays)
      BY Zenon, <1>6
    <3>4. r.tag = relays[k].tag /\ r.from = relays[k].from
      BY <1>7, <3>2, <3>3
    <3> QED  BY <3>1, <3>3, <3>4
  <2>2. \A m \in Packets(toC') :
          /\ m.to = m.tag.co
          /\ ~m.err => Served(m.tag) /\ (Script[m.tag.n] = "RelayEcho" => m.inner = m.tag)
    <3> TAKE m \in Packets(toC')
    <3>1. CASE m \in Packets(toC)
      BY <3>1 DEF CallInv, PacketsAreTrue
    <3>2. CASE m.to = relays[i].from /\ m.err = e /\ m.tag = t /\ m.inner = inner
      BY <3>2, <1>3, <1>5 DEF Served
    <3> QED  BY <1>10, <3>1, <3>2
  <2>3. \A m \in Packets(toS2') : m.from \in 1..Len(relays') /\ m.tag = relays'[m.from].tag
    <3> TAKE m \in Packets(toS2')
    <3>1. m.from \in 1..Len(relays) /\ m.tag = relays[m.from].tag
      BY DEF CallInv, PacketsAreTrue
    <3> QED  BY <1>6, <1>7, <3>1
  <2>4. \A m \in Packets(toS1R') :
          m.to \in 1..Len(relays') /\ m.tag = relays'[m.to].tag /\ <<"server2", m.tag>> \in served'
    <3> TAKE m \in Packets(toS1R')
    <3>1. m.to \in 1..Len(relays) /\ m.tag = relays[m.to].tag /\ <<"server2", m.tag>> \in served
      BY DEF CallInv, PacketsAreTrue
    <3>2. 1..Len(relays') = 1..Len(relays) /\ served' = served
      BY Zenon, <1>6
    <3>3. relays'[m.to].tag = relays[m.to].tag
      BY <1>7, <3>1
    <3> QED  BY <3>1, <3>2, <3>3
  <2>5. \A m \in Packets(toS1') : m.from = m.tag.co /\ m.method = Script[m.tag.n]
    BY DEF CallInv, PacketsAreTrue
  <2> QED  BY <2>1, <2>2, <2>3, <2>4, <2>5 DEF PacketsAreTrue, Served
<1> HIDE DEF t
<1> QED
  BY <1>1, <1>3, <1>8, <1>9, <1>10, <1>11, <1>12, ServerStep

\* A nested response arrives at server 1.
LEMMA ResponseInv ==
    ASSUME CallInv, Server1Response
    PROVE  CallInv'
<1> DEFINE m == Head(toS1R)
<1>1. /\ toS1R # <<>> /\ toS1R' = Tail(toS1R)
      /\ UNCHANGED <<pc, failed, got, toS1, up, toS2, link, served, fault>>
  BY DEF Server1Response, client
<1>2. /\ m \in Response2 /\ m \in Packets(toS1R)
      /\ toS1R' \in Seq(Response2) /\ Packets(toS1R') \subseteq Packets(toS1R)
  BY <1>1, TailFacts DEF CallInv, TypeOK
<1>3. /\ m.to \in 1..Len(relays) /\ m.tag = relays[m.to].tag
      /\ <<"server2", m.tag>> \in served /\ m.tag \in Tags /\ m.err \in BOOLEAN
  BY Zenon, <1>2 DEF CallInv, PacketsAreTrue, Response2
<1>4. CASE ~relays[m.to].ended
  <2>1. RelayReturn(m.to, "response", m.err, m.tag)
    BY <1>4 DEF Server1Response, GetCoro
  <2> HIDE DEF m
  <2> QED  BY <1>1, <1>2, <1>3, <1>4, <2>1, RelayReturnInv
<1>5. CASE relays[m.to].ended
  <2>1. UNCHANGED <<toC, relays>>
    BY <1>5 DEF Server1Response, GetCoro
  <2>2. TypeOK'
    BY <1>1, <1>2, <2>1, QueueTypes, ServerTypes
  <2>3. PacketsAreTrue' /\ AtWork' = AtWork
    BY <1>1, <1>2, <2>1, FewerPackets
  <2>4. Distinct(toS1') /\ Distinct(toC') /\ Distinct(relays')
    BY <1>1, <2>1 DEF CallInv, OnePlace
  <2> QED  BY <1>1, <2>1, <2>2, <2>3, <2>4, QuietStep
<1> QED  BY <1>4, <1>5

\* A relay times out.
LEMMA TimeoutInv ==
    ASSUME CallInv, NEW i \in 1..Len(relays), Server1Timeout(i)
    PROVE  CallInv'
<1>1. /\ ~relays[i].ended /\ RelayReturn(i, "timeout", FALSE, NoTag)
      /\ UNCHANGED <<pc, failed, got, toS1, up, toS2, toS1R, link, served, fault>>
  BY Zenon DEF Server1Timeout, client, session2
<1>2. toS1R' \in Seq(Response2) /\ Packets(toS1R') \subseteq Packets(toS1R)
  BY <1>1, QueueTypes
<1>3. "timeout" # "response" /\ NoTag \in Tags \cup {NoTag}
  OBVIOUS
<1> DEFINE err == FALSE
<1>4. err \in BOOLEAN /\ RelayReturn(i, "timeout", err, NoTag)
  BY <1>1
<1> HIDE DEF err
<1> QED  BY Zenon, <1>1, <1>2, <1>3, <1>4, RelayReturnInv

\* Server 2 executes the nested call.
LEMMA Server2Inv ==
    ASSUME CallInv, Server2Request
    PROVE  CallInv'
<1> DEFINE m == Head(toS2)
           e == Response(m.from, FALSE, m.tag, NoTag)
<1>1. /\ toS2 # <<>> /\ toS2' = Tail(toS2)
      /\ served' = served \cup {<<"server2", m.tag>>}
      /\ toS1R' = PushPacket(toS1R, link = "up", e)
      /\ UNCHANGED <<pc, failed, got, toS1, toC, up, relays, link, fault>>
  BY Zenon DEF Server2Request, client, session1
<1>2. /\ m \in Request2 /\ m \in Packets(toS2)
      /\ toS2' \in Seq(Request2) /\ Packets(toS2') \subseteq Packets(toS2)
  BY <1>1, TailFacts DEF CallInv, TypeOK
<1>3. m.from \in 1..Len(relays) /\ m.tag = relays[m.from].tag /\ m.tag \in Tags
  BY <1>2 DEF CallInv, PacketsAreTrue, Request2
<1>4. e \in Response2 /\ e.to = m.from /\ e.tag = m.tag
  BY <1>2, <1>3 DEF Response, Response2, Request2
<1> HIDE DEF m, e
<1>5. toS1R' \in Seq(Response2) /\ Packets(toS1R') \subseteq Packets(toS1R) \cup {e}
  BY <1>1, <1>4, QueueTypes, PushFacts
<1>6. served \subseteq served' /\ served' \subseteq {"server1", "server2"} \X Tags
  <2>1. served \subseteq {"server1", "server2"} \X Tags
    BY QueueTypes, Zenon
  <2>2. m.tag \in Tags /\ served' = served \cup {<<"server2", m.tag>>}
    BY <1>1, <1>3, Zenon
  <2> QED  BY <2>1, <2>2
<1>7. TypeOK'
  BY <1>1, <1>2, <1>5, <1>6, QueueTypes, ServerTypes
<1>8. PacketsAreTrue'
  <2>1. \A r \in Packets(toS1R') :
          r.to \in 1..Len(relays) /\ r.tag = relays[r.to].tag /\ <<"server2", r.tag>> \in served'
    BY Zenon, <1>1, <1>3, <1>4, <1>5 DEF CallInv, PacketsAreTrue
  <2> QED  BY <1>1, <1>2, <1>6, <2>1 DEF CallInv, PacketsAreTrue, Served
<1>9. AtWork' = AtWork /\ Distinct(toS1') /\ Distinct(toC') /\ Distinct(relays')
  BY <1>1 DEF AtWork, CallInv, OnePlace
<1> QED  BY <1>1, <1>6, <1>7, <1>8, <1>9, QuietStep

\* A session breaks, or server 1 learns that one has.
LEMMA SessionInv ==
    ASSUME CallInv, BreakClient \/ BreakLink \/ OnSessionDestroy
    PROVE  CallInv'
<1>1. UNCHANGED <<pc, failed, got, relays, served>> /\ AtWork' = AtWork
  BY DEF BreakClient, BreakLink, OnSessionDestroy, client, AtWork
<1>2. /\ toS1' \in {toS1, <<>>} /\ toC' \in {toC, <<>>}
      /\ toS2' \in {toS2, <<>>} /\ toS1R' \in {toS1R, <<>>}
  BY DEF BreakClient, BreakLink, OnSessionDestroy, session1, session2
<1>3. up' \in BOOLEAN /\ link' \in {"none", "up", "broken"} /\ fault' = fault
  BY Zenon, QueueTypes DEF BreakClient, BreakLink, OnSessionDestroy, session1, session2
<1>4. /\ Packets(toS1') \subseteq Packets(toS1) /\ Packets(toC') \subseteq Packets(toC)
      /\ Packets(toS2') \subseteq Packets(toS2) /\ Packets(toS1R') \subseteq Packets(toS1R)
      /\ TagsOf(toC') \subseteq TagsOf(toC)
  BY <1>2, EmptyFacts
<1>5. Distinct(toS1') /\ Distinct(toC') /\ Distinct(relays')
  BY <1>1, <1>2, EmptyFacts DEF CallInv, OnePlace
<1>6. TypeOK'
  <2>1. /\ toS1' \in Seq(Request1) /\ toC' \in Seq(Response1)
        /\ toS2' \in Seq(Request2) /\ toS1R' \in Seq(Response2)
    <3>1. /\ <<>> \in Seq(Request1) /\ <<>> \in Seq(Response1)
          /\ <<>> \in Seq(Request2) /\ <<>> \in Seq(Response2)
      OBVIOUS
    <3>2. /\ toS1 \in Seq(Request1) /\ toC \in Seq(Response1)
          /\ toS2 \in Seq(Request2) /\ toS1R \in Seq(Response2)
      BY QueueTypes
    <3> QED  BY <1>2, <3>1, <3>2, Zenon
  <2> QED  BY <1>1, <1>3, <2>1, QueueTypes, ServerTypes
<1>7. PacketsAreTrue'
  BY <1>1, <1>4, FewerPackets
<1> QED  BY <1>1, <1>4, <1>5, <1>6, <1>7, QuietStep

-----------------------------------------------------------------------------
\* Every step preserves the invariant.
LEMMA NextCallInv == CallInv /\ [Next]_vars => CallInv'
<1> SUFFICES ASSUME CallInv, [Next]_vars PROVE CallInv'
  OBVIOUS
<1>1. CASE UNCHANGED vars
  <2>1. UNCHANGED <<pc, failed, got, toS1, toC, up, relays, toS2, toS1R, link, served, fault>>
    BY <1>1 DEF vars, client, session1, session2
  <2>2. TypeOK' /\ PacketsAreTrue' /\ AtWork' = AtWork
    BY <2>1, QueueTypes, ServerTypes, FewerPackets
  <2>3. Distinct(toS1') /\ Distinct(toC') /\ Distinct(relays')
    BY <2>1 DEF CallInv, OnePlace
  <2> QED  BY <2>1, <2>2, <2>3, QuietStep
<1>2. CASE Next
  BY <1>2, LaunchInv, WakeInv, ReceiveInv, RequestInv, ResponseInv, TimeoutInv,
     Server2Inv, SessionInv DEF Next
<1> QED  BY <1>1, <1>2

\* The invariant holds in every reachable state.
THEOREM CallInvariant == Spec => []CallInv
BY InitCallInv, NextCallInv, PTL DEF Spec

\* Every variable keeps its type; a coroutine has one result for each call it
\* has gone past (the counters and queues of the client and the two servers).
THEOREM TypesKept == Spec => []TypeOK
<1>1. CallInv => TypeOK
  BY DEF CallInv
<1> QED  BY <1>1, CallInvariant, PTL

\* No coroutine is resumed with the response to another call while none of its
\* calls was given up (HandleRpcRsp resumes by coroutine id only).
THEOREM OwnAnswers == Spec => []OwnAnswerUntilTimeout
<1>1. CallInv => OwnAnswerUntilTimeout
  BY DEF CallInv, ResultsAreTrue, OwnAnswerUntilTimeout
<1> QED  BY <1>1, CallInvariant, PTL

\* A call that reports success was executed by the server that does the work.
THEOREM SuccessIsService == Spec => []OkMeansServed
<1>1. CallInv => OkMeansServed
  <2> SUFFICES ASSUME CallInv, NEW c \in Callers, NEW n \in 1..Len(got[c]),
                      got[c][n].ok, AllAnsweredBefore(c, n)
               PROVE  <<IF Script[n] = "RelayEcho" THEN "server2" ELSE "server1",
                        [co |-> c, n |-> n]>> \in served
    BY DEF OkMeansServed
  <2>1. Served(got[c][n].tag) /\ got[c][n].tag = [co |-> c, n |-> n]
    <3>1. Answered(c, n) /\ ~got[c][n].err
      BY Zenon DEF CallInv, ResultsAreTrue
    <3>2. Served(got[c][n].tag) /\ Own(c, n)
      BY <3>1, AnswerFacts, Zenon
    <3> QED  BY <3>2 DEF Own
  <2> QED  BY <2>1 DEF Served
<1> QED  BY <1>1, CallInvariant, PTL

\* RelayEcho never passes on the response to another relay's nested call.
THEOREM RelaysPassOwnAnswer == Spec => []RelayPassesOwnAnswer
<1>1. CallInv => RelayPassesOwnAnswer
  BY DEF CallInv, PacketsAreTrue, Packets, RelayPassesOwnAnswer
<1> QED  BY <1>1, CallInvariant, PTL

\* No call is answered twice.
THEOREM OneAnswer == Spec => []AnsweredOnce
<1>1. CallInv => AnsweredOnce
  <2> SUFFICES ASSUME CallInv PROVE AnsweredOnce
    OBVIOUS
  <2>1. \A i, j \in 1..Len(toC) : toC[i].tag = toC[j].tag => i = j
    BY DEF CallInv, OnePlace, Distinct
  <2>2. \A c, d \in Callers : \A n \in 1..Len(got[c]), k \in 1..Len(got[d]) :
          Answered(c, n) /\ Answered(d, k) /\ got[c][n].tag = got[d][k].tag
            => c = d /\ n = k
    <3> TAKE c, d \in Callers
    <3> TAKE n \in 1..Len(got[c]), k \in 1..Len(got[d])
    <3> HAVE Answered(c, n) /\ Answered(d, k) /\ got[c][n].tag = got[d][k].tag
    <3>1. got[c][n].tag.co = c /\ got[d][k].tag.co = d
      BY AnswerFacts, Zenon
    <3>2. c = d
      BY <3>1, Zenon
    <3>3. n = k
      BY <3>2, AnswerFacts, Zenon
    <3> QED  BY <3>2, <3>3, Zenon
  <2>3. \A c \in Callers : \A n \in 1..Len(got[c]), i \in 1..Len(toC) :
          Answered(c, n) => toC[i].tag # got[c][n].tag
    <3> TAKE c \in Callers
    <3> TAKE n \in 1..Len(got[c]), i \in 1..Len(toC)
    <3> HAVE Answered(c, n)
    <3>1. toC[i].tag \in TagsOf(toC)
      BY DEF TagsOf, Packets
    <3>2. got[c][n].tag \notin TagsOf(toC)
      BY AnswerFacts, Zenon
    <3> QED  BY <3>1, <3>2, Zenon
  <2> QED  BY Zenon, <2>1, <2>2, <2>3 DEF AnsweredOnce
<1> QED  BY <1>1, CallInvariant, PTL

=============================================================================
