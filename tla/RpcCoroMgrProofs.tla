------------------------- MODULE RpcCoroMgrProofs ---------------------------
(***************************************************************************)
(* Proofs about RpcCoroMgr, for every value of its constants: type         *)
(* correctness, and the inductive invariant IInv, from which the safety    *)
(* properties of the coroutine manager follow.                             *)
(***************************************************************************)
EXTENDS RpcCoroMgr, TLAPS

\* A leaf that names no prover is tried with SMT, then with Zenon, then once more.
USE SMTT(30), ZenonT(30), SMTT(60)

-----------------------------------------------------------------------------
(* Lemmas about the call stack.                                            *)

\* Pushing on libco's call stack (co_resume) adds one element at the end.
LEMMA PushLemma ==
    ASSUME NEW S, NEW s \in Seq(S), NEW c \in S
    PROVE  /\ Append(s, c) \in Seq(S)
           /\ Len(Append(s, c)) = Len(s) + 1
           /\ Append(s, c)[Len(s) + 1] = c
           /\ \A k \in 1..Len(s) : Append(s, c)[k] = s[k]
  OBVIOUS

\* Popping it (co_yield_env) removes the last element and keeps the others.
LEMMA PopLemma ==
    ASSUME NEW S, NEW s \in Seq(S), Len(s) > 1
    PROVE  LET p == SubSeq(s, 1, Len(s) - 1)
           IN  /\ p \in Seq(S)
               /\ Len(p) = Len(s) - 1
               /\ \A k \in 1..(Len(s) - 1) : p[k] = s[k]
  OBVIOUS

\* The id generator (GenCoroId) stays within int.
LEMMA GenCoroIdType ==
    ASSUME NEW m \in Ids, NEW i \in GenCoroId(m)
    PROVE  i \in Ids
  BY ConstantsAssumption DEF GenCoroId, Ids, MinInt

\* The default of Coro::Yield makes every timeout positive.
LEMMA ActualTimeoutPositive ==
    ASSUME NEW t \in Timeouts
    PROVE  ActualTimeout(t) \in Nat \ {0}
  BY ConstantsAssumption DEF ActualTimeout

-----------------------------------------------------------------------------
(* Type correctness.  The bottom of the call stack is part of it: Top is a *)
(* coroutine only because the main coroutine is never popped.              *)

TypeInv == TypeOK /\ BottomOK

\* The element on top of the call stack is the main coroutine or a Coro, and
\* when it is a Coro the main coroutine is still below it.
LEMMA TopLemma ==
    ASSUME TypeInv
    PROVE  /\ Top \in Coros \cup {Main}
           /\ Top # Main => Top \in Coros /\ Len(stack) > 1
           /\ Len(stack) \in Nat \ {0}
  BY ConstantsAssumption DEF TypeInv, TypeOK, BottomOK, Top

\* A coroutine that gives up control leaves the stack well formed.
LEMMA PopType ==
    ASSUME TypeInv, Top # Main, stack' = Pop
    PROVE  stack' \in Seq(Coros \cup {Main}) /\ BottomOK'
  BY TopLemma, PopLemma DEF Pop, TypeInv, TypeOK, BottomOK

\* Coro::Resume resets yielded_ before timer_.Cancel() calls OnCoroCancel, which
\* therefore wakes nobody: the coroutine is resumed once.
LEMMA CoroResumeOnce ==
    ASSUME TypeInv, NEW c \in Coros, NEW a, NEW b, NEW v, CoroResume(c, a, b, v)
    PROVE  /\ resumeTimes' = [resumeTimes EXCEPT ![c] = @ + 1]
           /\ yielded' = [yielded EXCEPT ![c] = FALSE]
           /\ timeouted' = [timeouted EXCEPT ![c] = a]
           /\ cancelled' = [cancelled EXCEPT ![c] = b]
           /\ valid' = IF ~a /\ ~b THEN TimerCancel(v, c) ELSE v
           /\ CoResume(c, FALSE)
           /\ UNCHANGED yieldTimes
  <1>1. CancelWakes(ResetYielded(c), c) = FALSE
    BY DEF CancelWakes, ResetYielded, TypeInv, TypeOK
  <1>2. (~a /\ ~b /\ TimerOf(c) \in v /\ CancelWakes(ResetYielded(c), c)) = FALSE
    BY Zenon, <1>1
  <1> QED
    BY Zenon, <1>2 DEF CoroResume, DisarmOnResume

\* Coro::Resume keeps the types, whoever calls it.
LEMMA CoroResumeType ==
    ASSUME TypeInv, NEW c \in Coros, NEW a \in BOOLEAN, NEW b \in BOOLEAN,
           NEW v \in SUBSET valid, CoroResume(c, a, b, v)
    PROVE  /\ stack' \in Seq(Coros \cup {Main}) /\ BottomOK'
           /\ state' \in [Coros -> {"none", "fresh", "started", "ended", "deleted"}]
           /\ yielded' \in [Coros -> BOOLEAN]
           /\ timeouted' \in [Coros -> BOOLEAN]
           /\ cancelled' \in [Coros -> BOOLEAN]
           /\ yieldTimes' \in [Coros -> Nat] /\ resumeTimes' \in [Coros -> Nat]
           /\ valid' \subseteq Timer
           /\ fault' \in Faults
  <1>0. /\ resumeTimes' = [resumeTimes EXCEPT ![c] = @ + 1]
        /\ yielded' = [yielded EXCEPT ![c] = FALSE]
        /\ timeouted' = [timeouted EXCEPT ![c] = a]
        /\ cancelled' = [cancelled EXCEPT ![c] = b]
        /\ valid' = IF ~a /\ ~b THEN TimerCancel(v, c) ELSE v
        /\ CoResume(c, FALSE)
        /\ UNCHANGED yieldTimes
    BY Zenon, CoroResumeOnce
  <1>1. /\ stack' \in Seq(Coros \cup {Main}) /\ Len(stack') = Len(stack) + 1
        /\ stack'[Len(stack) + 1] = c
        /\ \A k \in 1..Len(stack) : stack'[k] = stack[k]
    BY <1>0, PushLemma DEF CoResume, TypeInv, TypeOK
  <1>2. BottomOK'
    <2>1. Len(stack) \in Nat \ {0}
      BY TopLemma
    <2>2. Len(stack') > 0 /\ stack'[1] = Main
      BY <1>1, <2>1 DEF BottomOK, TypeInv
    <2>3. ASSUME NEW k \in 2..Len(stack') PROVE stack'[k] \in Coros
      <3>1. CASE k = Len(stack) + 1
        BY <3>1, <1>1
      <3>2. CASE k \in 2..Len(stack)
        BY <3>2, <1>1, <2>1 DEF BottomOK, TypeInv
      <3> QED BY <3>1, <3>2, <1>1, <2>1
    <2> QED BY <2>2, <2>3 DEF BottomOK
  <1>3. fault' \in Faults /\ state' \in [Coros -> {"none", "fresh", "started", "ended", "deleted"}]
    BY <1>0 DEF CoResume, TypeInv, TypeOK, Faults
  <1>4. /\ yielded' \in [Coros -> BOOLEAN]
        /\ timeouted' \in [Coros -> BOOLEAN]
        /\ cancelled' \in [Coros -> BOOLEAN]
        /\ yieldTimes' \in [Coros -> Nat] /\ resumeTimes' \in [Coros -> Nat]
    BY <1>0 DEF TypeInv, TypeOK
  <1>5. valid' \subseteq Timer
    BY <1>0 DEF TimerCancel, TypeInv, TypeOK
  <1> QED
    BY <1>1, <1>2, <1>3, <1>4, <1>5

\* Coro::Cancel keeps the types.
LEMMA CoroCancelType ==
    ASSUME TypeInv, NEW c \in Coros, CoroCancel(c)
    PROVE  /\ stack' \in Seq(Coros \cup {Main}) /\ BottomOK'
           /\ state' \in [Coros -> {"none", "fresh", "started", "ended", "deleted"}]
           /\ yielded' \in [Coros -> BOOLEAN]
           /\ timeouted' \in [Coros -> BOOLEAN]
           /\ cancelled' \in [Coros -> BOOLEAN]
           /\ yieldTimes' \in [Coros -> Nat] /\ resumeTimes' \in [Coros -> Nat]
           /\ valid' \subseteq Timer
           /\ fault' \in Faults
  <1>1. CASE CoroResume(c, timeouted[c], TRUE, valid \ {TimerOf(c)})
    <2>1. PICK a \in BOOLEAN : a = timeouted[c]
      BY DEF TypeInv, TypeOK
    <2>2. PICK v \in SUBSET valid : v = valid \ {TimerOf(c)}
      BY Zenon
    <2>3. CoroResume(c, a, TRUE, v)
      BY Zenon, <1>1, <2>1, <2>2
    <2> QED BY Zenon, <2>3, CoroResumeType
  <1>2. CASE /\ valid' = valid \ {TimerOf(c)}
             /\ UNCHANGED <<flags, stack, state, fault>>
    BY <1>2 DEF TypeInv, TypeOK, BottomOK, flags
  <1> QED BY Zenon, <1>1, <1>2 DEF CoroCancel, OnCoroCancel, TimerCancel

\* Every step of the manager keeps the types.
LEMMA TypeStep ==
    ASSUME TypeInv, [Next]_vars
    PROVE  TypeInv'
  <1> USE DEF TypeInv
  <1>1. ASSUME NEW c \in Coros, CreateCoro(c) PROVE TypeInv'
    <2>1. PICK i \in GenCoroId(maxCoroId) :
            /\ maxCoroId' = i /\ id' = [id EXCEPT ![c] = i]
            /\ coros' = IF coros[i] = None THEN [coros EXCEPT ![i] = c] ELSE coros
            /\ reused' = (reused \/ Held(i))
      BY Zenon, <1>1 DEF CreateCoro
    <2>2. i \in Ids
      BY <2>1, GenCoroIdType DEF TypeOK
    <2>3. reused' \in BOOLEAN
      BY <2>1 DEF TypeOK, Held
    <2> QED
      BY <1>1, <2>1, <2>2, <2>3 DEF CreateCoro, TypeOK, BottomOK, timers, mainVars
  <1>2. ASSUME NEW c \in Coros, Launch(c) PROVE TypeInv'
    <2>1. PICK a \in BOOLEAN, b \in BOOLEAN, v \in SUBSET valid :
            a = timeouted[c] /\ b = cancelled[c] /\ v = valid
      BY DEF TypeOK
    <2>2. CoroResume(c, a, b, v)
      BY <1>2, <2>1 DEF Launch
    <2> QED BY <1>2, <2>2, CoroResumeType DEF Launch, TypeOK, maps, mainVars
  <1>3. ASSUME NEW i \in Ids, Resume(i) PROVE TypeInv'
    <2>1. PICK c \in Coros : c = coros[i]
      BY <1>3 DEF Resume
    <2>2. PICK a \in BOOLEAN, b \in BOOLEAN, v \in SUBSET valid :
            a = timeouted[c] /\ b = cancelled[c] /\ v = valid
      BY DEF TypeOK
    <2>3. CoroResume(c, a, b, v)
      BY <1>3, <2>1, <2>2 DEF Resume
    <2> QED BY <1>3, <2>3, CoroResumeType DEF Resume, TypeOK, maps, mainVars
  <1>4. ASSUME NEW i \in Ids, Cancel(i) PROVE TypeInv'
    <2>1. PICK c \in Coros : c = coros[i]
      BY <1>4 DEF Cancel
    <2>2. CoroCancel(c)
      BY <1>4, <2>1 DEF Cancel
    <2> QED BY <1>4, <2>2, CoroCancelType DEF Cancel, TypeOK, maps, mainVars
  <1>5. ASSUME NEW t \in Timeouts, Yield(t) PROVE TypeInv'
    <2>1. CASE fault' = "null" /\ UNCHANGED <<stack, state, flags, maps, timers, mainVars, now>>
      BY <2>1 DEF TypeOK, BottomOK, flags, maps, timers, mainVars, Faults
    <2>2. CASE /\ GetCurCoro \in Coros /\ Suspend(GetCurCoro, t)
               /\ UNCHANGED <<state, resumeTimes, maps, firing, mainVars, now, fault>>
      <3>1. PICK c \in Coros : c = GetCurCoro
        BY <2>2
      <3>2. Suspend(c, t)
        BY <2>2, <3>1
      <3>3. /\ stack' \in Seq(Coros \cup {Main}) /\ BottomOK'
        BY <1>5, <3>2, PopType DEF Suspend, Yield
      <3>4. /\ yieldTimes' \in [Coros -> Nat] /\ yielded' \in [Coros -> BOOLEAN]
            /\ timeouted' \in [Coros -> BOOLEAN] /\ cancelled' \in [Coros -> BOOLEAN]
        BY <3>2 DEF Suspend, MarkYielded, TypeOK
      <3>5. /\ heap' \subseteq HeapEntry /\ valid' \subseteq Timer
        BY <3>2, ActualTimeoutPositive DEF Suspend, Schedule, TimerCancel, HeapEntry, Timer, TypeOK
      <3> QED BY <2>2, <3>3, <3>4, <3>5 DEF TypeOK, maps, mainVars
    <2> QED BY <1>5, <2>1, <2>2 DEF Yield
  <1>6. CASE MainYield
    BY <1>6 DEF MainYield, TypeOK, BottomOK, flags, maps, timers, mainVars, Faults
  <1>7. CASE Finish
    <2>1. PICK c \in Coros : c = Top
      BY <1>7, TopLemma DEF Finish
    <2>2. /\ stack' \in Seq(Coros \cup {Main}) /\ BottomOK'
      BY <1>7, PopType DEF Finish
    <2>3. waiting' \in [Ids -> Coros \cup {None}] /\ coros' \in [Ids -> Coros \cup {Main, None}]
      BY Zenon, <1>7, <2>1 DEF Finish, MaskWillRecycle, TypeOK
    <2>4. state' \in [Coros -> {"none", "fresh", "started", "ended", "deleted"}]
      BY <1>7, <2>1 DEF Finish, TypeOK
    <2> QED BY <1>7, <2>2, <2>3, <2>4 DEF Finish, TypeOK, flags, timers, mainVars
  <1>8. CASE UpdateBegin
    BY <1>8 DEF UpdateBegin, TypeOK, BottomOK, flags, maps, timers
  <1>9. CASE UpdatePop
    <2>1. PICK e \in heap :
            /\ heap' = heap \ {e}
            /\ IF DataOf(e) \notin valid
                 THEN UNCHANGED <<stack, state, flags, valid, firing, fault>>
               ELSE IF state[e.co] = "deleted"
                 THEN /\ fault' = "dangling"
                      /\ UNCHANGED <<stack, state, flags, valid, firing>>
               ELSE firing' = e /\ OnCoroTimeout(e.co)
      BY <1>9 DEF UpdatePop
    <2>2. e \in HeapEntry /\ e.co \in Coros
      BY DEF TypeOK, HeapEntry
    <2>3. UNCHANGED <<maps, mainVars, now>>
      BY <1>9 DEF UpdatePop
    <2>4. CASE UNCHANGED <<stack, state, flags, valid, firing, fault>>
      BY <2>1, <2>3, <2>4 DEF TypeOK, BottomOK, flags, maps, mainVars
    <2>5. CASE fault' = "dangling" /\ UNCHANGED <<stack, state, flags, valid, firing>>
      BY <2>1, <2>3, <2>5 DEF TypeOK, BottomOK, flags, maps, mainVars, Faults
    <2>6. CASE firing' = e /\ OnCoroTimeout(e.co)
      <3>1. PICK c \in Coros : c = e.co
        BY <2>2
      <3>2. CASE yielded[c]
        <4>1. PICK b \in BOOLEAN, v \in SUBSET valid :
                b = cancelled[c] /\ v = valid \ {TimerOf(c)}
          BY Zenon DEF TypeOK
        <4>2. CoroResume(c, TRUE, b, v)
          BY Zenon, <2>6, <3>1, <3>2, <4>1 DEF OnCoroTimeout, TimerCancel
        <4>3. heap' \subseteq HeapEntry /\ firing' \in HeapEntry \cup {None}
          BY <2>1, <2>2, <2>6 DEF TypeOK
        <4>4. TRUE \in BOOLEAN
          OBVIOUS
        <4> HIDE DEF TypeInv
        <4>5. /\ stack' \in Seq(Coros \cup {Main}) /\ BottomOK'
              /\ state' \in [Coros -> {"none", "fresh", "started", "ended", "deleted"}]
              /\ yielded' \in [Coros -> BOOLEAN]
              /\ timeouted' \in [Coros -> BOOLEAN]
              /\ cancelled' \in [Coros -> BOOLEAN]
              /\ yieldTimes' \in [Coros -> Nat] /\ resumeTimes' \in [Coros -> Nat]
              /\ valid' \subseteq Timer
              /\ fault' \in Faults
          BY Zenon, <4>2, <4>4, CoroResumeType
        <4> QED
          BY <2>3, <4>3, <4>5 DEF TypeInv, TypeOK, maps, mainVars
      <3>3. CASE ~yielded[c]
        BY Zenon, <2>1, <2>2, <2>3, <2>6, <3>1, <3>3
           DEF OnCoroTimeout, TimerCancel, TypeOK, BottomOK, maps, mainVars
      <3> QED BY <3>2, <3>3
    <2> QED BY <2>1, <2>4, <2>5, <2>6
  <1>10. CASE UpdateReturn
    <2>1. CASE DataOf(firing) \notin valid
      BY <1>10, <2>1 DEF UpdateReturn, TypeOK, BottomOK, flags, maps, mainVars
    <2>2. CASE DataOf(firing) \in valid
      <3>1. firing \in HeapEntry
        BY <1>10 DEF UpdateReturn, TypeOK
      <3>2. snap - firing.handle \in Int /\ firing.period \in Nat \ {0}
        BY <3>1 DEF TypeOK, HeapEntry
      <3>3. (snap - firing.handle) % firing.period \in 0..(firing.period - 1)
        BY <3>2
      <3>4. snap + firing.period - ((snap - firing.handle) % firing.period) \in Nat
        BY <3>2, <3>3 DEF TypeOK
      <3>5. heap' \subseteq HeapEntry
        <4>1. PICK h \in Nat :
                h = snap + firing.period - ((snap - firing.handle) % firing.period)
          BY <3>4
        <4>2. [firing EXCEPT !.handle = h] \in HeapEntry
          BY <3>1 DEF HeapEntry
        <4> QED BY Zenon, <1>10, <4>1, <4>2 DEF UpdateReturn, TypeOK
      <3> QED
        BY <1>10, <3>5 DEF UpdateReturn, TypeOK, BottomOK, flags, maps, mainVars
    <2> QED BY <2>1, <2>2
  <1>11. CASE UpdateEnd
    <2>1. valid' \subseteq Timer /\ fault' \in Faults
      BY <1>11 DEF UpdateEnd, TypeOK, Faults
    <2>2. state' \in [Coros -> {"none", "fresh", "started", "ended", "deleted"}]
      BY <1>11 DEF UpdateEnd, TypeOK
    <2>3. maxCoroId' \in Ids
      BY <1>11, ConstantsAssumption DEF UpdateEnd, TypeOK, Ids
    <2> QED BY <1>11, <2>1, <2>2, <2>3 DEF UpdateEnd, TypeOK, BottomOK, flags
  <1>12. CASE Start
    <2>1. {0, 1} \subseteq Ids
      BY ConstantsAssumption DEF Ids
    <2>2. reused' \in BOOLEAN
      BY Zenon, <1>12 DEF Start, Held, TypeOK
    <2> QED
      BY Zenon, <1>12, <2>1, <2>2 DEF Start, TypeOK, BottomOK, flags, timers, mainVars, Faults
  <1>13. CASE StopBegin
    BY <1>13 DEF StopBegin, Keys, TypeOK, BottomOK, flags, maps, timers
  <1>14. CASE StopStep
    <2>1. stopIt' \in Ids \cup {End} /\ UNCHANGED <<maps, heap, firing, mainPc, snap, now>>
      BY <1>14 DEF StopStep, Keys, TypeOK
    <2>2. CASE UNCHANGED <<stack, state, flags, valid>> /\ fault' \in Faults
      BY <2>1, <2>2 DEF TypeOK, BottomOK, flags, maps
    <2>3. CASE coros[stopIt] \in Coros /\ CoroCancel(coros[stopIt])
      <3>1. PICK c \in Coros : c = coros[stopIt]
        BY <2>3
      <3>2. CoroCancel(c)
        BY <2>3, <3>1
      <3> QED BY <2>1, <3>2, CoroCancelType DEF TypeOK, maps
    <2>4. stopIt \in Ids
      BY <1>14 DEF StopStep, TypeOK
    <2> QED
      BY <1>14, <2>2, <2>3, <2>4 DEF StopStep, TypeOK, Faults
  <1>15. CASE StopUpdate
    BY <1>15 DEF StopUpdate, TypeOK, BottomOK, flags, maps, timers
  <1>16. CASE Tick
    BY <1>16 DEF Tick, TypeOK, BottomOK, flags, maps, timers, mainVars
  <1>17. CASE UNCHANGED vars
    BY <1>17 DEF TypeOK, BottomOK, vars, flags, maps, timers, mainVars
  <1> QED
    BY <1>1, <1>2, <1>3, <1>4, <1>5, <1>6, <1>7, <1>8, <1>9, <1>10, <1>11,
       <1>12, <1>13, <1>14, <1>15, <1>16, <1>17 DEF Next, Step, Crashed

\* The variables of the manager keep their types in every behaviour.
THEOREM TypeCorrect == Spec => []TypeOK
  <1>1. Init => TypeInv
    <2> SUFFICES ASSUME Init PROVE TypeInv
      OBVIOUS
    <2>1. 0 \in Ids
      BY ConstantsAssumption DEF Ids
    <2>2. stack \in Seq(Coros \cup {Main}) /\ BottomOK
      BY DEF Init, BottomOK
    <2> QED BY Zenon, <2>1, <2>2 DEF Init, TypeInv, TypeOK, Faults
  <1>2. TypeInv /\ [Next]_vars => TypeInv'
    BY TypeStep
  <1>3. TypeInv => TypeOK
    BY DEF TypeInv
  <1> QED BY <1>1, <1>2, <1>3, PTL DEF Spec

-----------------------------------------------------------------------------
(* The inductive invariant, in the pieces its proof works with.            *)

SeqOK == \A e \in heap \cup ({firing} \ {None}) : e.seq <= yieldTimes[e.co]

LivesOK == \A c \in Coros :
    /\ yielded[c] => state[c] \in {"fresh", "started"}
    /\ yielded[c] \/ state[c] = "none" => ~timeouted[c] /\ ~cancelled[c]
OneMapOK == \A i \in Ids : coros[i] = None \/ waiting[i] = None
FiringOK == firing # None => DataOf(firing) \notin valid
ArmedOK == \A t \in Timer : t \in valid <=> Suspended(t.co) /\ t.seq = yieldTimes[t.co]
InHeapOK == \A t \in valid : \E e \in heap : DataOf(e) = t
StackOK ==
    /\ \A k, l \in 1..Len(stack) : stack[k] = stack[l] => k = l
    /\ \A c \in Coros : OnStack(c) <=> Running(c)
CountOK == \A c \in Coros :
    resumeTimes[c] = yieldTimes[c]
      + (IF Running(c) \/ state[c] \in {"ended", "deleted"} THEN 1 ELSE 0)
MapsOK == \A i \in Ids, c \in Coros :
    /\ coros[i] = c <=> id[c] = i /\ state[c] \in {"fresh", "started"}
    /\ waiting[i] = c <=> id[c] = i /\ state[c] = "ended"
FaultOK == fault \notin {"dangling", "reentered"}

Safe == /\ LivesOK /\ OneMapOK /\ FiringOK /\ ArmedOK /\ InHeapOK
        /\ StackOK /\ CountOK /\ MapsOK /\ FaultOK

\* "The armed timers are those of the current suspensions", element by element.
LEMMA ArmedLemma ==
    ASSUME TypeOK
    PROVE  ArmedOK <=> valid = {TimerOf(c) : c \in {d \in Coros : Suspended(d)}}
  <1>1. \A t \in Timer : t.co \in Coros /\ t = [co |-> t.co, seq |-> t.seq]
    BY DEF Timer
  <1>2. \A c \in Coros : /\ TimerOf(c) \in Timer
                         /\ TimerOf(c).co = c /\ TimerOf(c).seq = yieldTimes[c]
    BY DEF TimerOf, Timer, TypeOK
  <1>3. ASSUME NEW t \in Timer
        PROVE  t \in {TimerOf(c) : c \in {d \in Coros : Suspended(d)}}
                 <=> Suspended(t.co) /\ t.seq = yieldTimes[t.co]
    BY <1>1, <1>2 DEF TimerOf
  <1>4. valid \subseteq Timer
        /\ {TimerOf(c) : c \in {d \in Coros : Suspended(d)}} \subseteq Timer
    BY <1>2 DEF TypeOK
  <1> QED BY <1>3, <1>4 DEF ArmedOK

\* The inductive invariant.  Beside the properties of the manager it says that the
\* main coroutine stays at the bottom of the call stack, that an id is in one
\* map at most, that timer data is of a suspension that has begun, and that
\* the data being fired is disarmed.
IInv ==
    /\ TypeOK /\ BottomOK
    /\ \A e \in heap \cup ({firing} \ {None}) : e.seq <= yieldTimes[e.co]
    /\ ~reused =>
         /\ \A c \in Coros :
              /\ yielded[c] => state[c] \in {"fresh", "started"}
              /\ yielded[c] \/ state[c] = "none" => ~timeouted[c] /\ ~cancelled[c]
         /\ \A i \in Ids : coros[i] = None \/ waiting[i] = None
         /\ firing # None => DataOf(firing) \notin valid
    /\ TimersMatchSuspensions /\ StackMatchesFlags /\ WokenOnce
    /\ MapsMatchLives /\ NoStaleWake

\* IInv is the conjunction of these pieces.
LEMMA IInvSplit == IInv <=> TypeInv /\ SeqOK /\ (~reused => Safe)
  <1>1. TypeOK => (TimersMatchSuspensions <=> (~reused => ArmedOK /\ InHeapOK))
    BY ArmedLemma DEF TimersMatchSuspensions, InHeapOK
  <1>2. BottomOK => (StackMatchesFlags <=> (~reused => StackOK))
    BY DEF StackMatchesFlags, StackOK
  <1>3. /\ WokenOnce <=> (~reused => CountOK)
        /\ MapsMatchLives <=> (~reused => MapsOK)
        /\ NoStaleWake <=> (~reused => FaultOK)
    BY DEF WokenOnce, CountOK, MapsMatchLives, MapsOK, NoStaleWake, FaultOK
  <1> QED
    BY <1>1, <1>2, <1>3
       DEF IInv, TypeInv, SeqOK, Safe, LivesOK, OneMapOK, FiringOK

\* What relates flags, life cycle and call stack is kept when they are.
LEMMA FrameFlags ==
    ASSUME UNCHANGED <<stack, state, flags>>, LivesOK, StackOK, CountOK
    PROVE  LivesOK' /\ StackOK' /\ CountOK'
  <1>1. /\ stack' = stack /\ state' = state /\ yielded' = yielded
        /\ timeouted' = timeouted /\ cancelled' = cancelled
        /\ yieldTimes' = yieldTimes /\ resumeTimes' = resumeTimes
    BY DEF flags
  <1>2. LivesOK'
    BY <1>1 DEF LivesOK
  <1>3. StackOK'
    BY <1>1 DEF StackOK, OnStack, Running
  <1>4. CountOK'
    BY <1>1 DEF CountOK, Running
  <1> QED BY <1>2, <1>3, <1>4

\* So is what relates the armed timers to the suspensions.
LEMMA FrameArmed ==
    ASSUME UNCHANGED <<state, flags, valid>>, ArmedOK
    PROVE  ArmedOK'
  <1>1. state' = state /\ yielded' = yielded /\ yieldTimes' = yieldTimes /\ valid' = valid
    BY DEF flags
  <1> QED BY <1>1 DEF ArmedOK, Suspended

\* So is what the maps say of the coroutines.
LEMMA FrameMaps ==
    ASSUME UNCHANGED <<state, coros, waiting, id>>, OneMapOK, MapsOK
    PROVE  OneMapOK' /\ MapsOK'
  <1>1. OneMapOK'
    BY DEF OneMapOK
  <1>2. MapsOK'
    BY DEF MapsOK
  <1> QED BY <1>1, <1>2

\* Waking a yielded coroutine, by Resume, Cancel or its timeout, disarms its
\* timer and keeps flags, call stack, counters and maps in agreement.
LEMMA WakeLemma ==
    ASSUME TypeInv, Safe, NEW c \in Coros, yielded[c],
           NEW a \in BOOLEAN, NEW b \in BOOLEAN, NEW v \in SUBSET valid,
           v = valid \ {TimerOf(c)} \/ (v = valid /\ ~a /\ ~b),
           CoroResume(c, a, b, v), UNCHANGED <<coros, waiting, id>>
    PROVE  /\ valid' = valid \ {TimerOf(c)} /\ UNCHANGED yieldTimes
           /\ LivesOK' /\ OneMapOK' /\ ArmedOK' /\ StackOK' /\ CountOK'
           /\ MapsOK' /\ FaultOK'
  <1>0. /\ resumeTimes' = [resumeTimes EXCEPT ![c] = @ + 1]
        /\ yielded' = [yielded EXCEPT ![c] = FALSE]
        /\ timeouted' = [timeouted EXCEPT ![c] = a]
        /\ cancelled' = [cancelled EXCEPT ![c] = b]
        /\ valid' = IF ~a /\ ~b THEN TimerCancel(v, c) ELSE v
        /\ CoResume(c, FALSE)
        /\ UNCHANGED yieldTimes
    BY Zenon, CoroResumeOnce
  <1>1. valid' = valid \ {TimerOf(c)} /\ UNCHANGED yieldTimes
    BY <1>0 DEF TimerCancel
  <1>2. /\ state[c] \in {"fresh", "started"} /\ ~OnStack(c)
        /\ state' = [state EXCEPT ![c] = "started"]
        /\ yielded' = [yielded EXCEPT ![c] = FALSE]
    BY <1>0 DEF Safe, LivesOK, StackOK, Running, CoResume
  <1>3. Running(c)' /\ ~Suspended(c)' /\ ~Running(c)
    BY <1>2 DEF Running, Suspended, TypeInv, TypeOK
  <1>4. \A d \in Coros \ {c} : /\ Running(d)' <=> Running(d)
                               /\ Suspended(d)' <=> Suspended(d)
                               /\ state'[d] = state[d] /\ yielded'[d] = yielded[d]
    BY <1>2 DEF Running, Suspended, TypeInv, TypeOK
  <1>5. LivesOK'
    BY <1>0, <1>2, <1>4 DEF Safe, LivesOK, TypeInv, TypeOK
  <1>6. OneMapOK'
    BY DEF Safe, OneMapOK
  <1>7. ArmedOK'
    <2> SUFFICES ASSUME NEW t \in Timer
                 PROVE  t \in valid' <=> Suspended(t.co)' /\ t.seq = yieldTimes[t.co]
      BY <1>1 DEF ArmedOK
    <2>1. t.co \in Coros /\ (t = TimerOf(c) <=> t.co = c /\ t.seq = yieldTimes[c])
      BY DEF Timer, TimerOf
    <2>2. t \in valid <=> Suspended(t.co) /\ t.seq = yieldTimes[t.co]
      BY DEF Safe, ArmedOK
    <2> QED BY <1>1, <1>3, <1>4, <2>1, <2>2
  <1>8. StackOK'
    <2>1. /\ Len(stack) \in Nat /\ Len(stack') = Len(stack) + 1
          /\ stack'[Len(stack) + 1] = c
          /\ \A k \in 1..Len(stack) : stack'[k] = stack[k]
      BY <1>0, PushLemma DEF CoResume, TypeInv, TypeOK
    <2>2. \A k \in 1..Len(stack) : stack[k] # c
      BY <1>2 DEF OnStack
    <2>3. \A k, l \in 1..Len(stack') : stack'[k] = stack'[l] => k = l
      BY <2>1, <2>2 DEF Safe, StackOK
    <2>4. \A d \in Coros : OnStack(d)' <=> OnStack(d) \/ d = c
      BY <2>1 DEF OnStack
    <2> QED BY <1>2, <1>3, <1>4, <2>3, <2>4 DEF Safe, StackOK
  <1>9. CountOK'
    <2> SUFFICES ASSUME NEW d \in Coros
                 PROVE resumeTimes'[d] = yieldTimes'[d]
                   + (IF Running(d)' \/ state'[d] \in {"ended", "deleted"} THEN 1 ELSE 0)
      BY DEF CountOK
    <2>1. resumeTimes' = [resumeTimes EXCEPT ![c] = @ + 1]
      BY <1>0
    <2>2. CASE d = c
      <3>1. resumeTimes[c] = yieldTimes[c] /\ resumeTimes'[c] = resumeTimes[c] + 1
        <4>1. /\ yieldTimes[c] \in Nat /\ resumeTimes \in [Coros -> Nat]
              /\ state[c] \notin {"ended", "deleted"}
          BY <1>2 DEF TypeInv, TypeOK
        <4>2. resumeTimes[c] = yieldTimes[c] + 0
          BY <1>3, <4>1 DEF Safe, CountOK
        <4> QED BY <2>1, <4>1, <4>2
      <3> QED BY <1>1, <1>3, <2>2, <3>1
    <2>3. CASE d # c
      <3>1. resumeTimes'[d] = resumeTimes[d] /\ yieldTimes'[d] = yieldTimes[d]
        BY <1>1, <2>1, <2>3 DEF TypeInv, TypeOK
      <3>2. state'[d] = state[d] /\ (Running(d)' <=> Running(d))
        BY <1>4, <2>3
      <3> QED BY <3>1, <3>2 DEF Safe, CountOK
    <2> QED BY <2>2, <2>3
  <1>10. MapsOK'
    BY <1>2, <1>4 DEF Safe, MapsOK, TypeInv, TypeOK
  <1>11. FaultOK'
    BY <1>0, <1>2 DEF CoResume, Safe, FaultOK
  <1> QED BY <1>1, <1>5, <1>6, <1>7, <1>8, <1>9, <1>10, <1>11

\* The wake-ups that leave the heap alone keep every part of the invariant.
LEMMA WakeSafe ==
    ASSUME TypeInv, Safe, NEW c \in Coros, yielded[c],
           NEW a \in BOOLEAN, NEW b \in BOOLEAN, NEW v \in SUBSET valid,
           v = valid \ {TimerOf(c)} \/ (v = valid /\ ~a /\ ~b),
           CoroResume(c, a, b, v), UNCHANGED <<coros, waiting, id, heap, firing>>
    PROVE  Safe'
  <1>1. /\ valid' = valid \ {TimerOf(c)}
        /\ LivesOK' /\ OneMapOK' /\ ArmedOK' /\ StackOK' /\ CountOK'
        /\ MapsOK' /\ FaultOK'
    BY WakeLemma
  <1>2. InHeapOK' /\ FiringOK'
    BY <1>1 DEF Safe, InHeapOK, FiringOK, DataOf
  <1> QED BY <1>1, <1>2 DEF Safe

\* So does a cancellation: the timer being fired is never the armed one, so
\* OnCoroCancel always wakes the coroutine.
LEMMA CancelSafe ==
    ASSUME TypeInv, Safe, NEW c \in Coros, yielded[c], CoroCancel(c),
           UNCHANGED <<coros, waiting, id, heap, firing>>
    PROVE  Safe'
  <1>1. ~(firing # None /\ DataOf(firing) = TimerOf(c))
    BY DEF CoroCancel, Safe, FiringOK
  <1>2. PICK a \in BOOLEAN, v \in SUBSET valid :
          a = timeouted[c] /\ v = valid \ {TimerOf(c)}
    BY Zenon DEF TypeInv, TypeOK
  <1>3. CoroResume(c, a, TRUE, v)
    BY Zenon, <1>1, <1>2 DEF CoroCancel, OnCoroCancel, CancelWakes, TimerCancel
  <1> QED BY Zenon, <1>2, <1>3, WakeSafe

-----------------------------------------------------------------------------
(* What the running coroutine does.                                        *)

\* While no id is reused GetCurCoro() finds the running coroutine.
LEMMA CurCoroLemma ==
    ASSUME TypeInv, Safe, Top # Main
    PROVE  GetCurCoro = Top /\ Top \in Coros /\ Running(Top) /\ OnStack(Top)
  <1>1. Top \in Coros /\ Len(stack) \in Nat \ {0}
    BY TopLemma
  <1>2. OnStack(Top)
    BY <1>1 DEF OnStack, Top
  <1>3. Running(Top)
    BY <1>1, <1>2 DEF Safe, StackOK
  <1>4. id[Top] \in Ids
    BY <1>1 DEF TypeInv, TypeOK
  <1>5. coros[id[Top]] = Top
    BY <1>1, <1>3, <1>4 DEF Safe, MapsOK, Running
  <1> QED BY <1>1, <1>2, <1>3, <1>5 DEF GetCurCoro

\* Popping takes exactly the running coroutine off the call stack.
LEMMA PopStack ==
    ASSUME TypeInv, Safe, Top # Main, stack' = Pop
    PROVE  /\ \A k, l \in 1..Len(stack') : stack'[k] = stack'[l] => k = l
           /\ \A d \in Coros : OnStack(d)' <=> OnStack(d) /\ d # Top
  <1>1. Len(stack) \in Nat /\ Len(stack) > 1
    BY TopLemma
  <1>2. /\ Len(stack') = Len(stack) - 1
        /\ \A k \in 1..(Len(stack) - 1) : stack'[k] = stack[k]
    BY <1>1, PopLemma DEF Pop, TypeInv, TypeOK
  <1>3. \A k, l \in 1..Len(stack) : stack[k] = stack[l] => k = l
    BY DEF Safe, StackOK
  <1>4. \A k, l \in 1..Len(stack') : stack'[k] = stack'[l] => k = l
    BY <1>1, <1>2, <1>3
  <1>5. ASSUME NEW d \in Coros PROVE OnStack(d)' <=> OnStack(d) /\ d # Top
    BY <1>1, <1>2, <1>3 DEF OnStack, Top
  <1> QED BY <1>4, <1>5

\* CreateCoro with an id that no object holds.
LEMMA CreateSafe ==
    ASSUME TypeInv, Safe, NEW c \in Coros, CreateCoro(c), ~reused'
    PROVE  Safe'
  <1>1. PICK i \in GenCoroId(maxCoroId) :
          /\ id' = [id EXCEPT ![c] = i]
          /\ coros' = IF coros[i] = None THEN [coros EXCEPT ![i] = c] ELSE coros
          /\ reused' = (reused \/ Held(i))
    BY Zenon DEF CreateCoro
  <1>2. i \in Ids
    BY GenCoroIdType DEF TypeInv, TypeOK
  <1>3. coros[i] = None /\ waiting[i] = None /\ coros' = [coros EXCEPT ![i] = c]
    BY Zenon, <1>1 DEF Held
  <1>4. /\ state[c] = "none" /\ state' = [state EXCEPT ![c] = "fresh"]
        /\ yielded' = [yielded EXCEPT ![c] = TRUE]
        /\ UNCHANGED <<stack, timeouted, cancelled, yieldTimes, resumeTimes,
                       waiting, heap, valid, firing, fault>>
    BY DEF CreateCoro, timers
  <1>5. \A d \in Coros : /\ Running(d)' <=> Running(d)
                         /\ Suspended(d)' <=> Suspended(d)
    BY <1>4 DEF Running, Suspended, TypeInv, TypeOK
  <1>6. LivesOK'
    BY <1>4 DEF Safe, LivesOK, TypeInv, TypeOK
  <1>7. OneMapOK'
    BY <1>2, <1>3, <1>4 DEF Safe, OneMapOK, TypeInv, TypeOK
  <1>8. FiringOK' /\ InHeapOK' /\ FaultOK'
    BY <1>4 DEF Safe, FiringOK, InHeapOK, FaultOK, DataOf
  <1>9. ArmedOK'
    BY <1>4, <1>5 DEF Safe, ArmedOK, Timer
  <1>10. StackOK'
    BY <1>4, <1>5 DEF Safe, StackOK, OnStack
  <1>11. CountOK'
    <2> SUFFICES ASSUME NEW d \in Coros
                 PROVE resumeTimes'[d] = yieldTimes'[d]
                   + (IF Running(d)' \/ state'[d] \in {"ended", "deleted"} THEN 1 ELSE 0)
      BY DEF CountOK
    <2>1. state'[d] \in {"ended", "deleted"} <=> state[d] \in {"ended", "deleted"}
      BY <1>4 DEF TypeInv, TypeOK
    <2> QED BY <1>4, <1>5, <2>1 DEF Safe, CountOK
  <1>12. MapsOK'
    <2> SUFFICES ASSUME NEW j \in Ids, NEW d \in Coros
                 PROVE /\ coros'[j] = d <=> id'[d] = j /\ state'[d] \in {"fresh", "started"}
                       /\ waiting'[j] = d <=> id'[d] = j /\ state'[d] = "ended"
      BY DEF MapsOK
    <2>1. /\ coros[j] = d <=> id[d] = j /\ state[d] \in {"fresh", "started"}
          /\ waiting[j] = d <=> id[d] = j /\ state[d] = "ended"
          /\ coros[j] # c /\ waiting[j] # c
      BY <1>4 DEF Safe, MapsOK
    <2>2. CASE d = c
      BY <1>1, <1>2, <1>3, <1>4, <2>1, <2>2 DEF TypeInv, TypeOK
    <2>3. CASE d # c
      <3>1. id'[d] = id[d] /\ state'[d] = state[d]
        BY <1>1, <1>4, <2>3 DEF TypeInv, TypeOK
      <3>2. coros'[j] = d <=> coros[j] = d
        BY <1>2, <1>3, <2>3, ConstantsAssumption DEF TypeInv, TypeOK
      <3> QED BY <1>4, <2>1, <3>1, <3>2
    <2> QED BY <2>2, <2>3
  <1> QED
    BY <1>6, <1>7, <1>8, <1>9, <1>10, <1>11, <1>12 DEF Safe

\* Yield by the running coroutine.
LEMMA YieldSafe ==
    ASSUME TypeInv, SeqOK, Safe, NEW t \in Timeouts, Yield(t)
    PROVE  Safe'
  <1>1. PICK c \in Coros : c = Top /\ c = GetCurCoro /\ Running(c) /\ OnStack(c)
    BY CurCoroLemma DEF Yield
  <1>2. /\ Suspend(c, t) /\ stack' = Pop /\ Top # Main
        /\ UNCHANGED <<state, resumeTimes, coros, waiting, id, firing, fault>>
    BY <1>1, ConstantsAssumption DEF Yield, Suspend, maps
  <1>3. /\ yieldTimes' = [yieldTimes EXCEPT ![c] = @ + 1]
        /\ yielded' = [yielded EXCEPT ![c] = TRUE]
        /\ timeouted' = [timeouted EXCEPT ![c] = FALSE]
        /\ cancelled' = [cancelled EXCEPT ![c] = FALSE]
    BY <1>2 DEF Suspend, MarkYielded
  <1>4. PICK h : /\ DataOf(h) = [co |-> c, seq |-> yieldTimes[c] + 1]
                 /\ heap' = heap \cup {h}
                 /\ valid' = (valid \ {TimerOf(c)})
                               \cup {[co |-> c, seq |-> yieldTimes[c] + 1]}
    BY Zenon, <1>2 DEF Suspend, Schedule, TimerCancel, DataOf
  <1>5. Suspended(c)' /\ ~Running(c)' /\ ~Suspended(c)
    BY <1>1, <1>2, <1>3 DEF Running, Suspended, TypeInv, TypeOK
  <1>6. \A d \in Coros \ {c} : /\ Running(d)' <=> Running(d)
                               /\ Suspended(d)' <=> Suspended(d)
    BY <1>2, <1>3 DEF Running, Suspended, TypeInv, TypeOK
  <1>7. LivesOK' /\ OneMapOK' /\ MapsOK' /\ FaultOK'
    BY <1>1, <1>2, <1>3
       DEF Safe, LivesOK, OneMapOK, MapsOK, FaultOK, Running, TypeInv, TypeOK
  <1>8. ArmedOK'
    <2> SUFFICES ASSUME NEW u \in Timer
                 PROVE  u \in valid' <=> Suspended(u.co)' /\ u.seq = yieldTimes'[u.co]
      BY DEF ArmedOK
    <2>1. /\ u.co \in Coros /\ yieldTimes[c] \in Nat
          /\ u \in valid <=> Suspended(u.co) /\ u.seq = yieldTimes[u.co]
      BY Zenon DEF Safe, ArmedOK, Timer, TypeInv, TypeOK
    <2>2. CASE u.co = c
      <3>1. u \notin valid /\ yieldTimes'[c] = yieldTimes[c] + 1
        BY <1>3, <1>5, <2>1, <2>2 DEF TypeInv, TypeOK
      <3>2. u = [co |-> c, seq |-> yieldTimes[c] + 1] <=> u.seq = yieldTimes[c] + 1
        BY <2>2 DEF Timer
      <3> QED BY <1>4, <1>5, <2>2, <3>1, <3>2
    <2>3. CASE u.co # c
      <3>1. yieldTimes'[u.co] = yieldTimes[u.co]
        BY <1>3, <2>1, <2>3 DEF TypeInv, TypeOK
      <3>2. u # TimerOf(c) /\ u # [co |-> c, seq |-> yieldTimes[c] + 1]
        BY <2>3 DEF TimerOf
      <3> QED BY <1>4, <1>6, <2>1, <2>3, <3>1, <3>2
    <2> QED BY <2>2, <2>3
  <1>9. InHeapOK'
    BY <1>4 DEF Safe, InHeapOK, DataOf
  <1>10. FiringOK'
    <2>1. CASE firing = None
      BY <1>2, <2>1 DEF FiringOK
    <2>2. CASE firing # None
      <3>1. firing \in HeapEntry /\ firing.seq <= yieldTimes[firing.co]
        BY <2>2 DEF SeqOK, TypeInv, TypeOK
      <3>2. DataOf(firing) # [co |-> c, seq |-> yieldTimes[c] + 1]
        BY <3>1 DEF DataOf, HeapEntry, TypeInv, TypeOK
      <3>3. DataOf(firing) \notin valid
        BY <2>2 DEF Safe, FiringOK
      <3>4. DataOf(firing)' = DataOf(firing)
        BY <1>2 DEF DataOf
      <3> QED BY <1>4, <3>2, <3>3, <3>4 DEF FiringOK
    <2> QED BY <2>1, <2>2
  <1>11. StackOK'
    BY <1>1, <1>2, <1>5, <1>6, PopStack DEF Safe, StackOK
  <1>12. CountOK'
    <2> SUFFICES ASSUME NEW d \in Coros
                 PROVE resumeTimes'[d] = yieldTimes'[d]
                   + (IF Running(d)' \/ state'[d] \in {"ended", "deleted"} THEN 1 ELSE 0)
      BY DEF CountOK
    <2>1. /\ resumeTimes[d] \in Nat /\ yieldTimes[d] \in Nat
          /\ resumeTimes[d] = yieldTimes[d]
               + (IF Running(d) \/ state[d] \in {"ended", "deleted"} THEN 1 ELSE 0)
      BY DEF Safe, CountOK, TypeInv, TypeOK
    <2>2. CASE d = c
      <3>1. yieldTimes'[c] = yieldTimes[c] + 1 /\ state[c] = "started"
        BY <1>1, <1>3 DEF Running, TypeInv, TypeOK
      <3>2. resumeTimes[c] = yieldTimes[c] + 1
        BY <1>1, <2>1, <2>2
      <3> QED BY <1>2, <1>5, <2>1, <2>2, <3>1, <3>2
    <2>3. CASE d # c
      <3>1. yieldTimes'[d] = yieldTimes[d]
        BY <1>3, <2>3 DEF TypeInv, TypeOK
      <3> QED BY Zenon, <1>2, <1>6, <2>1, <2>3, <3>1
    <2> QED BY <2>2, <2>3
  <1> QED
    BY <1>7, <1>8, <1>9, <1>10, <1>11, <1>12 DEF Safe

\* The running coroutine returns and moves from coros_ to the recycle map.
LEMMA FinishSafe ==
    ASSUME TypeInv, Safe, Finish
    PROVE  Safe'
  <1>1. PICK c \in Coros : c = Top /\ Running(c)
    BY CurCoroLemma DEF Finish
  <1>2. id[c] \in Ids /\ coros[id[c]] = c /\ waiting[id[c]] = None
    BY <1>1, ConstantsAssumption DEF Safe, MapsOK, OneMapOK, Running, TypeInv, TypeOK
  <1>3. /\ waiting' = [waiting EXCEPT ![id[c]] = c]
        /\ coros' = [coros EXCEPT ![id[c]] = None]
        /\ state' = [state EXCEPT ![c] = "ended"]
        /\ stack' = Pop /\ Top # Main
        /\ UNCHANGED <<yielded, timeouted, cancelled, yieldTimes, resumeTimes, id,
                       heap, valid, firing, fault>>
    BY <1>1, <1>2 DEF Finish, MaskWillRecycle, flags, timers
  <1>4. ~Running(c)' /\ ~Suspended(c)' /\ ~Suspended(c) /\ ~yielded[c]
    BY <1>1, <1>3 DEF Running, Suspended, TypeInv, TypeOK
  <1>5. \A d \in Coros \ {c} : /\ Running(d)' <=> Running(d)
                               /\ Suspended(d)' <=> Suspended(d)
                               /\ state'[d] = state[d]
    BY <1>3 DEF Running, Suspended, TypeInv, TypeOK
  <1>6. LivesOK'
    BY <1>3, <1>4 DEF Safe, LivesOK, TypeInv, TypeOK
  <1>7. OneMapOK'
    BY <1>2, <1>3 DEF Safe, OneMapOK, TypeInv, TypeOK
  <1>8. FiringOK' /\ InHeapOK' /\ FaultOK'
    BY Zenon, <1>3 DEF Safe, FiringOK, InHeapOK, FaultOK, DataOf
  <1>9. ArmedOK'
    BY Zenon, <1>3, <1>4, <1>5 DEF Safe, ArmedOK, Timer
  <1>10. StackOK'
    BY Zenon, <1>1, <1>3, <1>4, <1>5, PopStack DEF Safe, StackOK
  <1>11. CountOK'
    <2> SUFFICES ASSUME NEW d \in Coros
                 PROVE resumeTimes'[d] = yieldTimes'[d]
                   + (IF Running(d)' \/ state'[d] \in {"ended", "deleted"} THEN 1 ELSE 0)
      BY DEF CountOK
    <2>1. CASE d = c
      <3>1. state'[c] = "ended"
        BY <1>3 DEF TypeInv, TypeOK
      <3> QED BY <1>1, <1>3, <2>1, <3>1 DEF Safe, CountOK
    <2>2. CASE d # c
      BY Zenon, <1>3, <1>5, <2>2 DEF Safe, CountOK
    <2> QED BY Zenon, <2>1, <2>2
  <1>12. MapsOK'
    <2> SUFFICES ASSUME NEW j \in Ids, NEW d \in Coros
                 PROVE /\ coros'[j] = d <=> id'[d] = j /\ state'[d] \in {"fresh", "started"}
                       /\ waiting'[j] = d <=> id'[d] = j /\ state'[d] = "ended"
      BY DEF MapsOK
    <2>1. /\ coros[j] = d <=> id[d] = j /\ state[d] \in {"fresh", "started"}
          /\ waiting[j] = d <=> id[d] = j /\ state[d] = "ended"
          /\ None # d
      BY ConstantsAssumption DEF Safe, MapsOK
    <2>2. CASE d = c
      <3>1. state'[c] = "ended"
        BY <1>3 DEF TypeInv, TypeOK
      <3>2. j # id[c] => coros[j] # c /\ waiting[j] # c
        BY <2>1, <2>2
      <3> QED BY <1>2, <1>3, <2>1, <2>2, <3>1, <3>2 DEF TypeInv, TypeOK
    <2>3. CASE d # c
      <3>1. CASE j = id[c]
        <4>1. coros'[j] = None /\ waiting'[j] = c
          BY <1>3, <3>1 DEF TypeInv, TypeOK
        <4>2. id'[d] = id[d] /\ state'[d] = state[d]
          BY Zenon, <1>3, <1>5, <2>3
        <4>3. coros[j] # d /\ waiting[j] # d
          BY Zenon, <1>2, <2>1, <2>3, <3>1
        <4> QED BY Zenon, <2>1, <2>3, <4>1, <4>2, <4>3
      <3>2. CASE j # id[c]
        BY <1>2, <1>3, <1>5, <2>1, <2>3, <3>2 DEF TypeInv, TypeOK
      <3> QED BY Zenon, <3>1, <3>2
    <2> QED BY <2>2, <2>3
  <1> QED
    BY <1>6, <1>7, <1>8, <1>9, <1>10, <1>11, <1>12 DEF Safe

-----------------------------------------------------------------------------
(* What Update does, and the invariant.                                    *)

\* A timer taken from the heap is stale and dropped, or belongs to the current
\* suspension of a coroutine that is suspended, and wakes it.
LEMMA UpdatePopSafe ==
    ASSUME TypeInv, Safe, UpdatePop
    PROVE  Safe'
  <1>1. PICK e \in heap :
          /\ heap' = heap \ {e}
          /\ IF DataOf(e) \notin valid
               THEN UNCHANGED <<stack, state, flags, valid, firing, fault>>
             ELSE IF state[e.co] = "deleted"
               THEN /\ fault' = "dangling"
                    /\ UNCHANGED <<stack, state, flags, valid, firing>>
             ELSE firing' = e /\ OnCoroTimeout(e.co)
    BY Zenon DEF UpdatePop
  <1>2. UNCHANGED <<coros, waiting, id>>
    BY Zenon DEF UpdatePop, maps
  <1>3. \A t \in valid : t # DataOf(e) => \E f \in heap \ {e} : DataOf(f) = t
    BY DEF Safe, InHeapOK
  <1>4. CASE DataOf(e) \notin valid
    <2>1. UNCHANGED <<stack, state, flags, valid, firing, fault>>
      BY Zenon, <1>1, <1>4
    <2>2. InHeapOK'
      BY <1>1, <1>3, <1>4, <2>1 DEF InHeapOK, DataOf
    <2>3. LivesOK' /\ StackOK' /\ CountOK' /\ ArmedOK'
      BY <2>1, FrameFlags, FrameArmed DEF Safe
    <2>4. OneMapOK' /\ MapsOK'
      BY <1>2, <2>1, FrameMaps DEF Safe
    <2>5. FiringOK' /\ FaultOK'
      BY <2>1 DEF Safe, FiringOK, FaultOK, DataOf
    <2> QED BY <2>2, <2>3, <2>4, <2>5 DEF Safe
  <1>5. CASE DataOf(e) \in valid
    <2>1. PICK c \in Coros : c = e.co
      BY DEF TypeInv, TypeOK, HeapEntry
    <2>2. Suspended(c) /\ DataOf(e) = TimerOf(c)
      BY <1>5, <2>1 DEF Safe, ArmedOK, DataOf, TimerOf, TypeInv, TypeOK
    <2>3. yielded[c] /\ firing' = e /\ OnCoroTimeout(c)
      BY <1>1, <1>5, <2>1, <2>2 DEF Suspended
    <2>4. PICK b \in BOOLEAN, v \in SUBSET valid :
            b = cancelled[c] /\ v = valid \ {TimerOf(c)}
      BY Zenon DEF TypeInv, TypeOK
    <2>5. CoroResume(c, TRUE, b, v)
      BY Zenon, <2>3, <2>4 DEF OnCoroTimeout, TimerCancel
    <2>6. /\ valid' = valid \ {TimerOf(c)}
          /\ LivesOK' /\ OneMapOK' /\ ArmedOK' /\ StackOK' /\ CountOK'
          /\ MapsOK' /\ FaultOK'
      BY ZenonT(30), <1>2, <2>3, <2>4, <2>5, WakeLemma
    <2>7. InHeapOK'
      BY Zenon, <1>1, <1>3, <2>2, <2>6 DEF InHeapOK, DataOf
    <2>8. FiringOK'
      BY <2>2, <2>3, <2>6 DEF FiringOK, DataOf
    <2> QED BY <2>6, <2>7, <2>8 DEF Safe
  <1> QED BY <1>4, <1>5

\* Deleting what has returned touches no timer and no live coroutine.
LEMMA UpdateEndSafe ==
    ASSUME TypeInv, Safe, UpdateEnd
    PROVE  Safe'
  <1> DEFINE dead == {waiting[i] : i \in Ids} \ {None}
  <1>1. \A c \in Coros : c \in dead <=> state[c] = "ended"
    BY ConstantsAssumption DEF Safe, MapsOK, TypeInv, TypeOK
  <1>2. dead \subseteq Coros
    BY DEF TypeInv, TypeOK
  <1>3. /\ state' = [c \in Coros |-> IF c \in dead THEN "deleted" ELSE state[c]]
        /\ waiting' = [i \in Ids |-> None]
        /\ valid' = {t \in valid : t.co \notin dead}
        /\ fault' = IF \E c \in dead : yielded[c] /\ TimerOf(c) \in valid
                      THEN "reentered" ELSE fault
        /\ UNCHANGED <<stack, yielded, timeouted, cancelled, yieldTimes, resumeTimes,
                       coros, id, heap, firing>>
    BY Zenon DEF UpdateEnd, flags
  <1> HIDE DEF dead
  <1>4. \A c \in dead : ~yielded[c] /\ ~Suspended(c)
    BY Zenon, <1>1, <1>2 DEF Safe, LivesOK, Suspended
  <1>5. valid' = valid
    BY <1>3, <1>4 DEF Safe, ArmedOK, TypeInv, TypeOK
  <1>6. \A c \in Coros : /\ Running(c)' <=> Running(c)
                         /\ Suspended(c)' <=> Suspended(c)
                         /\ state'[c] = (IF state[c] = "ended" THEN "deleted" ELSE state[c])
    BY Zenon, <1>1, <1>3 DEF Running, Suspended
  <1>7. FaultOK'
    BY <1>3, <1>4 DEF Safe, FaultOK
  <1>8. LivesOK' /\ OneMapOK'
    BY Zenon, <1>3, <1>6 DEF Safe, LivesOK, OneMapOK
  <1>9. FiringOK' /\ InHeapOK'
    BY Zenon, <1>3, <1>5 DEF Safe, FiringOK, InHeapOK, DataOf
  <1>10. ArmedOK'
    BY Zenon, <1>3, <1>5, <1>6 DEF Safe, ArmedOK, Timer
  <1>11. StackOK'
    BY <1>3, <1>6 DEF Safe, StackOK, OnStack
  <1>12. CountOK'
    BY <1>3, <1>6 DEF Safe, CountOK
  <1>13. MapsOK'
    <2>1. SUFFICES ASSUME NEW i \in Ids, NEW c \in Coros
                   PROVE  /\ coros'[i] = c <=> id'[c] = i /\ state'[c] \in {"fresh", "started"}
                          /\ waiting'[i] = c <=> id'[c] = i /\ state'[c] = "ended"
      BY DEF MapsOK
    <2>2. coros[i] = c <=> id[c] = i /\ state[c] \in {"fresh", "started"}
      BY DEF Safe, MapsOK
    <2>3. c # None
      BY ConstantsAssumption
    <2> QED BY <1>3, <1>6, <2>2, <2>3
  <1> QED
    BY <1>7, <1>8, <1>9, <1>10, <1>11, <1>12, <1>13 DEF Safe

\* Steps that change none of what the invariant relates.
LEMMA FrameSafe ==
    ASSUME Safe, UNCHANGED <<stack, state, flags, coros, waiting, id, timers>>, FaultOK'
    PROVE  Safe'
  <1>1. LivesOK' /\ StackOK' /\ CountOK'
    BY FrameFlags DEF Safe
  <1>2. OneMapOK' /\ MapsOK'
    BY FrameMaps DEF Safe
  <1>3. heap' = heap /\ valid' = valid /\ firing' = firing
    BY DEF timers
  <1>4. ArmedOK'
    BY <1>3, FrameArmed DEF Safe
  <1>5. FiringOK' /\ InHeapOK'
    BY <1>3 DEF Safe, FiringOK, InHeapOK, DataOf
  <1> QED BY <1>1, <1>2, <1>4, <1>5 DEF Safe

\* The heap and the data being fired never run ahead of the suspensions.
LEMMA SeqStep ==
    ASSUME TypeInv, SeqOK, [Next]_vars
    PROVE  SeqOK'
  <1>1. CASE UNCHANGED <<heap, firing, yieldTimes>>
    BY <1>1 DEF SeqOK
  <1>2. ASSUME NEW t \in Timeouts, Yield(t) PROVE SeqOK'
    <2>1. CASE UNCHANGED <<flags, timers>>
      BY <1>1, <2>1 DEF flags, timers
    <2>2. CASE GetCurCoro \in Coros /\ Suspend(GetCurCoro, t) /\ UNCHANGED firing
      <3>1. PICK c \in Coros : c = GetCurCoro
        BY <2>2
      <3>2. PICK h : /\ h.co = c /\ h.seq = yieldTimes[c] + 1
                     /\ heap' = heap \cup {h}
                     /\ yieldTimes' = [yieldTimes EXCEPT ![c] = @ + 1]
        BY Zenon, <2>2, <3>1 DEF Suspend, Schedule, TimerCancel
      <3>3. \A d \in Coros : yieldTimes[d] <= yieldTimes'[d]
                             /\ yieldTimes[d] \in Nat /\ yieldTimes'[d] \in Nat
        BY <3>2 DEF TypeInv, TypeOK
      <3>4. h.seq <= yieldTimes'[h.co]
        BY <3>2, <3>3 DEF TypeInv, TypeOK
      <3>5. ASSUME NEW e \in heap \cup ({firing} \ {None})
            PROVE  e.seq <= yieldTimes'[e.co]
        <4>1. e.co \in Coros /\ e.seq \in Nat /\ e.seq <= yieldTimes[e.co]
          BY DEF SeqOK, TypeInv, TypeOK, HeapEntry
        <4> QED BY <3>3, <4>1
      <3> QED BY <2>2, <3>2, <3>4, <3>5 DEF SeqOK
    <2> QED BY <1>2, <2>1, <2>2 DEF Yield
  <1>3. CASE UpdatePop
    <2>1. /\ UNCHANGED yieldTimes /\ heap' \subseteq heap
          /\ firing' \in heap \cup {firing}
      BY <1>3 DEF UpdatePop, OnCoroTimeout, TimerCancel, CoroResume, flags
    <2> QED BY <2>1 DEF SeqOK
  <1>4. CASE UpdateReturn
    <2>1. PICK h \in Int : h = snap + firing.period - ((snap - firing.handle) % firing.period)
      <3>1. firing.period \in Nat \ {0} /\ firing.handle \in Nat /\ snap \in Nat
        BY <1>4 DEF UpdateReturn, TypeInv, TypeOK, HeapEntry
      <3> QED BY <3>1
    <2>2. /\ firing \in HeapEntry /\ UNCHANGED yieldTimes /\ firing' = None
          /\ heap' = heap \/ heap' = heap \cup {[firing EXCEPT !.handle = h]}
      BY <1>4, <2>1 DEF UpdateReturn, TypeInv, TypeOK, flags
    <2>3. /\ [firing EXCEPT !.handle = h].seq = firing.seq
          /\ [firing EXCEPT !.handle = h].co = firing.co
      BY <2>2 DEF HeapEntry
    <2>4. firing.seq <= yieldTimes[firing.co]
      BY <1>4 DEF UpdateReturn, SeqOK
    <2> QED BY Zenon, <2>2, <2>3, <2>4 DEF SeqOK
  <1>5. ASSUME NEW c \in Coros, CreateCoro(c) \/ Launch(c)
        PROVE  UNCHANGED <<heap, firing, yieldTimes>>
    BY <1>5 DEF CreateCoro, Launch, CoroResume, timers
  <1>6. ASSUME NEW i \in Ids, Resume(i) \/ Cancel(i)
        PROVE  UNCHANGED <<heap, firing, yieldTimes>>
    BY <1>6 DEF Resume, Cancel, CoroCancel, OnCoroCancel, TimerCancel, CoroResume, flags
  <1>7. CASE \/ MainYield \/ Finish \/ UpdateBegin \/ UpdateEnd \/ Start
             \/ StopBegin \/ StopUpdate \/ Tick \/ UNCHANGED vars
    BY Zenon, <1>1, <1>7 DEF MainYield, Finish, UpdateBegin, UpdateEnd, Start, StopBegin,
         StopUpdate, Tick, vars, flags, timers
  <1>8. CASE StopStep
    BY <1>1, <1>8 DEF StopStep, CoroCancel, OnCoroCancel, TimerCancel, CoroResume, flags
  <1> QED
    BY <1>1, <1>2, <1>3, <1>4, <1>5, <1>6, <1>7, <1>8 DEF Next, Step, Crashed

\* Every step that reuses no id keeps the invariant.
LEMMA SafeStep ==
    ASSUME TypeInv, SeqOK, Safe, [Next]_vars, ~reused'
    PROVE  Safe'
  <1>1. ASSUME NEW c \in Coros, CreateCoro(c) PROVE Safe'
    BY <1>1, CreateSafe
  <1>2. ASSUME NEW c \in Coros, yielded[c],
               CoroResume(c, timeouted[c], cancelled[c], valid),
               UNCHANGED <<maps, heap, firing>>
        PROVE  Safe'
    <2>1. PICK a \in BOOLEAN, b \in BOOLEAN, v \in SUBSET valid :
            a = timeouted[c] /\ b = cancelled[c] /\ v = valid
      BY DEF TypeInv, TypeOK
    <2>2. CoroResume(c, a, b, v)
      BY <1>2, <2>1
    <2>3. ~a /\ ~b
      BY <1>2, <2>1 DEF Safe, LivesOK
    <2>4. UNCHANGED <<coros, waiting, id, heap, firing>>
      BY <1>2 DEF maps
    <2> QED BY Zenon, <1>2, <2>1, <2>2, <2>3, <2>4, WakeSafe
  <1>3. ASSUME NEW c \in Coros, Launch(c) PROVE Safe'
    BY <1>2, <1>3 DEF Launch, CanResume
  <1>4. ASSUME NEW i \in Ids, Resume(i) PROVE Safe'
    <2>1. PICK c \in Coros : c = coros[i]
      BY Zenon, <1>4 DEF Resume
    <2> QED BY Zenon, <1>2, <1>4, <2>1 DEF Resume, CanResume
  <1>5. ASSUME NEW c \in Coros, yielded[c], CoroCancel(c), UNCHANGED <<maps, heap, firing>>
        PROVE  Safe'
    <2>1. UNCHANGED <<coros, waiting, id, heap, firing>>
      BY <1>5 DEF maps
    <2> QED BY <1>5, <2>1, CancelSafe
  <1>6. ASSUME NEW i \in Ids, Cancel(i) PROVE Safe'
    <2>1. PICK c \in Coros : c = coros[i]
      BY <1>6 DEF Cancel
    <2> QED BY <1>5, <1>6, <2>1 DEF Cancel, CanResume
  <1>7. ASSUME NEW t \in Timeouts, Yield(t) PROVE Safe'
    BY <1>7, YieldSafe
  <1>8. CASE Finish
    BY <1>8, FinishSafe
  <1>9. CASE UpdatePop
    BY <1>9, UpdatePopSafe
  <1>10. CASE UpdateReturn
    <2>1. DataOf(firing) \notin valid
      BY <1>10 DEF UpdateReturn, Safe, FiringOK
    <2>2. /\ UNCHANGED <<stack, state, flags, coros, waiting, id, heap, valid, fault>>
          /\ firing' = None
      BY <1>10, <2>1 DEF UpdateReturn, maps
    <2>3. LivesOK' /\ StackOK' /\ CountOK' /\ ArmedOK'
      BY <2>2, FrameFlags, FrameArmed DEF Safe
    <2>4. OneMapOK' /\ MapsOK'
      BY <2>2, FrameMaps DEF Safe
    <2>5. FiringOK' /\ InHeapOK' /\ FaultOK'
      BY <2>2 DEF Safe, FiringOK, InHeapOK, FaultOK, DataOf
    <2> QED BY <2>3, <2>4, <2>5 DEF Safe
  <1>11. CASE UpdateEnd
    BY <1>11, UpdateEndSafe
  <1>12. CASE Start
    <2>1. /\ UNCHANGED <<stack, state, flags, timers, id, waiting>>
          /\ fault' \in {fault, "mainNull"}
          /\ UNCHANGED coros
             \/ (~Held(1) /\ coros' = [coros EXCEPT ![1] = Main])
      BY Zenon, <1>12 DEF Start, Held
    <2>2. FaultOK'
      BY <2>1 DEF Safe, FaultOK
    <2>3. CASE UNCHANGED coros
      BY <2>1, <2>2, <2>3, FrameSafe
    <2>4. CASE ~Held(1) /\ coros' = [coros EXCEPT ![1] = Main]
      <3>1. OneMapOK'
        BY <2>1, <2>4 DEF Safe, OneMapOK, Held, TypeInv, TypeOK
      <3>2. \A i \in Ids, c \in Coros : coros'[i] = c <=> coros[i] = c
        BY <2>4, ConstantsAssumption DEF Held, TypeInv, TypeOK
      <3>3. MapsOK'
        BY <2>1, <3>2 DEF Safe, MapsOK
      <3>4. heap' = heap /\ valid' = valid /\ firing' = firing
        BY <2>1 DEF timers
      <3>5. LivesOK' /\ StackOK' /\ CountOK' /\ ArmedOK'
        BY <2>1, <3>4, FrameFlags, FrameArmed DEF Safe
      <3>6. FiringOK' /\ InHeapOK'
        BY <3>4 DEF Safe, FiringOK, InHeapOK, DataOf
      <3> QED BY <2>2, <3>1, <3>3, <3>5, <3>6 DEF Safe
    <2> QED BY <2>1, <2>3, <2>4
  <1>13. CASE StopStep
    <2>1. UNCHANGED <<maps, heap, firing>>
      BY <1>13 DEF StopStep
    <2>2. CASE UNCHANGED <<stack, state, flags, valid>> /\ fault' \in {fault, "iterator"}
      BY <2>1, <2>2, FrameSafe DEF maps, timers, Safe, FaultOK
    <2>3. CASE /\ coros[stopIt] \in Coros /\ yielded[coros[stopIt]]
               /\ CoroCancel(coros[stopIt])
      <3>1. PICK c \in Coros : c = coros[stopIt]
        BY <2>3
      <3> QED BY Zenon, <1>5, <2>1, <2>3, <3>1
    <2>4. stopIt \in Ids
      BY <1>13 DEF StopStep, TypeInv, TypeOK
    <2> QED BY <1>13, <2>2, <2>3, <2>4 DEF StopStep, TypeInv, TypeOK
  <1>14. CASE \/ MainYield \/ UpdateBegin \/ StopBegin \/ StopUpdate \/ Tick
              \/ UNCHANGED vars
    <2>1. /\ UNCHANGED <<stack, state, flags, coros, waiting, id, timers>>
          /\ fault' \in {fault, "mainNull"}
      BY <1>14 DEF MainYield, UpdateBegin, StopBegin, StopUpdate, Tick, vars, maps
    <2> QED BY <2>1, FrameSafe DEF Safe, FaultOK
  <1> QED
    BY <1>1, <1>3, <1>4, <1>6, <1>7, <1>8, <1>9, <1>10, <1>11, <1>12, <1>13, <1>14
       DEF Next, Step, Crashed

\* An id that was reused stays on record.
LEMMA ReusedStep ==
    ASSUME TypeInv, [Next]_vars, reused
    PROVE  reused'
  BY Zenon DEF Next, Step, Crashed, CreateCoro, Launch, Resume, Cancel, Yield, MainYield,
     Finish, UpdateBegin, UpdatePop, UpdateReturn, UpdateEnd, Start, StopBegin,
     StopStep, StopUpdate, Tick, vars, maps, TypeInv, TypeOK

\* IInv is inductive and holds in every behaviour of the manager.
THEOREM InductiveInvariant == Spec => []IInv
  <1>1. Init => IInv
    <2> SUFFICES ASSUME Init PROVE IInv
      OBVIOUS
    <2>1. TypeInv
      <3>1. 0 \in Ids
        BY ConstantsAssumption DEF Ids
      <3>2. stack \in Seq(Coros \cup {Main}) /\ BottomOK
        BY DEF Init, BottomOK
      <3> QED BY Zenon, <3>1, <3>2 DEF Init, TypeInv, TypeOK, Faults
    <2>2. SeqOK
      BY DEF Init, SeqOK
    <2>3. \A c \in Coros : ~Running(c) /\ ~Suspended(c) /\ ~OnStack(c)
      BY ConstantsAssumption DEF Init, Running, Suspended, OnStack
    <2>4. Safe
      BY <2>3, ConstantsAssumption DEF Init, Safe, LivesOK, OneMapOK, FiringOK, ArmedOK,
           InHeapOK, StackOK, CountOK, MapsOK, FaultOK, Timer
    <2> QED BY <2>1, <2>2, <2>4, IInvSplit
  <1>2. IInv /\ [Next]_vars => IInv'
    <2> SUFFICES ASSUME IInv, [Next]_vars PROVE IInv'
      OBVIOUS
    <2>1. TypeInv /\ SeqOK /\ (~reused => Safe)
      BY IInvSplit
    <2>2. TypeInv' /\ SeqOK'
      BY <2>1, TypeStep, SeqStep
    <2>3. ~reused' => Safe'
      BY <2>1, SafeStep, ReusedStep
    <2>4. (TypeInv /\ SeqOK /\ (~reused => Safe))' => IInv'
      BY IInvSplit, PTL
    <2> QED BY <2>2, <2>3, <2>4
  <1> QED BY <1>1, <1>2, PTL DEF Spec

-----------------------------------------------------------------------------
(* What follows for the coroutine manager.                                 *)

\* No timer outlives its suspension and every suspension has its timer.
THEOREM TimersAgree == Spec => []TimersMatchSuspensions
  <1>1. IInv => TimersMatchSuspensions
    BY Zenon DEF IInv
  <1> QED BY <1>1, InductiveInvariant, PTL

\* libco's call stack holds exactly the coroutines that are not yielded.
THEOREM StackAgrees == Spec => []StackMatchesFlags
  <1>1. IInv => StackMatchesFlags
    BY Zenon DEF IInv
  <1> QED BY <1>1, InductiveInvariant, PTL

\* Of Resume, Cancel and the timeout exactly one ends a suspension.
THEOREM EachSuspensionWokenOnce == Spec => []WokenOnce
  <1>1. IInv => WokenOnce
    BY Zenon DEF IInv
  <1> QED BY <1>1, InductiveInvariant, PTL

\* coros_ and the recycle map hold the coroutines they are meant to hold.
THEOREM MapsAgree == Spec => []MapsMatchLives
  <1>1. IInv => MapsMatchLives
    BY DEF IInv
  <1> QED BY <1>1, InductiveInvariant, PTL

\* Nothing ever wakes a coroutine that is running, has returned or is deleted.
THEOREM NoStaleWakeUp == Spec => []NoStaleWake
  <1>1. IInv => NoStaleWake
    BY DEF IInv
  <1> QED BY <1>1, InductiveInvariant, PTL

\* GetCurCoro() called in a coroutine returns that coroutine's object.
THEOREM CurCoroCorrect == Spec => []CurCoroIsRunning
  <1>1. IInv => CurCoroIsRunning
    BY IInvSplit, CurCoroLemma DEF CurCoroIsRunning
  <1> QED BY <1>1, InductiveInvariant, PTL
=============================================================================
