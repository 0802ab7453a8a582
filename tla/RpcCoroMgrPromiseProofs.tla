---------------------- MODULE RpcCoroMgrPromiseProofs ----------------------
(***************************************************************************)
(* The coroutine manager keeps the promise of CoroSpec, as long as no id   *)
(* is issued twice, meets no undefined behaviour, and issues no id twice   *)
(* while GenCoroId does not wrap.  On top of IInv the first proof needs    *)
(* that a suspension has one deadline and that Update never looks into the *)
(* future.                                                                 *)
(***************************************************************************)
EXTENDS RpcCoroMgrProofs

\* A leaf that names no prover is tried with SMT, then with Zenon, then once more.
USE SMTT(30), ZenonT(30), SMTT(60)

\* Timer data is in the heap once, and Update works with a time that has come.
OneDeadline == \A e, f \in heap : DataOf(e) = DataOf(f) => e = f
DeadlineInv == snap <= now /\ (~reused => OneDeadline)

-----------------------------------------------------------------------------
(* The steps of CoroSpec, seen from one coroutine at a time.               *)

\* What CoroSpec sees of the coroutine d does not change.
SameView(d) ==
    /\ phaseOf(d)' = phaseOf(d) /\ outcomeOf(d)' = outcomeOf(d)
    /\ deadlineOf(d)' = deadlineOf(d)

\* A step that changes no view is invisible to CoroSpec.
LEMMA AbsStutter ==
    ASSUME \A d \in Coros : SameView(d), now' = now
    PROVE  UNCHANGED Abs!absVars
  BY DEF Abs!absVars, SameView

\* A coroutine that becomes ready is CoroSpec's Create.
LEMMA AbsCreate ==
    ASSUME NEW c \in Coros, phaseOf(c) = "none", phaseOf(c)' = "ready",
           outcomeOf(c)' = outcomeOf(c), deadlineOf(c)' = deadlineOf(c),
           \A d \in Coros \ {c} : SameView(d), now' = now
    PROVE  Abs!Next
  <1>1. Abs!Create(c)
    BY Zenon DEF Abs!Create, Abs!Move, SameView
  <1> QED  BY <1>1 DEF Abs!Next

\* A ready coroutine that runs is its Begin.
LEMMA AbsBegin ==
    ASSUME NEW c \in Coros, phaseOf(c) = "ready", phaseOf(c)' = "running",
           outcomeOf(c)' = outcomeOf(c), deadlineOf(c)' = deadlineOf(c),
           \A d \in Coros \ {c} : SameView(d), now' = now
    PROVE  Abs!Next
  <1>1. Abs!Begin(c)
    BY Zenon DEF Abs!Begin, Abs!Move, SameView
  <1> QED  BY <1>1 DEF Abs!Next

\* A running coroutine that is suspended, with its deadline to come, is its Suspend.
LEMMA AbsSuspend ==
    ASSUME NEW c \in Coros, phaseOf(c) = "running", phaseOf(c)' = "suspended",
           outcomeOf(c)' = "ok", deadlineOf(c)' > now,
           \A d \in Coros \ {c} : SameView(d), now' = now
    PROVE  Abs!Next
  <1>1. Abs!Suspend(c)
    BY Zenon DEF Abs!Suspend, Abs!Move, SameView
  <1> QED  BY <1>1 DEF Abs!Next

\* A suspended coroutine that runs again is its Wake; a timeout is not early.
LEMMA AbsWake ==
    ASSUME NEW c \in Coros, phaseOf(c) = "suspended", phaseOf(c)' = "running",
           NEW how \in {"ok", "timeout", "cancel"}, outcomeOf(c)' = how,
           deadlineOf(c)' = 0, how = "timeout" => deadlineOf(c) <= now,
           \A d \in Coros \ {c} : SameView(d), now' = now
    PROVE  Abs!Next
  <1>1. Abs!Wake(c, how)
    BY Zenon DEF Abs!Wake, Abs!Move, SameView
  <1> QED  BY <1>1 DEF Abs!Next

\* A running coroutine that is done is its Finish.
LEMMA AbsFinish ==
    ASSUME NEW c \in Coros, phaseOf(c) = "running", phaseOf(c)' = "done",
           outcomeOf(c)' = outcomeOf(c), deadlineOf(c)' = deadlineOf(c),
           \A d \in Coros \ {c} : SameView(d), now' = now
    PROVE  Abs!Next
  <1>1. Abs!Finish(c)
    BY Zenon DEF Abs!Finish, Abs!Move, SameView
  <1> QED  BY <1>1 DEF Abs!Next

\* The deletion of every coroutine that is done is its Free.
LEMMA AbsFree ==
    ASSUME \A d \in Coros :
             /\ phaseOf(d)' = IF phaseOf(d) = "done" THEN "gone" ELSE phaseOf(d)
             /\ outcomeOf(d)' = outcomeOf(d) /\ deadlineOf(d)' = deadlineOf(d),
           now' = now
    PROVE  Abs!Next
  <1>1. Abs!Free
    BY DEF Abs!Free
  <1> QED  BY <1>1 DEF Abs!Next

\* A tick of the clock is its Advance.
LEMMA AbsAdvance ==
    ASSUME \A d \in Coros : SameView(d), now' = now + 1
    PROVE  Abs!Next
  <1>1. Abs!Advance
    BY DEF Abs!Advance, SameView
  <1> QED  BY <1>1 DEF Abs!Next

-----------------------------------------------------------------------------
(* The refinement mapping.                                                 *)

\* The phase follows from life cycle and yielded_.
LEMMA PhaseOf ==
    ASSUME TypeInv, NEW c \in Coros
    PROVE  /\ state[c] = "none" => phaseOf(c) = "none"
           /\ state[c] = "fresh" => phaseOf(c) = "ready"
           /\ state[c] = "started" /\ ~yielded[c] => phaseOf(c) = "running"
           /\ state[c] = "started" /\ yielded[c] => phaseOf(c) = "suspended"
           /\ state[c] = "ended" => phaseOf(c) = "done"
           /\ state[c] = "deleted" => phaseOf(c) = "gone"
  BY DEF phaseOf, Running, Suspended

\* The phase stays while life cycle and yielded_ stay.
LEMMA SamePhase ==
    ASSUME NEW c \in Coros, state'[c] = state[c], yielded'[c] = yielded[c]
    PROVE  phaseOf(c)' = phaseOf(c)
  BY DEF phaseOf, Running, Suspended

\* The outcome stays while timeouted_ and cancelled_ stay.
LEMMA SameOutcome ==
    ASSUME NEW c \in Coros, timeouted'[c] = timeouted[c], cancelled'[c] = cancelled[c]
    PROVE  outcomeOf(c)' = outcomeOf(c)
  BY DEF outcomeOf

\* A coroutine that is not suspended has no deadline.
LEMMA NoDeadline ==
    ASSUME NEW c \in Coros, ~Suspended(c)
    PROVE  deadlineOf(c) = 0
  BY DEF deadlineOf

\* The deadline of a suspension is the time of its entry in the heap.
LEMMA DeadlineOf ==
    ASSUME OneDeadline, NEW c \in Coros, Suspended(c),
           NEW e \in heap, DataOf(e) = TimerOf(c)
    PROVE  deadlineOf(c) = e.handle
  <1> DEFINE armed == {f \in heap : DataOf(f) = TimerOf(c)}
  <1>1. armed = {e}
    BY DEF OneDeadline
  <1> QED  BY <1>1 DEF deadlineOf

\* It stays while the coroutine is suspended and the entry is in the heap.
LEMMA SameDeadline ==
    ASSUME OneDeadline, OneDeadline', NEW c \in Coros, Suspended(c), Suspended(c)',
           yieldTimes'[c] = yieldTimes[c], NEW e \in heap, e \in heap', DataOf(e) = TimerOf(c)
    PROVE  deadlineOf(c)' = deadlineOf(c)
  <1>1. TimerOf(c)' = TimerOf(c)
    BY DEF TimerOf
  <1>2. deadlineOf(c) = e.handle
    BY DeadlineOf
  <1> DEFINE armed == {f \in heap' : DataOf(f) = TimerOf(c)}
  <1>3. armed = {e}
    BY DEF OneDeadline, DataOf
  <1>4. deadlineOf(c)' = e.handle
    BY <1>1, <1>3 DEF deadlineOf, DataOf
  <1> QED  BY <1>2, <1>4

\* A suspended coroutine has its entry in the heap.
LEMMA HasEntry ==
    ASSUME TypeInv, Safe, NEW c \in Coros, Suspended(c)
    PROVE  TimerOf(c) \in valid /\ \E e \in heap : DataOf(e) = TimerOf(c)
  <1>1. TimerOf(c) \in Timer /\ TimerOf(c).co = c /\ TimerOf(c).seq = yieldTimes[c]
    BY DEF TimerOf, Timer, TypeInv, TypeOK
  <1>2. TimerOf(c) \in valid
    BY <1>1 DEF Safe, ArmedOK
  <1> QED  BY <1>2 DEF Safe, InHeapOK

\* A coroutine whose flags and whose entry in the heap are left alone looks
\* the same.
LEMMA ViewKept ==
    ASSUME TypeInv, Safe, OneDeadline, OneDeadline', NEW d \in Coros,
           state'[d] = state[d], yielded'[d] = yielded[d], timeouted'[d] = timeouted[d],
           cancelled'[d] = cancelled[d], yieldTimes'[d] = yieldTimes[d],
           \A e \in heap : Suspended(d) /\ DataOf(e) = TimerOf(d) => e \in heap'
    PROVE  SameView(d)
  <1>1. phaseOf(d)' = phaseOf(d) /\ outcomeOf(d)' = outcomeOf(d)
    BY SamePhase, SameOutcome
  <1>2. Suspended(d)' <=> Suspended(d)
    BY DEF Suspended
  <1>3. CASE Suspended(d)
    <2>1. PICK e \in heap : DataOf(e) = TimerOf(d)
      BY <1>3, HasEntry
    <2>2. deadlineOf(d)' = deadlineOf(d)
      BY <1>2, <1>3, <2>1, SameDeadline
    <2> QED  BY <1>1, <2>2 DEF SameView
  <1>4. CASE ~Suspended(d)
    <2>1. deadlineOf(d) = 0
      BY <1>4, NoDeadline
    <2>2. deadlineOf(d)' = 0
      BY <1>2, <1>4 DEF deadlineOf
    <2> QED  BY <1>1, <2>1, <2>2 DEF SameView
  <1> QED  BY <1>3, <1>4

\* A wake-up starts a new coroutine, or ends its suspension in the way that
\* Yield will report.
LEMMA WakeRefines ==
    ASSUME TypeInv, TypeInv', Safe, OneDeadline, OneDeadline',
           NEW c \in Coros, yielded[c], NEW a \in BOOLEAN, NEW b \in BOOLEAN, NEW v,
           CoroResume(c, a, b, v), now' = now,
           state[c] = "fresh" => ~a /\ ~b,
           a => deadlineOf(c) <= now,
           \A d \in Coros \ {c}, e \in heap :
             Suspended(d) /\ DataOf(e) = TimerOf(d) => e \in heap'
    PROVE  Abs!Next
  <1>1. /\ state' = [state EXCEPT ![c] = "started"]
        /\ yielded' = [yielded EXCEPT ![c] = FALSE]
        /\ timeouted' = [timeouted EXCEPT ![c] = a]
        /\ cancelled' = [cancelled EXCEPT ![c] = b]
        /\ yieldTimes' = yieldTimes
    BY CoroResumeOnce DEF CoResume
  <1>2. \A d \in Coros \ {c} : SameView(d)
    <2> TAKE d \in Coros \ {c}
    <2>1. /\ state'[d] = state[d] /\ yielded'[d] = yielded[d]
          /\ timeouted'[d] = timeouted[d] /\ cancelled'[d] = cancelled[d]
          /\ yieldTimes'[d] = yieldTimes[d]
      BY <1>1 DEF TypeInv, TypeOK
    <2> QED  BY <2>1, ViewKept
  <1>3. state'[c] = "started" /\ yielded'[c] = FALSE /\ timeouted'[c] = a /\ cancelled'[c] = b
    BY <1>1 DEF TypeInv, TypeOK
  <1>4. phaseOf(c)' = "running" /\ deadlineOf(c)' = 0
    BY <1>3 DEF phaseOf, deadlineOf, Running, Suspended
  <1>5. outcomeOf(c)' = IF a THEN "timeout" ELSE IF b THEN "cancel" ELSE "ok"
    BY <1>3 DEF outcomeOf
  <1>6. CASE state[c] = "fresh"
    <2>1. phaseOf(c) = "ready"
      BY <1>6, PhaseOf
    <2>2. outcomeOf(c) = "ok" /\ outcomeOf(c)' = "ok"
      BY <1>5, <1>6 DEF outcomeOf, Safe, LivesOK
    <2>3. deadlineOf(c) = 0
      BY <1>6, NoDeadline DEF Suspended
    <2> QED  BY <1>2, <1>4, <2>1, <2>2, <2>3, AbsBegin
  <1>7. CASE state[c] = "started"
    <2>1. phaseOf(c) = "suspended"
      BY <1>7, PhaseOf
    <2>2. PICK how \in {"ok", "timeout", "cancel"} :
            how = (IF a THEN "timeout" ELSE IF b THEN "cancel" ELSE "ok")
      OBVIOUS
    <2>3. outcomeOf(c)' = how /\ (how = "timeout" => deadlineOf(c) <= now)
      BY <1>5, <2>2
    <2> QED  BY <1>2, <1>4, <2>1, <2>3, AbsWake
  <1> QED  BY <1>6, <1>7 DEF Safe, LivesOK

\* Cancelling a suspended coroutine ends its suspension.
LEMMA CancelRefines ==
    ASSUME TypeInv, TypeInv', Safe, OneDeadline, OneDeadline',
           NEW c \in Coros, yielded[c], CoroCancel(c), UNCHANGED <<heap, now>>
    PROVE  Abs!Next
  <1>1. TimerOf(c) \in valid /\ ~(firing # None /\ DataOf(firing) = TimerOf(c))
    BY DEF CoroCancel, Safe, FiringOK
  <1>2. CoroResume(c, timeouted[c], TRUE, TimerCancel(valid, c))
    BY Zenon, <1>1 DEF CoroCancel, OnCoroCancel, CancelWakes
  <1>3. TimerOf(c) \in Timer /\ TimerOf(c).co = c
    BY DEF TimerOf, Timer, TypeInv, TypeOK
  <1>4. Suspended(c)
    BY <1>1, <1>3 DEF Safe, ArmedOK
  <1>5. state[c] # "fresh"
    BY <1>4 DEF Suspended
  <1>6. timeouted[c] = FALSE
    BY DEF Safe, LivesOK, TypeInv, TypeOK
  <1>7. CoroResume(c, FALSE, TRUE, TimerCancel(valid, c))
    BY Zenon, <1>2, <1>6
  <1> QED  BY Zenon, <1>5, <1>7, WakeRefines

-----------------------------------------------------------------------------
(* Each action is a step of CoroSpec, or invisible to it.                  *)

\* RpcCoroMgr::CreateCoro is Create.
LEMMA CreateRefines ==
    ASSUME TypeInv, TypeInv', Safe, OneDeadline, OneDeadline', NEW c \in Coros, CreateCoro(c)
    PROVE  Abs!Next
  <1>1. /\ state[c] = "none" /\ state' = [state EXCEPT ![c] = "fresh"]
        /\ yielded' = [yielded EXCEPT ![c] = TRUE]
        /\ UNCHANGED <<timeouted, cancelled, yieldTimes, heap, now>>
    BY DEF CreateCoro, timers
  <1>2. \A d \in Coros \ {c} : SameView(d)
    <2> TAKE d \in Coros \ {c}
    <2>1. state'[d] = state[d] /\ yielded'[d] = yielded[d]
      BY <1>1 DEF TypeInv, TypeOK
    <2> QED  BY Zenon, <1>1, <2>1, ViewKept
  <1>3. state'[c] = "fresh"
    BY <1>1 DEF TypeInv, TypeOK
  <1>4. phaseOf(c) = "none" /\ deadlineOf(c) = 0
    BY <1>1, PhaseOf, NoDeadline DEF Suspended
  <1>5. phaseOf(c)' = "ready" /\ deadlineOf(c)' = 0
    BY <1>3 DEF phaseOf, deadlineOf, Running, Suspended
  <1>6. outcomeOf(c)' = outcomeOf(c)
    BY <1>1, SameOutcome
  <1> QED  BY <1>1, <1>2, <1>4, <1>5, <1>6, AbsCreate

\* A plain resume reports "ok": the flags of a yielded coroutine are clear.
LEMMA ResumeRefines ==
    ASSUME TypeInv, TypeInv', Safe, OneDeadline, OneDeadline', NEW c \in Coros, yielded[c],
           CoroResume(c, timeouted[c], cancelled[c], valid), UNCHANGED <<heap, now>>
    PROVE  Abs!Next
  <1>1. timeouted[c] = FALSE /\ cancelled[c] = FALSE
    BY DEF Safe, LivesOK, TypeInv, TypeOK
  <1>2. CoroResume(c, FALSE, FALSE, valid)
    BY Zenon, <1>1
  <1> QED  BY Zenon, <1>2, WakeRefines

\* Coro::Yield arms a timer that is in the future.
LEMMA YieldRefines ==
    ASSUME TypeInv, TypeInv', SeqOK, Safe, OneDeadline, OneDeadline',
           NEW t \in Timeouts, Yield(t)
    PROVE  Abs!Next
  <1>1. PICK c \in Coros : c = Top /\ c = GetCurCoro /\ Running(c)
    BY CurCoroLemma DEF Yield
  <1>2. Suspend(c, t) /\ UNCHANGED <<state, now>>
    BY <1>1, ConstantsAssumption DEF Yield
  <1> DEFINE due == ActualTimeout(t)
             e == [co |-> c, seq |-> yieldTimes[c] + 1, handle |-> now + due, period |-> due]
  <1>3. due \in Nat \ {0} /\ now \in Nat
    BY ActualTimeoutPositive DEF TypeInv, TypeOK
  <1>4. /\ yieldTimes' = [yieldTimes EXCEPT ![c] = @ + 1]
        /\ heap' = heap \cup {e}
        /\ yielded' = [yielded EXCEPT ![c] = TRUE]
        /\ timeouted' = [timeouted EXCEPT ![c] = FALSE]
        /\ cancelled' = [cancelled EXCEPT ![c] = FALSE]
    BY <1>2 DEF Suspend, Schedule, MarkYielded
  <1>5. \A d \in Coros \ {c} : SameView(d)
    <2> TAKE d \in Coros \ {c}
    <2>1. /\ state'[d] = state[d] /\ yielded'[d] = yielded[d]
          /\ timeouted'[d] = timeouted[d] /\ cancelled'[d] = cancelled[d]
          /\ yieldTimes'[d] = yieldTimes[d]
      BY <1>2, <1>4 DEF TypeInv, TypeOK
    <2> QED  BY Zenon, <1>4, <2>1, ViewKept
  <1>6. /\ state'[c] = "started" /\ yielded'[c] = TRUE /\ timeouted'[c] = FALSE
        /\ cancelled'[c] = FALSE /\ yieldTimes'[c] = yieldTimes[c] + 1
    BY <1>1, <1>2, <1>4 DEF Running, TypeInv, TypeOK
  <1>7. phaseOf(c) = "running"
    BY <1>1, PhaseOf DEF Running
  <1>8. phaseOf(c)' = "suspended" /\ outcomeOf(c)' = "ok"
    BY <1>6 DEF phaseOf, outcomeOf, Running, Suspended
  <1>9. deadlineOf(c)' = now + due
    <2>1. TimerOf(c)' = DataOf(e)
      BY <1>6 DEF TimerOf, DataOf
    <2> DEFINE armed == {f \in heap' : DataOf(f) = TimerOf(c)'}
    <2>2. armed = {e}
      BY Zenon, <1>4, <2>1 DEF OneDeadline, DataOf
    <2>3. Suspended(c)'
      BY <1>6 DEF Suspended
    <2>4. deadlineOf(c)' = e.handle
      BY Zenon, <2>2, <2>3 DEF deadlineOf, DataOf
    <2> QED  BY <2>4
  <1>10. deadlineOf(c)' > now
    BY <1>3, <1>9
  <1> QED  BY <1>2, <1>5, <1>7, <1>8, <1>10, AbsSuspend

\* A coroutine whose function returns is Finish.
LEMMA FinishRefines ==
    ASSUME TypeInv, TypeInv', Safe, OneDeadline, OneDeadline', Finish
    PROVE  Abs!Next
  <1>1. PICK c \in Coros : c = Top /\ Running(c)
    BY CurCoroLemma DEF Finish
  <1>2. /\ state' = [state EXCEPT ![c] = "ended"]
        /\ UNCHANGED <<yielded, timeouted, cancelled, yieldTimes, heap, now>>
    BY <1>1 DEF Finish, flags, timers
  <1>3. \A d \in Coros \ {c} : SameView(d)
    <2> TAKE d \in Coros \ {c}
    <2>1. state'[d] = state[d]
      BY <1>2 DEF TypeInv, TypeOK
    <2> QED  BY <1>2, <2>1, ViewKept
  <1>4. state'[c] = "ended"
    BY <1>2 DEF TypeInv, TypeOK
  <1>5. phaseOf(c) = "running" /\ deadlineOf(c) = 0
    BY <1>1, PhaseOf, NoDeadline DEF Running, Suspended
  <1>6. phaseOf(c)' = "done" /\ deadlineOf(c)' = 0
    BY <1>4 DEF phaseOf, deadlineOf, Running, Suspended
  <1>7. outcomeOf(c)' = outcomeOf(c)
    BY <1>2, SameOutcome
  <1> QED  BY <1>2, <1>3, <1>5, <1>6, <1>7, AbsFinish

\* Update fires a timer only when its time has come.
LEMMA UpdatePopRefines ==
    ASSUME TypeInv, TypeInv', Safe, OneDeadline, OneDeadline', snap <= now, UpdatePop
    PROVE  Abs!Next \/ UNCHANGED Abs!absVars
  <1>1. PICK e \in heap :
          /\ Due(e) /\ heap' = heap \ {e}
          /\ IF DataOf(e) \notin valid
               THEN UNCHANGED <<stack, state, flags, valid, firing, fault>>
             ELSE IF state[e.co] = "deleted"
               THEN /\ fault' = "dangling"
                    /\ UNCHANGED <<stack, state, flags, valid, firing>>
             ELSE firing' = e /\ OnCoroTimeout(e.co)
    BY Zenon DEF UpdatePop
  <1>2. now' = now
    BY DEF UpdatePop
  <1>3. CASE DataOf(e) \notin valid
    <2>1. UNCHANGED <<state, yielded, timeouted, cancelled, yieldTimes>>
      BY <1>1, <1>3 DEF flags
    <2>2. \A d \in Coros : SameView(d)
      <3> TAKE d \in Coros
      <3>1. \A f \in heap : Suspended(d) /\ DataOf(f) = TimerOf(d) => f \in heap'
        BY <1>1, <1>3, HasEntry
      <3> QED  BY <2>1, <3>1, ViewKept
    <2> QED  BY <1>2, <2>2, AbsStutter
  <1>4. CASE DataOf(e) \in valid
    <2>1. PICK c \in Coros : c = e.co
      BY DEF TypeInv, TypeOK, HeapEntry
    <2>2. Suspended(c) /\ DataOf(e) = TimerOf(c)
      BY <1>4, <2>1 DEF Safe, ArmedOK, DataOf, TimerOf, TypeInv, TypeOK
    <2>3. yielded[c] /\ OnCoroTimeout(c) /\ state[c] # "fresh"
      BY <1>1, <1>4, <2>1, <2>2 DEF Suspended
    <2>4. cancelled[c] = FALSE
      BY <2>3 DEF Safe, LivesOK, TypeInv, TypeOK
    <2>5. CoroResume(c, TRUE, FALSE, TimerCancel(valid, c))
      BY Zenon, <2>3, <2>4 DEF OnCoroTimeout
    <2>6. deadlineOf(c) <= now
      <3>1. deadlineOf(c) = e.handle
        BY <2>2, DeadlineOf
      <3>2. e.handle \in Nat /\ snap \in Nat /\ now \in Nat
        BY DEF TypeInv, TypeOK, HeapEntry
      <3> QED  BY <1>1, <3>1, <3>2 DEF Due
    <2>7. \A d \in Coros \ {c}, f \in heap :
            Suspended(d) /\ DataOf(f) = TimerOf(d) => f \in heap'
      BY <1>1, <2>2 DEF TimerOf
    <2> QED  BY Zenon, <1>2, <2>3, <2>5, <2>6, <2>7, WakeRefines
  <1> QED  BY <1>3, <1>4

\* RecycleContainer frees what has returned and nothing else.
LEMMA UpdateEndRefines ==
    ASSUME TypeInv, TypeInv', Safe, OneDeadline, OneDeadline', UpdateEnd
    PROVE  Abs!Next
  <1> DEFINE dead == {waiting[i] : i \in Ids} \ {None}
  <1>1. \A c \in Coros : c \in dead <=> state[c] = "ended"
    BY ConstantsAssumption DEF Safe, MapsOK, TypeInv, TypeOK
  <1>2. /\ state' = [c \in Coros |-> IF c \in dead THEN "deleted" ELSE state[c]]
        /\ UNCHANGED <<yielded, timeouted, cancelled, yieldTimes, heap, now>>
    BY Zenon DEF UpdateEnd, flags
  <1> HIDE DEF dead
  <1>3. ASSUME NEW d \in Coros
        PROVE  /\ phaseOf(d)' = IF phaseOf(d) = "done" THEN "gone" ELSE phaseOf(d)
               /\ outcomeOf(d)' = outcomeOf(d) /\ deadlineOf(d)' = deadlineOf(d)
    <2>1. CASE state[d] = "ended"
      <3>1. state'[d] = "deleted"
        BY <1>1, <1>2, <2>1
      <3>2. phaseOf(d) = "done" /\ deadlineOf(d) = 0
        BY <2>1, PhaseOf, NoDeadline DEF Suspended
      <3>3. phaseOf(d)' = "gone" /\ deadlineOf(d)' = 0
        BY <3>1 DEF phaseOf, deadlineOf, Running, Suspended
      <3>4. outcomeOf(d)' = outcomeOf(d)
        BY <1>2, SameOutcome
      <3> QED  BY <3>2, <3>3, <3>4
    <2>2. CASE state[d] # "ended"
      <3>1. state'[d] = state[d]
        BY <1>1, <1>2, <2>2
      <3>2. SameView(d)
        BY <1>2, <3>1, ViewKept
      <3>3. phaseOf(d) # "done"
        BY Zenon, <2>2, PhaseOf DEF TypeInv, TypeOK
      <3> QED  BY <3>2, <3>3 DEF SameView
    <2> QED  BY <2>1, <2>2
  <1> QED  BY <1>2, <1>3, AbsFree

\* Every step of the manager is a step of CoroSpec or leaves its view alone.
LEMMA StepRefines ==
    ASSUME TypeInv, TypeInv', SeqOK, Safe, OneDeadline, OneDeadline', snap <= now,
           [Next]_vars
    PROVE  [Abs!Next]_(Abs!absVars)
  <1>1. ASSUME NEW c \in Coros, CreateCoro(c) PROVE Abs!Next
    BY <1>1, CreateRefines
  <1>2. ASSUME NEW c \in Coros, Launch(c) PROVE Abs!Next
    BY Zenon, <1>2, ResumeRefines DEF Launch, CanResume
  <1>3. ASSUME NEW i \in Ids, Resume(i) PROVE Abs!Next
    <2>1. PICK c \in Coros : c = coros[i]
      BY Zenon, <1>3 DEF Resume
    <2> QED  BY Zenon, <1>3, <2>1, ResumeRefines DEF Resume, CanResume
  <1>4. ASSUME NEW i \in Ids, Cancel(i) PROVE Abs!Next
    <2>1. PICK c \in Coros : c = coros[i]
      BY Zenon, <1>4 DEF Cancel
    <2> QED  BY Zenon, <1>4, <2>1, CancelRefines DEF Cancel, CanResume
  <1>5. ASSUME NEW t \in Timeouts, Yield(t) PROVE Abs!Next
    BY <1>5, YieldRefines
  <1>6. CASE Finish
    BY <1>6, FinishRefines
  <1>7. CASE UpdatePop
    BY <1>7, UpdatePopRefines
  <1>8. CASE UpdateEnd
    BY <1>8, UpdateEndRefines
  <1>9. ASSUME UNCHANGED <<state, flags, heap>>
        PROVE  \A d \in Coros : SameView(d)
    BY <1>9, ViewKept DEF flags
  <1>10. CASE Tick
    <2>1. UNCHANGED <<state, flags, heap>> /\ now' = now + 1
      BY <1>10 DEF Tick, timers
    <2> QED  BY <1>9, <2>1, AbsAdvance
  <1>11. CASE \/ MainYield \/ UpdateBegin \/ UpdateReturn \/ Start \/ StopBegin
              \/ StopUpdate \/ UNCHANGED vars
    <2>1. UNCHANGED <<state, flags, now>>
      BY <1>11 DEF MainYield, UpdateBegin, UpdateReturn, Start, StopBegin, StopUpdate, vars
    <2>2. CASE UpdateReturn
      <3>1. DataOf(firing) \notin valid
        BY <2>2 DEF UpdateReturn, Safe, FiringOK
      <3>2. heap' = heap
        BY <2>2, <3>1 DEF UpdateReturn
      <3> QED  BY <1>9, <2>1, <3>2, AbsStutter
    <2>3. CASE ~UpdateReturn
      <3>1. heap' = heap
        BY <1>11, <2>3 DEF MainYield, UpdateBegin, Start, StopBegin, StopUpdate, vars, timers
      <3> QED  BY <1>9, <2>1, <3>1, AbsStutter
    <2> QED  BY <2>2, <2>3
  <1>12. CASE StopStep
    <2>1. UNCHANGED <<heap, now>> /\ stopIt \in Ids
      BY <1>12 DEF StopStep, TypeInv, TypeOK
    <2>2. CASE UNCHANGED <<state, flags>>
      BY <1>9, <2>1, <2>2, AbsStutter
    <2>3. CASE /\ coros[stopIt] \in Coros /\ yielded[coros[stopIt]]
               /\ CoroCancel(coros[stopIt])
      <3>1. PICK c \in Coros : c = coros[stopIt]
        BY <2>3
      <3> QED  BY Zenon, <2>1, <2>3, <3>1, CancelRefines
    <2> QED  BY <1>12, <2>1, <2>2, <2>3 DEF StopStep, TypeInv, TypeOK
  <1> QED
    BY Zenon, <1>1, <1>2, <1>3, <1>4, <1>5, <1>6, <1>7, <1>8, <1>10, <1>11, <1>12
       DEF Next, Step, Crashed

-----------------------------------------------------------------------------
\* A new entry belongs to a suspension that had none.
LEMMA OneDeadlineStep ==
    ASSUME TypeInv, SeqOK, Safe, OneDeadline, [Next]_vars
    PROVE  OneDeadline'
  <1>1. CASE heap' \subseteq heap
    BY <1>1 DEF OneDeadline, DataOf
  <1>2. CASE UpdateReturn
    BY <1>1, <1>2 DEF UpdateReturn, Safe, FiringOK
  <1>3. ASSUME NEW t \in Timeouts, Yield(t) PROVE OneDeadline'
    <2>1. CASE UNCHANGED timers
      BY <1>1, <2>1 DEF timers
    <2>2. CASE \E c \in Coros : Suspend(c, t)
      <3>1. PICK c \in Coros : Suspend(c, t)
        BY <2>2
      <3> DEFINE due == ActualTimeout(t)
                 e == [co |-> c, seq |-> yieldTimes[c] + 1, handle |-> now + due, period |-> due]
      <3>2. heap' = heap \cup {e}
        BY <3>1 DEF Suspend, Schedule
      <3>3. \A f \in heap : f.seq \in Nat /\ f.co \in Coros /\ f.seq <= yieldTimes[f.co]
        BY DEF SeqOK, TypeInv, TypeOK, HeapEntry
      <3>4. yieldTimes[c] \in Nat
        BY DEF TypeInv, TypeOK
      <3>5. \A f \in heap : DataOf(f) # DataOf(e)
        BY <3>3, <3>4 DEF DataOf
      <3> HIDE DEF e
      <3>6. \A f, g \in heap \cup {e} : DataOf(f) = DataOf(g) => f = g
        BY <3>5 DEF OneDeadline
      <3> QED  BY <3>2, <3>6 DEF OneDeadline, DataOf
    <2> QED  BY Zenon, <1>3, <2>1, <2>2 DEF Yield
  <1> QED
    BY Zenon, <1>1, <1>2, <1>3 DEF Next, Step, Crashed, CreateCoro, Launch, Resume, Cancel,
       MainYield, Finish, UpdateBegin, UpdatePop, UpdateEnd, Start, StopBegin, StopStep,
       StopUpdate, Tick, vars, timers

\* The time Update works with has come.
LEMMA SnapStep ==
    ASSUME TypeInv, snap <= now, [Next]_vars
    PROVE  snap' <= now'
  <1>1. snap \in Nat /\ now \in Nat
    BY DEF TypeInv, TypeOK
  <1>2. \/ snap' \in {snap, now, 0} /\ now' = now
        \/ snap' = snap /\ now' = now + 1
    BY Zenon DEF Next, Step, Crashed, CreateCoro, Launch, Resume, Cancel, Yield, MainYield,
       Finish, UpdateBegin, UpdatePop, UpdateReturn, UpdateEnd, Start, StopBegin, StopStep,
       StopUpdate, Tick, vars, mainVars
  <1> QED  BY <1>1, <1>2

\* Timer data is in the heap once and is fired in time.
LEMMA DeadlineInvariant == Spec => []DeadlineInv
  <1>1. Init => DeadlineInv
    BY DEF Init, DeadlineInv, OneDeadline
  <1>2. IInv /\ DeadlineInv /\ [Next]_vars => DeadlineInv'
    <2> SUFFICES ASSUME IInv, DeadlineInv, [Next]_vars PROVE DeadlineInv'
      OBVIOUS
    <2>1. TypeInv /\ SeqOK /\ (~reused => Safe)
      BY IInvSplit
    <2>2. snap' <= now'
      BY <2>1, SnapStep DEF DeadlineInv
    <2>3. ~reused' => OneDeadline'
      BY <2>1, ReusedStep, OneDeadlineStep DEF DeadlineInv
    <2> QED  BY <2>2, <2>3 DEF DeadlineInv
  <1> QED  BY <1>1, <1>2, InductiveInvariant, PTL DEF Spec

\* The manager implements CoroSpec in every behaviour in which no id is issued
\* while an object still holds it.
THEOREM KeepsPromise == Spec /\ []~reused => ImplementsCoroSpec
  <1>1. Init => Abs!Init
    BY DEF Init, Abs!Init, phaseOf, outcomeOf, deadlineOf, Running, Suspended
  <1>2. IInv /\ IInv' /\ DeadlineInv /\ DeadlineInv' /\ ~reused /\ ~reused' /\ [Next]_vars
          => [Abs!Next]_(Abs!absVars)
    <2> SUFFICES ASSUME IInv, IInv', DeadlineInv, DeadlineInv', ~reused, ~reused',
                        [Next]_vars
                 PROVE  [Abs!Next]_(Abs!absVars)
      BY Zenon
    <2>1. TypeInv /\ SeqOK /\ Safe
      BY IInvSplit
    <2>2. TypeInv'
      BY <2>1, TypeStep
    <2> QED  BY Zenon, <2>1, <2>2, StepRefines DEF DeadlineInv
  <1> QED
    BY <1>1, <1>2, InductiveInvariant, DeadlineInvariant, PTL
       DEF Spec, ImplementsCoroSpec, Abs!Spec

-----------------------------------------------------------------------------
(* The coroutine manager meets no undefined behaviour.  On top of IInv the *)
(* proof needs an invariant about the loop of RpcCoroMgr::Stop: its        *)
(* iterator stands on an element that nobody erases before the loop is     *)
(* back, because only the coroutine just cancelled runs meanwhile and its  *)
(* own element has been passed.                                            *)

INSTANCE FiniteSetTheorems

HarmlessFault == fault \in {"none", "mainNull"}

StopLoopOK ==
    mainPc = "stop" =>
      /\ Len(stack) <= 2
      /\ stopIt # End => coros[stopIt] # None
      /\ Top # Main => id[Top] # stopIt

Considered == StackFits /\ "driveInStop" \notin Calls

FaultInv == (~reused /\ Considered) => HarmlessFault /\ StopLoopOK

-----------------------------------------------------------------------------
\* The main coroutine runs exactly when it is alone on the call stack.
LEMMA TopIsMain ==
    ASSUME TypeInv
    PROVE  /\ Len(stack) \in Nat
           /\ Top = Main => Len(stack) = 1
           /\ Top # Main => Len(stack) > 1
  <1>1. Len(stack) \in Nat /\ Len(stack) > 0 /\ stack[1] = Main
    BY DEF TypeInv, TypeOK, BottomOK
  <1>2. Len(stack) > 1 => Top \in Coros
    BY <1>1 DEF TypeInv, BottomOK, Top
  <1>3. Len(stack) = 1 => Top = Main
    BY <1>1 DEF Top
  <1>4. Len(stack) = 1 \/ Len(stack) > 1
    BY <1>1
  <1>5. Main \notin Coros
    BY ConstantsAssumption
  <1> QED  BY <1>1, <1>2, <1>3, <1>4, <1>5

\* A coroutine that is not on the call stack finds room there (co_resume
\* checks no bound): those above the main coroutine are different coroutines.
LEMMA RoomOnStack ==
    ASSUME TypeInv, StackOK, StackFits, NEW c \in Coros, ~OnStack(c),
           Top = Main \/ "nested" \in Calls
    PROVE  Len(stack) < CallStackSize
  <1>1. CASE Top = Main
    <2>1. Len(stack) = 1  BY <1>1, TopIsMain
    <2>2. CallStackSize \in Nat /\ CallStackSize >= 2  BY ConstantsAssumption
    <2> QED  BY <2>1, <2>2
  <1>2. CASE Top # Main
    <2> DEFINE S == 2..Len(stack)
               T == Coros \ {c}
               f == [k \in S |-> stack[k]]
    <2>1. IsFiniteSet(Coros) /\ Cardinality(Coros) < CallStackSize
      BY <1>2 DEF StackFits
    <2>2. /\ Cardinality(Coros) \in Nat /\ IsFiniteSet(T)
          /\ Cardinality(T) = Cardinality(Coros) - 1
      BY <2>1, FS_CardinalityType, FS_RemoveElement
    <2>3. Len(stack) \in Nat /\ Len(stack) > 1
      BY <1>2, TopIsMain
    <2>4. IsFiniteSet(S) /\ Cardinality(S) = Len(stack) - 1
      BY <2>3, FS_Interval
    <2>5. f \in [S -> T]
      BY <2>3 DEF TypeInv, BottomOK, OnStack
    <2>6. \A k, l \in S : f[k] = f[l] => k = l
      BY <2>3 DEF StackOK
    <2>7. ~(Cardinality(T) < Cardinality(S))
      <3> HIDE DEF S, T, f
      <3> QED  BY <2>2, <2>4, <2>5, <2>6, FS_PigeonHole
    <2> QED  BY <2>1, <2>2, <2>3, <2>4, <2>7, ConstantsAssumption
  <1> QED  BY <1>1, <1>2

\* Waking a yielded coroutine is harmless.
LEMMA WakeHarmless ==
    ASSUME TypeInv, Safe, Considered, HarmlessFault,
           NEW c \in Coros, yielded[c], Top = Main \/ "nested" \in Calls,
           NEW a, NEW b, NEW v, CoroResume(c, a, b, v)
    PROVE  HarmlessFault' /\ stack' = Append(stack, c)
  <1>1. ~OnStack(c) /\ state[c] \in {"fresh", "started"}
    BY DEF Safe, StackOK, LivesOK, Running
  <1>2. Len(stack) < CallStackSize
    BY <1>1, RoomOnStack DEF Considered, Safe
  <1>3. ~(Len(stack) >= CallStackSize)
    BY <1>2, TopIsMain, ConstantsAssumption
  <1>4. CoResume(c, FALSE)
    BY Zenon, CoroResumeOnce
  <1> QED  BY Zenon, <1>1, <1>3, <1>4 DEF CoResume, HarmlessFault

\* So is cancelling it.
LEMMA CancelHarmless ==
    ASSUME TypeInv, Safe, Considered, HarmlessFault,
           NEW c \in Coros, yielded[c], Top = Main \/ "nested" \in Calls, CoroCancel(c)
    PROVE  HarmlessFault' /\ (stack' = Append(stack, c) \/ stack' = stack)
  <1>1. CASE UNCHANGED <<flags, stack, state, fault>>
    BY <1>1 DEF HarmlessFault
  <1>2. CASE CoroResume(c, timeouted[c], TRUE, TimerCancel(valid, c))
    BY Zenon, <1>2, WakeHarmless
  <1> QED  BY Zenon, <1>1, <1>2 DEF CoroCancel, OnCoroCancel

-----------------------------------------------------------------------------
\* A step outside the loop of Stop keeps the loop's invariant.
LEMMA CallsHarmless ==
    ASSUME TypeInv, Safe, Considered, HarmlessFault, StopLoopOK,
           \/ \E c \in Coros : CreateCoro(c) \/ Launch(c)
           \/ \E i \in Ids : Resume(i) \/ Cancel(i)
    PROVE  HarmlessFault' /\ StopLoopOK'
  <1>1. MayCall /\ UNCHANGED mainPc
    BY Zenon DEF CreateCoro, Launch, Resume, Cancel, mainVars
  <1>2. mainPc # "stop" /\ (Top = Main \/ "nested" \in Calls)
    BY <1>1 DEF MayCall, Considered
  <1>3. StopLoopOK'
    BY <1>1, <1>2 DEF StopLoopOK
  <1>4. ASSUME NEW c \in Coros, CreateCoro(c) PROVE HarmlessFault'
    BY <1>4 DEF CreateCoro, HarmlessFault
  <1>5. ASSUME NEW c \in Coros, Launch(c) PROVE HarmlessFault'
    BY Zenon, <1>2, <1>5, WakeHarmless DEF Launch, CanResume
  <1>6. ASSUME NEW i \in Ids, Resume(i) PROVE HarmlessFault'
    <2>1. PICK c \in Coros : c = coros[i]  BY Zenon, <1>6 DEF Resume
    <2> QED  BY Zenon, <1>2, <1>6, <2>1, WakeHarmless DEF Resume, CanResume
  <1>7. ASSUME NEW i \in Ids, Cancel(i) PROVE HarmlessFault'
    <2>1. PICK c \in Coros : c = coros[i]  BY Zenon, <1>7 DEF Cancel
    <2> QED  BY Zenon, <1>2, <1>7, <2>1, CancelHarmless DEF Cancel, CanResume
  <1> QED  BY Zenon, <1>3, <1>4, <1>5, <1>6, <1>7

\* A running coroutine finds its object, and leaves the iterator's element.
LEMMA RunningHarmless ==
    ASSUME TypeInv, Safe, HarmlessFault, StopLoopOK,
           (\E t \in Timeouts : Yield(t)) \/ Finish
    PROVE  HarmlessFault' /\ StopLoopOK'
  <1>1. Top # Main /\ UNCHANGED <<mainPc, stopIt, id>>
    BY Zenon DEF Yield, Finish, mainVars, maps
  <1>2. GetCurCoro = Top /\ Top \in Coros
    BY <1>1, CurCoroLemma
  <1>3. GetCurCoro # None
    BY <1>2, ConstantsAssumption
  <1>4. fault' = fault /\ stack' = Pop
    BY Zenon, <1>3 DEF Yield, Suspend, Finish
  <1>5. mainPc = "stop" => Len(stack) = 2 /\ Len(stack') = 1 /\ stack'[1] = Main
    <2>1. stack \in Seq(Coros \cup {Main}) /\ stack[1] = Main /\ Len(stack) > 1
      BY <1>1, TopIsMain DEF TypeInv, TypeOK, BottomOK
    <2>2. Len(stack') = Len(stack) - 1 /\ stack'[1] = stack[1]
      BY <1>4, <2>1, PopLemma DEF Pop
    <2> QED  BY <1>1, <2>1, <2>2, TopIsMain DEF StopLoopOK
  <1>6. ASSUME NEW i \in Ids, coros[i] # None, id[Top] # i PROVE coros'[i] # None
    <2>1. CASE Finish
      <3>1. id[Top] \in Ids  BY <1>2 DEF TypeInv, TypeOK
      <3>2. coros' = coros \/ coros' = [coros EXCEPT ![id[Top]] = None]
        BY <2>1 DEF Finish, MaskWillRecycle
      <3> QED  BY <1>6, <3>1, <3>2 DEF TypeInv, TypeOK
    <2>2. CASE \E t \in Timeouts : Yield(t)
      BY Zenon, <1>6, <2>2, <1>3 DEF Yield, maps
    <2> QED  BY <2>1, <2>2
  <1>7. StopLoopOK'
    <2> SUFFICES ASSUME mainPc = "stop"
                 PROVE  /\ Len(stack') <= 2
                        /\ stopIt # End => coros'[stopIt] # None
                        /\ Top' = Main
      BY <1>1 DEF StopLoopOK
    <2>1. Len(stack') <= 2 /\ Top' = Main
      BY <1>5 DEF Top
    <2>2. stopIt # End => coros'[stopIt] # None
      BY <1>1, <1>6 DEF StopLoopOK, TypeInv, TypeOK
    <2> QED  BY <2>1, <2>2
  <1> QED  BY <1>4, <1>7 DEF HarmlessFault

\* Update meets no deleted coroutine, and resumes from the bottom of the stack.
LEMMA UpdateHarmless ==
    ASSUME TypeInv, SeqOK, Safe, Safe', Considered, HarmlessFault,
           UpdateBegin \/ UpdatePop \/ UpdateReturn \/ UpdateEnd
    PROVE  HarmlessFault' /\ StopLoopOK'
  <1>1. mainPc' # "stop"
    BY DEF UpdateBegin, UpdatePop, UpdateReturn, UpdateEnd, InUpdate, mainVars
  <1> SUFFICES HarmlessFault'
    BY <1>1 DEF StopLoopOK
  <1>2. CASE UpdateBegin \/ UpdateReturn
    BY <1>2 DEF UpdateBegin, UpdateReturn, HarmlessFault
  <1>3. CASE UpdateEnd
    BY <1>3 DEF UpdateEnd, HarmlessFault, Safe, FaultOK
  <1>4. CASE UpdatePop
    <2>1. PICK e \in heap :
            IF DataOf(e) \notin valid
              THEN UNCHANGED <<stack, state, flags, valid, firing, fault>>
            ELSE IF state[e.co] = "deleted"
              THEN /\ fault' = "dangling"
                   /\ UNCHANGED <<stack, state, flags, valid, firing>>
            ELSE firing' = e /\ OnCoroTimeout(e.co)
      BY Zenon, <1>4 DEF UpdatePop
    <2>2. fault' # "dangling"  BY DEF Safe, FaultOK
    <2>3. CASE fault' = fault
      BY <2>3 DEF HarmlessFault
    <2>4. CASE OnCoroTimeout(e.co)
      <3>1. PICK c \in Coros : c = e.co
        BY Zenon, <2>1 DEF TypeInv, TypeOK, HeapEntry
      <3>2. CASE yielded[c]
        BY Zenon, <1>4, <2>4, <3>1, <3>2, WakeHarmless DEF OnCoroTimeout, UpdatePop, InUpdate
      <3>3. CASE ~yielded[c]
        BY Zenon, <2>4, <3>1, <3>3 DEF OnCoroTimeout, HarmlessFault
      <3> QED  BY <3>2, <3>3
    <2> QED  BY Zenon, <2>1, <2>2, <2>3, <2>4
  <1> QED  BY <1>2, <1>3, <1>4

\* One round of Stop's loop: the iterator is valid, and moves past the element
\* of the coroutine that is cancelled.
LEMMA StopStepHarmless ==
    ASSUME TypeInv, Safe, Considered, HarmlessFault, StopLoopOK, StopStep
    PROVE  HarmlessFault' /\ StopLoopOK'
  <1>1. /\ Top = Main /\ mainPc = "stop" /\ stopIt \in Ids /\ coros[stopIt] # None
        /\ UNCHANGED <<mainPc, coros, id>>
    BY DEF StopStep, StopLoopOK, TypeInv, TypeOK, maps
  <1>2. PICK k \in Keys : IterNext(stopIt, k) /\ stopIt' = k
    BY Zenon, <1>1 DEF StopStep
  <1>3. k # stopIt /\ (k # End => coros[k] # None)
    <2>1. k > stopIt /\ stopIt \in Int
      BY <1>1, <1>2, ConstantsAssumption DEF IterNext, IsNext, Ids, MinInt
    <2>2. k \in Int
      BY <1>2, ConstantsAssumption DEF Keys, Ids, MinInt, End
    <2>3. k # stopIt  BY <2>1, <2>2
    <2> QED  BY <1>2, <2>3 DEF Keys
  <1>4. Len(stack) = 1  BY <1>1, TopIsMain
  <1>5. CASE stack' = stack /\ fault' = fault
    <2>1. Top' = Main  BY <1>1, <1>5 DEF Top
    <2> QED  BY Zenon, <1>1, <1>2, <1>3, <1>4, <1>5, <2>1 DEF StopLoopOK, HarmlessFault
  <1>6. CASE /\ coros[stopIt] # Main /\ yielded[coros[stopIt]]
             /\ CoroCancel(coros[stopIt])
    <2>1. PICK c \in Coros : c = coros[stopIt]
      BY <1>1, <1>6 DEF TypeInv, TypeOK
    <2>2. id[c] = stopIt  BY <1>1, <2>1 DEF Safe, MapsOK
    <2>3. HarmlessFault' /\ (stack' = Append(stack, c) \/ stack' = stack)
      BY <1>1, <1>6, <2>1, CancelHarmless
    <2>4. Len(stack') <= 2 /\ (Top' = c \/ Top' = Main)
      <3>1. CASE stack' = stack
        <4>1. Top' = Top /\ Len(stack') = 1  BY Zenon, <1>4, <3>1 DEF Top
        <4> QED  BY <1>1, <4>1
      <3>2. CASE stack' = Append(stack, c)
        <4>1. Len(stack') = 2 /\ stack'[2] = c
          <5>1. stack \in Seq(Coros \cup {Main}) /\ c \in Coros \cup {Main}
            BY DEF TypeInv, TypeOK
          <5>2. /\ Len(Append(stack, c)) = Len(stack) + 1
                /\ Append(stack, c)[Len(stack) + 1] = c
            BY ZenonT(30), <5>1, PushLemma
          <5> QED  BY <1>4, <3>2, <5>2
        <4> QED  BY <4>1 DEF Top
      <3> QED  BY <2>3, <3>1, <3>2
    <2> QED  BY <1>1, <1>2, <1>3, <2>2, <2>3, <2>4 DEF StopLoopOK
  <1> QED  BY Zenon, <1>1, <1>5, <1>6 DEF StopStep

\* What is left of the actions.
LEMMA OthersHarmless ==
    ASSUME TypeInv, HarmlessFault, StopLoopOK,
           MainYield \/ Start \/ StopBegin \/ StopUpdate \/ Tick \/ UNCHANGED vars
    PROVE  HarmlessFault' /\ StopLoopOK'
  <1>1. HarmlessFault'
    BY DEF MainYield, Start, StopBegin, StopUpdate, Tick, vars, HarmlessFault
  <1>2. CASE MainYield \/ Start
    BY Zenon, <1>1, <1>2 DEF MainYield, Start, MayCall, mainVars, StopLoopOK, Top
  <1>3. CASE StopUpdate
    BY Zenon, <1>1, <1>3 DEF StopUpdate, StopLoopOK
  <1>4. CASE Tick \/ UNCHANGED vars
    BY Zenon, <1>1, <1>4 DEF Tick, vars, mainVars, maps, StopLoopOK, Top
  <1>5. CASE StopBegin
    <2>1. Len(stack') = 1 /\ Top' = Main
      BY <1>5, TopIsMain DEF StopBegin, Top
    <2>2. stopIt' # End => coros'[stopIt'] # None
      BY <1>5 DEF StopBegin, Keys, maps
    <2> QED  BY <1>1, <2>1, <2>2 DEF StopLoopOK
  <1> QED  BY <1>2, <1>3, <1>4, <1>5

-----------------------------------------------------------------------------
\* Neither a coroutine nor Update nor Stop ever meets a null object, an erased
\* iterator, a deleted or running coroutine to resume, or a full call stack.
THEOREM NoFault == Spec => []NoUndefinedBehaviour
  <1>1. Init => FaultInv
    BY DEF Init, FaultInv, HarmlessFault, StopLoopOK
  <1>2. IInv /\ IInv' /\ FaultInv /\ [Next]_vars => FaultInv'
    <2> SUFFICES ASSUME IInv, IInv', FaultInv, [Next]_vars, ~reused', Considered
                 PROVE  HarmlessFault' /\ StopLoopOK'
      BY DEF FaultInv, Considered, StackFits
    <2>1. TypeInv /\ SeqOK /\ (~reused => Safe)  BY IInvSplit
    <2>2. ~reused  BY <2>1, ReusedStep
    <2>3. Safe'
      BY <2>1, <2>2, SafeStep
    <2>4. HarmlessFault /\ StopLoopOK  BY <2>2 DEF FaultInv
    <2> QED
      BY Zenon, <2>1, <2>2, <2>3, <2>4, CallsHarmless, RunningHarmless, UpdateHarmless,
         StopStepHarmless, OthersHarmless DEF Next, Step, Crashed
  <1>3. FaultInv => NoUndefinedBehaviour
    BY DEF FaultInv, Considered, HarmlessFault, NoUndefinedBehaviour
  <1> QED  BY <1>1, <1>2, <1>3, InductiveInvariant, PTL DEF Spec

-----------------------------------------------------------------------------
(* Ids are not reused while GenCoroId has not wrapped and neither Start nor *)
(* Stop sets maxCoroId_ back.                                               *)

IdsSuffice ==
    /\ IsFiniteSet(Coros) /\ Cardinality(Coros) <= MaxInt
    /\ Calls \cap {"start", "stop"} = {}

Created == {c \in Coros : state[c] # "none"}

IdsInv ==
    /\ mainPc \in {"loop", "update"} /\ reused = FALSE
    /\ maxCoroId = Cardinality(Created)
    /\ \A i \in Ids : Held(i) => i <= maxCoroId

\* CreateCoro issues an id above all that are held.
LEMMA CreateIds ==
    ASSUME IdsSuffice, TypeInv, IdsInv, NEW c \in Coros, CreateCoro(c)
    PROVE  IdsInv'
  <1>1. /\ state[c] = "none" /\ state' = [state EXCEPT ![c] = "fresh"]
        /\ waiting' = waiting /\ mainPc' = mainPc
    BY DEF CreateCoro, mainVars
  <1>2. PICK i \in GenCoroId(maxCoroId) :
          /\ maxCoroId' = i
          /\ coros' = IF coros[i] = None THEN [coros EXCEPT ![i] = c] ELSE coros
          /\ reused' = (reused \/ Held(i))
    BY Zenon DEF CreateCoro
  <1>3. IsFiniteSet(Created) /\ Created \subseteq Coros \ {c}
    <2>1. Created \in SUBSET Coros /\ c \notin Created
      BY <1>1 DEF Created
    <2> QED  BY <2>1, FS_Subset DEF IdsSuffice
  <1>4. Cardinality(Created) \in Nat /\ Cardinality(Created) < Cardinality(Coros)
    <2>1. IsFiniteSet(Coros \ {c}) /\ Cardinality(Coros \ {c}) = Cardinality(Coros) - 1
      BY FS_RemoveElement DEF IdsSuffice
    <2>2. Cardinality(Created) <= Cardinality(Coros \ {c})
      BY <1>3, <2>1, FS_Subset
    <2>3. Cardinality(Created) \in Nat /\ Cardinality(Coros) \in Nat
      BY <1>3, FS_CardinalityType DEF IdsSuffice
    <2> QED  BY <2>1, <2>2, <2>3
  <1>5. maxCoroId \in Nat /\ maxCoroId < MaxInt /\ i = maxCoroId + 1
    <2>1. maxCoroId \in Nat /\ maxCoroId < MaxInt /\ MaxInt \in Nat
      <3>1. Cardinality(Coros) \in Nat /\ Cardinality(Coros) <= MaxInt
        BY FS_CardinalityType DEF IdsSuffice
      <3> QED  BY <1>4, <3>1, ConstantsAssumption DEF IdsInv
    <2> QED  BY <1>2, <2>1 DEF GenCoroId
  <1>6. i \in Ids /\ ~Held(i)
    <2>1. i \in Ids
      BY <1>5, ConstantsAssumption DEF Ids
    <2> QED  BY <1>5, <2>1 DEF IdsInv
  <1>7. Created' = Created \cup {c}
    BY <1>1 DEF Created, TypeInv, TypeOK
  <1>8. Cardinality(Created') = Cardinality(Created) + 1
    BY Zenon, <1>3, <1>7, FS_AddElement
  <1>9. \A j \in Ids : Held(j)' => j <= i
    <2> SUFFICES ASSUME NEW j \in Ids, Held(j)' PROVE j <= i
      OBVIOUS
    <2>1. Held(j) \/ j = i
      BY <1>1, <1>2, <1>6 DEF Held, TypeInv, TypeOK
    <2>2. j \in Int
      BY ConstantsAssumption DEF Ids, MinInt
    <2> QED  BY <1>5, <2>1, <2>2 DEF IdsInv
  <1>10. reused' = FALSE
    BY Zenon, <1>2, <1>6 DEF IdsInv
  <1> QED  BY <1>1, <1>2, <1>5, <1>8, <1>9, <1>10 DEF IdsInv

\* The other steps create nothing and hold no further id.
LEMMA OtherIds ==
    ASSUME IdsSuffice, TypeInv, Safe, IdsInv, [Next]_vars, \A c \in Coros : ~CreateCoro(c)
    PROVE  IdsInv'
  <1>1. /\ mainPc' \in {"loop", "update"} /\ maxCoroId' = maxCoroId /\ reused' = reused
    BY Zenon DEF Next, Step, Crashed, CreateCoro, Launch, Resume, Cancel, Yield, MainYield,
       Finish, UpdateBegin, UpdatePop, UpdateReturn, UpdateEnd, Start, StopBegin, StopStep,
       StopUpdate, Tick, vars, maps, mainVars, IdsSuffice, IdsInv
  <1>2. CASE Finish
    <2>1. PICK c \in Coros : c = Top /\ Running(c)
      BY <1>2, CurCoroLemma DEF Finish
    <2>2. id[c] \in Ids /\ coros[id[c]] = c /\ c # None
      BY <2>1, ConstantsAssumption DEF Safe, MapsOK, Running, TypeInv, TypeOK
    <2>3. state' = [state EXCEPT ![c] = "ended"] /\ state[c] # "none"
      BY <1>2, <2>1 DEF Finish, Running
    <2>4. Created' = Created
      BY <2>3 DEF Created, TypeInv, TypeOK
    <2>5. \A i \in Ids : Held(i)' => Held(i)
      BY <1>2, <2>1, <2>2 DEF Finish, MaskWillRecycle, Held, TypeInv, TypeOK
    <2> QED  BY <1>1, <2>4, <2>5 DEF IdsInv
  <1>3. ASSUME NEW c \in Coros, yielded[c], NEW a, NEW b, NEW v, CoroResume(c, a, b, v)
        PROVE  Created' = Created
    <2>1. state[c] # "none" /\ state' = [state EXCEPT ![c] = "started"]
      BY <1>3, CoroResumeOnce DEF Safe, LivesOK, CoResume
    <2> QED  BY <2>1 DEF Created, TypeInv, TypeOK
  <1>4. ASSUME NEW c \in Coros, yielded[c], CoroCancel(c)
        PROVE  Created' = Created
    <2>1. CASE state' = state
      BY <2>1 DEF Created
    <2>2. CASE CoroResume(c, timeouted[c], TRUE, TimerCancel(valid, c))
      BY Zenon, <1>3, <1>4, <2>2
    <2> QED  BY Zenon, <1>4, <2>1, <2>2 DEF CoroCancel, OnCoroCancel
  <1>5. CASE UpdatePop
    <2>1. PICK e \in heap :
            state' = state \/ (yielded[e.co] /\ CoroResume(e.co, TRUE, cancelled[e.co],
                                                             TimerCancel(valid, e.co)))
      BY ZenonT(30), <1>5 DEF UpdatePop, OnCoroTimeout
    <2>2. e.co \in Coros
      BY Zenon DEF TypeInv, TypeOK, HeapEntry
    <2>3. Created' = Created
      BY Zenon, <1>3, <2>1, <2>2 DEF Created
    <2> QED  BY Zenon, <1>1, <1>5, <2>3 DEF UpdatePop, maps, IdsInv, Held
  <1>6. CASE UpdateEnd
    <2> DEFINE dead == {waiting[i] : i \in Ids} \ {None}
    <2>1. \A c \in Coros : c \in dead <=> state[c] = "ended"
      BY ConstantsAssumption DEF Safe, MapsOK, TypeInv, TypeOK
    <2>2. /\ state' = [c \in Coros |-> IF c \in dead THEN "deleted" ELSE state[c]]
          /\ waiting' = [i \in Ids |-> None] /\ coros' = coros
      BY Zenon, <1>6 DEF UpdateEnd
    <2> HIDE DEF dead
    <2>3. Created' = Created
      BY <2>1, <2>2 DEF Created
    <2>4. \A i \in Ids : Held(i)' => Held(i)
      BY <2>2 DEF Held
    <2> QED  BY <1>1, <2>3, <2>4 DEF IdsInv
  <1>7. ASSUME NEW i \in Ids, Resume(i) \/ Cancel(i) PROVE IdsInv'
    <2>1. PICK c \in Coros : c = coros[i]
      BY Zenon, <1>7 DEF Resume, Cancel
    <2>2. Created' = Created
      BY ZenonT(30), <1>3, <1>4, <1>7, <2>1 DEF Resume, Cancel, CanResume
    <2> QED  BY Zenon, <1>1, <1>7, <2>2 DEF Resume, Cancel, maps, IdsInv, Held
  <1>8. ASSUME NEW c \in Coros, Launch(c) PROVE IdsInv'
    <2>1. Created' = Created
      BY Zenon, <1>3, <1>8 DEF Launch, CanResume
    <2> QED  BY <1>1, <1>8, <2>1 DEF Launch, maps, IdsInv, Held
  <1>9. CASE UNCHANGED <<state, coros, waiting>>
    BY <1>1, <1>9 DEF IdsInv, Created, Held
  <1> QED
    BY Zenon, <1>2, <1>5, <1>6, <1>7, <1>8, <1>9 DEF Next, Step, Crashed, Yield, MainYield,
       UpdateBegin, UpdateReturn, Start, StopBegin, StopStep, StopUpdate, Tick, vars, maps,
       IdsSuffice, IdsInv

\* As long as there are no more coroutines than ids and the program calls
\* neither Start nor Stop, GenCoroId never issues an id that is still held.
THEOREM FreshIds ==
    ASSUME IdsSuffice
    PROVE  Spec => []~reused
  <1>1. Init => IdsInv
    <2> SUFFICES ASSUME Init PROVE IdsInv
      OBVIOUS
    <2>1. Created = {}
      BY DEF Init, Created
    <2> QED  BY <2>1, FS_EmptySet DEF Init, IdsInv, Held
  <1>2. IInv /\ IdsInv /\ [Next]_vars => IdsInv'
    <2> SUFFICES ASSUME IInv, IdsInv, [Next]_vars PROVE IdsInv'
      OBVIOUS
    <2>1. TypeInv /\ Safe
      BY IInvSplit DEF IdsInv
    <2> QED  BY <2>1, CreateIds, OtherIds
  <1>3. IdsInv => ~reused
    BY DEF IdsInv
  <1> QED  BY <1>1, <1>2, <1>3, InductiveInvariant, PTL DEF Spec

\* Under these conditions every suspension ends exactly once, by a resume, a
\* cancel or a timeout that is not early, Yield reports which, and only
\* coroutines that have returned are deleted.
THEOREM PromiseKept ==
    ASSUME IdsSuffice
    PROVE  Spec => ImplementsCoroSpec
  BY FreshIds, KeepsPromise, PTL
=============================================================================
