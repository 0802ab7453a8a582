----------------------------- MODULE RpcCoroMgr -----------------------------
(***************************************************************************)
(* The coroutine manager of src/rpc/src/rpc_coro_mgr.{h,cpp} together with *)
(* the two things it is built on: the call stack of libco (co_resume,      *)
(* co_yield_ct) and the timer scheduler of llbc.                           *)
(*                                                                         *)
(* Everything runs on one thread.  The element on top of `stack' executes; *)
(* a coroutine keeps control until it yields or returns, so one action is  *)
(* what the thread does between two context switches.                      *)
(***************************************************************************)
EXTENDS Integers, Sequences, FiniteSets

CONSTANTS
    Coros,            \* the Coro objects the program may create
    Main,             \* the main coroutine of the thread
    None,             \* nullptr
    MaxInt,           \* the largest int (INT_MAX)
    CallStackSize,    \* pCallStack[128] of libco
    CoroTimeoutTime,  \* the default timeout of Yield
    Timeouts,         \* the timeouts the program passes to Yield
    MaxYields,        \* bound: suspensions per coroutine
    MaxTime,          \* bound: the clock
    Calls             \* which optional calls the program makes

ASSUME ConstantsAssumption ==
    /\ None \notin Coros \cup {Main}
    /\ Main \notin Coros
    /\ MaxInt \in Nat /\ MaxInt >= 2
    /\ CallStackSize \in Nat /\ CallStackSize >= 2
    /\ CoroTimeoutTime \in Nat \ {0}
    /\ Timeouts \subseteq Int
    /\ MaxYields \in Nat /\ MaxTime \in Nat
    /\ Calls \subseteq {"nested", "driveInStop", "stop", "start", "mainYield"}

VARIABLES
    stack,        \* stCoRoutineEnv_t::pCallStack, the last element runs
    mainPc,       \* where the main coroutine is inside Update and Stop
    state,        \* life cycle of a Coro object
    yielded, timeouted, cancelled,    \* the scheduling flags of a Coro
    yieldTimes, resumeTimes,
    id,           \* coroId_, also kept in aSpec[0] of the inner coroutine
    mainId,       \* aSpec[0] of the main inner coroutine
    coros,        \* coros_
    waiting,      \* waitingForRecycleCoros_
    maxCoroId,    \* maxCoroId_
    heap,         \* the timer heap
    valid,        \* the timer data whose validate flag is set
    firing,       \* the timer data whose timeouting flag is set
    now,          \* LLBC_GetMilliSeconds()
    snap,         \* the time sampled by the running TimerScheduler::Update
    stopIt,       \* the iterator of Stop's loop
    fault,        \* the undefined behaviour that was met, if any
    reused        \* history: an id was issued while an object still held it

flags == <<yielded, timeouted, cancelled, yieldTimes, resumeTimes>>
maps == <<coros, waiting, maxCoroId, id, mainId, reused>>
timers == <<heap, valid, firing>>
mainVars == <<mainPc, snap, stopIt>>
vars == <<stack, state, flags, maps, timers, mainVars, now, fault>>

MinInt == -MaxInt - 1
Ids == {MinInt} \cup 0..MaxInt
End == MaxInt + 1                  \* coros_.end(), after every key

\* The timer data of one suspension: the coroutine and which of its
\* suspensions the timer was scheduled for.
Timer == [co : Coros, seq : Nat]
HeapEntry == [co : Coros, seq : Nat, handle : Nat, period : Nat \ {0}]
TimerOf(c) == [co |-> c, seq |-> yieldTimes[c]]     \* timer_._timerData
DataOf(e) == [co |-> e.co, seq |-> e.seq]

Faults == {"none", "null", "mainNull", "iterator", "callstack", "dangling", "reentered"}

TypeOK ==
    /\ stack \in Seq(Coros \cup {Main})
    /\ mainPc \in {"loop", "update", "stop", "stopUpdate"}
    /\ state \in [Coros -> {"none", "fresh", "started", "ended", "deleted"}]
    /\ yielded \in [Coros -> BOOLEAN]
    /\ timeouted \in [Coros -> BOOLEAN]
    /\ cancelled \in [Coros -> BOOLEAN]
    /\ yieldTimes \in [Coros -> Nat] /\ resumeTimes \in [Coros -> Nat]
    /\ id \in [Coros -> Ids] /\ mainId \in {0, 1}
    /\ coros \in [Ids -> Coros \cup {Main, None}]
    /\ waiting \in [Ids -> Coros \cup {None}]
    /\ maxCoroId \in Ids
    /\ heap \subseteq HeapEntry /\ valid \subseteq Timer
    /\ firing \in HeapEntry \cup {None}
    /\ now \in Nat /\ snap \in Nat
    /\ stopIt \in Ids \cup {End}
    /\ fault \in Faults /\ reused \in BOOLEAN

Init ==
    /\ stack = <<Main>> /\ mainPc = "loop"
    /\ state = [c \in Coros |-> "none"]
    /\ yielded = [c \in Coros |-> FALSE]
    /\ timeouted = [c \in Coros |-> FALSE]
    /\ cancelled = [c \in Coros |-> FALSE]
    /\ yieldTimes = [c \in Coros |-> 0]
    /\ resumeTimes = [c \in Coros |-> 0]
    /\ id = [c \in Coros |-> 0] /\ mainId = 0
    /\ coros = [i \in Ids |-> None]
    /\ waiting = [i \in Ids |-> None]
    /\ maxCoroId = 0
    /\ heap = {} /\ valid = {} /\ firing = None
    /\ now = 0 /\ snap = 0 /\ stopIt = End
    /\ fault = "none" /\ reused = FALSE

-----------------------------------------------------------------------------
(* Who runs.                                                               *)

Top == stack[Len(stack)]
Pop == SubSeq(stack, 1, Len(stack) - 1)
OnStack(c) == \E k \in 1..Len(stack) : stack[k] = c

\* Code that may call the manager: the main loop, or a coroutine when the
\* program's coroutines drive one another, in the loop of Stop too or not.
MayCall ==
    IF Top = Main THEN mainPc = "loop"
    ELSE "nested" \in Calls /\ (mainPc = "stop" => "driveInStop" \in Calls)

LastCreated == coros[maxCoroId]     \* mutant of GetCurCoro

\* GetCurCoro: the object registered under the id stored in co_self().
GetCurCoro == coros[IF Top = Main THEN mainId ELSE id[Top]]

-----------------------------------------------------------------------------
(* Context switches and wake-ups (libco, Coro).                            *)

\* co_resume: push and switch.  Resuming what is on the stack or has ended,
\* resuming twice in a row, or pushing past the array, is undefined.
CoResume(c, twice) ==
    /\ stack' = Append(stack, c)
    /\ state' = [state EXCEPT ![c] = "started"]
    /\ fault' = IF twice \/ OnStack(c) \/ state[c] \notin {"fresh", "started"}
                  THEN "reentered"
                ELSE IF Len(stack) >= CallStackSize THEN "callstack"
                ELSE fault

\* What timer_.Cancel() leaves armed: LLBC_TimerScheduler::Cancel clears the
\* validate flag and leaves the data in the heap.
TimerCancel(armed, c) == armed \ {TimerOf(c)}

KeepArmed(armed, c) == armed        \* mutant: Resume keeps the timer

\* timer_.Cancel() in a plain Coro::Resume.
DisarmOnResume(armed, c) == TimerCancel(armed, c)

\* The test of Coro::OnCoroCancel, which timer_.Cancel() calls when the timer
\* was armed: it wakes a coroutine whose yielded_ it finds set, unless the
\* timer is the one being fired.
CancelWakes(isYielded, c) ==
    isYielded[c] /\ ~(firing # None /\ DataOf(firing) = TimerOf(c))

CancelThenReset(c) == yielded       \* mutant: yielded_ is reset too late

\* The yielded_ flags as Coro::Resume has set them when it calls timer_.Cancel().
ResetYielded(c) == [yielded EXCEPT ![c] = FALSE]

\* Coro::Resume, entered with the timeouted_ and cancelled_ flags that its
\* caller has set.  If OnCoroCancel woke the coroutine inside timer_.Cancel(),
\* the co_resume that follows would be the second one.
CoroResume(c, timedOut, wasCancelled, armed) ==
    LET plain == ~timedOut /\ ~wasCancelled
        twice == plain /\ TimerOf(c) \in armed /\ CancelWakes(ResetYielded(c), c)
    IN  /\ resumeTimes' = [resumeTimes EXCEPT ![c] = @ + (IF twice THEN 2 ELSE 1)]
        /\ yielded' = [yielded EXCEPT ![c] = FALSE]
        /\ timeouted' = [timeouted EXCEPT ![c] = timedOut]
        /\ cancelled' = [cancelled EXCEPT ![c] = IF twice THEN TRUE ELSE wasCancelled]
        /\ valid' = IF plain THEN DisarmOnResume(armed, c) ELSE armed
        /\ CoResume(c, twice)
        /\ UNCHANGED yieldTimes

\* Coro::OnCoroCancel when Coro::Cancel or Stop cancels the timer.
OnCoroCancel(c) ==
    IF CancelWakes(yielded, c)
      THEN CoroResume(c, timeouted[c], TRUE, TimerCancel(valid, c))
      ELSE /\ valid' = TimerCancel(valid, c)
           /\ UNCHANGED <<flags, stack, state, fault>>

\* Coro::Cancel of a yielded coroutine: timer_.Cancel() calls OnCoroCancel.
\* Without a timer (never started) nothing happens.
CoroCancel(c) == TimerOf(c) \in valid /\ OnCoroCancel(c)

-----------------------------------------------------------------------------
(* Creating, resuming and cancelling.                                      *)

\* GenCoroId.  At INT_MAX the increment overflows, which is undefined: the
\* sign test may see the wrapped value or be folded into a test of the old one.
GenCoroId(m) ==
    IF m = MaxInt THEN {2, MinInt} ELSE IF m + 1 < 0 THEN {2} ELSE {m + 1}

Held(i) == coros[i] # None \/ waiting[i] # None

\* RpcCoroMgr::CreateCoro.  emplace leaves an existing entry in place.
CreateCoro(c) ==
    /\ MayCall /\ state[c] = "none"
    /\ \E i \in GenCoroId(maxCoroId) :
         /\ maxCoroId' = i
         /\ id' = [id EXCEPT ![c] = i]
         /\ coros' = IF coros[i] = None THEN [coros EXCEPT ![i] = c] ELSE coros
         /\ reused' = (reused \/ Held(i))
    /\ state' = [state EXCEPT ![c] = "fresh"]
    /\ yielded' = [yielded EXCEPT ![c] = TRUE]
    /\ UNCHANGED <<stack, timeouted, cancelled, yieldTimes, resumeTimes, waiting,
                   mainId, timers, mainVars, now, fault>>

\* Coro::Resume and Coro::Cancel refuse a coroutine that is not yielded.
CanResume(c) == yielded[c]

\* The creator resumes the new coroutine through the pointer it was given.
Launch(c) ==
    /\ MayCall /\ state[c] = "fresh" /\ CanResume(c)
    /\ CoroResume(c, timeouted[c], cancelled[c], valid)
    /\ UNCHANGED <<maps, heap, firing, mainVars, now>>

\* RpcCoroMgr::Resume(id); unknown ids and coroutines that are not yielded
\* are refused without a change of state.
Resume(i) ==
    /\ MayCall /\ coros[i] \in Coros
    /\ CanResume(coros[i])
    /\ CoroResume(coros[i], timeouted[coros[i]], cancelled[coros[i]], valid)
    /\ UNCHANGED <<maps, heap, firing, mainVars, now>>

\* RpcCoroMgr::Cancel(id), refused in the same cases.
Cancel(i) ==
    /\ MayCall /\ coros[i] \in Coros
    /\ CanResume(coros[i])
    /\ CoroCancel(coros[i])
    /\ UNCHANGED <<maps, heap, firing, mainVars, now>>

-----------------------------------------------------------------------------
(* What a running coroutine does to itself.                                *)

RawTimeout(t) == t                  \* mutant: no default timeout

ActualTimeout(t) == IF t <= 0 THEN CoroTimeoutTime ELSE t

SkipSchedule(c, due) == UNCHANGED <<heap, valid>>     \* mutant

\* timer_.Schedule: what is still armed is cancelled, new data is inserted.
Schedule(c, due) ==
    LET data == [co |-> c, seq |-> yieldTimes[c] + 1]
    IN  /\ heap' = heap \cup {[co |-> c, seq |-> yieldTimes[c] + 1,
                               handle |-> now + due, period |-> due]}
        /\ valid' = TimerCancel(valid, c) \cup {data}

ForgetYielded(c) ==                 \* mutant: yielded_ = true is missing
    /\ timeouted' = [timeouted EXCEPT ![c] = FALSE]
    /\ cancelled' = [cancelled EXCEPT ![c] = FALSE]
    /\ UNCHANGED yielded

MarkYielded(c) ==
    /\ yielded' = [yielded EXCEPT ![c] = TRUE]
    /\ timeouted' = [timeouted EXCEPT ![c] = FALSE]
    /\ cancelled' = [cancelled EXCEPT ![c] = FALSE]

\* The suspension of the object c by Coro::Yield.
Suspend(c, timeout) ==
    /\ now + ActualTimeout(timeout) <= MaxTime /\ yieldTimes[c] < MaxYields
    /\ yieldTimes' = [yieldTimes EXCEPT ![c] = @ + 1]
    /\ Schedule(c, ActualTimeout(timeout))
    /\ MarkYielded(c)
    /\ stack' = Pop

\* RpcCoroMgr::Yield called by the running coroutine: the object is looked up
\* by id, and refuses when it is already yielded or is the main coroutine.
Yield(timeout) ==
    /\ Top # Main
    /\ \/ /\ GetCurCoro \in Coros /\ ~yielded[GetCurCoro]
          /\ Suspend(GetCurCoro, timeout)
          /\ UNCHANGED <<state, resumeTimes, maps, firing, mainVars, now, fault>>
       \/ /\ GetCurCoro = None
          /\ fault' = "null"
          /\ UNCHANGED <<stack, state, flags, maps, timers, mainVars, now>>

\* RpcCoroMgr::Yield called by the main coroutine.
MainYield ==
    /\ "mainYield" \in Calls /\ Top = Main /\ mainPc = "loop"
    /\ fault' = IF GetCurCoro = None THEN "mainNull" ELSE fault
    /\ UNCHANGED <<stack, state, flags, maps, timers, mainVars, now>>

RecycleWithoutErase(c) ==           \* mutant: coros_.erase is missing
    waiting' = [waiting EXCEPT ![id[c]] = c] /\ UNCHANGED coros

EraseWithoutRecycle(c) ==           \* mutant: the coroutine is forgotten
    coros' = [coros EXCEPT ![id[c]] = None] /\ UNCHANGED waiting

\* RpcCoroMgr::MaskWillRecycle.
MaskWillRecycle(c) ==
    IF waiting[id[c]] # None
      THEN UNCHANGED <<waiting, coros>>
      ELSE /\ waiting' = [waiting EXCEPT ![id[c]] = c]
           /\ coros' = [coros EXCEPT ![id[c]] = None]

\* The entry function returns: RpcCoroMgr::Entry, then CoRoutineFunc.
Finish ==
    /\ Top # Main
    /\ MaskWillRecycle(Top)
    /\ state' = [state EXCEPT ![Top] = "ended"]
    /\ stack' = Pop
    /\ UNCHANGED <<flags, maxCoroId, id, mainId, reused, timers, mainVars, now, fault>>

-----------------------------------------------------------------------------
(* RpcCoroMgr::Update, called by the main coroutine.                       *)

InUpdate == Top = Main /\ mainPc \in {"update", "stopUpdate"}
DueEarly(e) == e.handle <= snap + 1 \* mutant
Due(e) == e.handle <= snap
IsTop(e) == \A f \in heap : e.handle <= f.handle

\* Coro::OnCoroTimeout: the flag, timer_.Cancel() (its OnCoroCancel is
\* suppressed by IsTimeouting) and Coro::Resume, refused when not yielded.
OnCoroTimeout(c) ==
    IF yielded[c]
      THEN CoroResume(c, TRUE, cancelled[c], TimerCancel(valid, c))
      ELSE /\ timeouted' = [timeouted EXCEPT ![c] = TRUE]
           /\ valid' = TimerCancel(valid, c)
           /\ UNCHANGED <<yielded, cancelled, yieldTimes, resumeTimes, stack,
                          state, fault>>

UpdateBegin ==
    /\ Top = Main /\ mainPc = "loop"
    /\ mainPc' = "update" /\ snap' = now
    /\ UNCHANGED <<stack, state, flags, maps, timers, stopIt, now, fault>>

\* One round of the loop of TimerScheduler::Update: the top of the heap is
\* removed; invalid data is dropped, valid data is fired.
UpdatePop ==
    /\ InUpdate /\ firing = None
    /\ \E e \in heap :
         /\ IsTop(e) /\ Due(e)
         /\ heap' = heap \ {e}
         /\ IF DataOf(e) \notin valid
              THEN UNCHANGED <<stack, state, flags, valid, firing, fault>>
            ELSE IF state[e.co] = "deleted"
              THEN /\ fault' = "dangling"
                   /\ UNCHANGED <<stack, state, flags, valid, firing>>
            ELSE firing' = e /\ OnCoroTimeout(e.co)
    /\ UNCHANGED <<maps, mainVars, now>>

\* OnTimeout has returned: data that is still valid is scheduled again.
UpdateReturn ==
    /\ InUpdate /\ firing # None
    /\ heap' = IF DataOf(firing) \notin valid THEN heap
               ELSE heap \cup {[firing EXCEPT !.handle =
                      snap + firing.period - ((snap - firing.handle) % firing.period)]}
    /\ firing' = None
    /\ UNCHANGED <<stack, state, flags, maps, valid, mainVars, now, fault>>

\* RecycleContainer deletes the finished coroutines; ~Coro cancels the timer
\* of a yielded one, which would resume it.  Stop then resets maxCoroId_.
UpdateEnd ==
    LET dead == {waiting[i] : i \in Ids} \ {None}
    IN  /\ InUpdate /\ firing = None
        /\ \A e \in heap : ~Due(e)
        /\ state' = [c \in Coros |-> IF c \in dead THEN "deleted" ELSE state[c]]
        /\ waiting' = [i \in Ids |-> None]
        /\ valid' = {t \in valid : t.co \notin dead}
        /\ fault' = IF \E c \in dead : yielded[c] /\ TimerOf(c) \in valid
                      THEN "reentered" ELSE fault
        /\ maxCoroId' = IF mainPc = "stopUpdate" THEN 0 ELSE maxCoroId
        /\ mainPc' = "loop" /\ snap' = 0
        /\ UNCHANGED <<stack, flags, coros, id, mainId, reused, heap, firing,
                       stopIt, now>>

-----------------------------------------------------------------------------
(* RpcCoroMgr::Start, and RpcCoroMgr::Stop called by the main coroutine.   *)

\* Start.  Called by another than the main coroutine it fails, but only after
\* maxCoroId_ was reset.  co_self() is null until the first co_create of the
\* thread.
Start ==
    /\ "start" \in Calls /\ MayCall
    /\ IF Top # Main
         THEN /\ maxCoroId' = 0
              /\ UNCHANGED <<coros, waiting, id, mainId, reused, fault>>
       ELSE IF \A c \in Coros : state[c] = "none"
         THEN /\ fault' = "mainNull" /\ maxCoroId' = 0
              /\ UNCHANGED <<coros, waiting, id, mainId, reused>>
         ELSE /\ maxCoroId' = 1 /\ mainId' = 1
              /\ coros' = IF coros[1] = None THEN [coros EXCEPT ![1] = Main] ELSE coros
              /\ reused' = (reused \/ Held(1))
              /\ UNCHANGED <<waiting, id, fault>>
    /\ UNCHANGED <<stack, state, flags, timers, mainVars, now>>

\* k is the first key of coros_ above i, or end().
Keys == {k \in Ids : coros[k] # None} \cup {End}
IsNext(i, k) == k > i /\ \A l \in Keys : l > i => k <= l

LateNext(i, k) ==                   \* mutant: ++it after the Cancel
    IF coros[i] \in Coros /\ yielded[coros[i]] THEN k = i ELSE IsNext(i, k)

\* it++ in the loop of Stop.
IterNext(i, k) == IsNext(i, k)

StopBegin ==
    /\ "stop" \in Calls /\ Top = Main /\ mainPc = "loop"
    /\ mainPc' = "stop"
    /\ \E k \in Keys : IsNext(MinInt - 1, k) /\ stopIt' = k
    /\ UNCHANGED <<stack, state, flags, maps, timers, snap, now, fault>>

\* One iteration: the iterator moves on before the coroutine is cancelled.
\* Meeting an element that was erased meanwhile is undefined.
StopStep ==
    /\ Top = Main /\ mainPc = "stop" /\ stopIt # End
    /\ IF coros[stopIt] = None
         THEN /\ fault' = "iterator"
              /\ UNCHANGED <<stack, state, flags, valid, stopIt>>
         ELSE /\ \E k \in Keys : IterNext(stopIt, k) /\ stopIt' = k
              /\ LET c == coros[stopIt]
                 IN  IF c # Main /\ yielded[c] /\ TimerOf(c) \in valid
                       THEN CoroCancel(c)
                       ELSE UNCHANGED <<stack, state, flags, valid, fault>>
    /\ UNCHANGED <<maps, heap, firing, mainPc, snap, now>>

StopUpdate ==
    /\ Top = Main /\ mainPc = "stop" /\ stopIt = End
    /\ mainPc' = "stopUpdate" /\ snap' = now
    /\ UNCHANGED <<stack, state, flags, maps, timers, stopIt, now, fault>>

-----------------------------------------------------------------------------
Tick ==
    /\ now < MaxTime /\ now' = now + 1
    /\ UNCHANGED <<stack, state, flags, maps, timers, mainVars, fault>>

Step ==
    \/ \E c \in Coros : CreateCoro(c) \/ Launch(c)
    \/ \E i \in Ids : Resume(i) \/ Cancel(i)
    \/ \E t \in Timeouts : Yield(t)
    \/ MainYield \/ Finish
    \/ UpdateBegin \/ UpdatePop \/ UpdateReturn \/ UpdateEnd
    \/ Start \/ StopBegin \/ StopStep \/ StopUpdate
    \/ Tick

\* After undefined behaviour nothing is known; the model stops there.
Crashed == fault # "none" /\ UNCHANGED vars

Next == (fault = "none" /\ Step) \/ Crashed

Spec == Init /\ [][Next]_vars

-----------------------------------------------------------------------------
(* Properties.                                                             *)

\* The main coroutine is at the bottom of the call stack, Coros are above it.
BottomOK ==
    /\ Len(stack) > 0 /\ stack[1] = Main
    /\ \A k \in 2..Len(stack) : stack[k] \in Coros

Suspended(c) == state[c] = "started" /\ yielded[c]
Running(c) == state[c] = "started" /\ ~yielded[c]

\* The armed timers are exactly those of the current suspensions, and each is
\* in the heap: no timer outlives its suspension (Coro::Resume, OnCoroTimeout
\* and Coro::Cancel all disarm it), none is missing (Coro::Yield), and the one
\* being fired is disarmed before the coroutine runs.
TimersMatchSuspensions ==
    ~reused =>
      /\ valid = {TimerOf(c) : c \in {d \in Coros : Suspended(d)}}
      /\ \A t \in valid : \E e \in heap : DataOf(e) = t

\* libco's call stack holds the main coroutine at the bottom and above it each
\* running coroutine once: Coro's yielded_ flag and the stack always agree, so
\* the ASSERT(yielded_ == false) after co_yield_ct cannot fail.
StackMatchesFlags ==
    ~reused =>
      /\ BottomOK
      /\ \A k, l \in 1..Len(stack) : stack[k] = stack[l] => k = l
      /\ \A c \in Coros : OnStack(c) <=> Running(c)

\* Resume, Cancel and the timeout compete for a suspension and exactly one
\* wins: a coroutine has been resumed once for its start and once for every
\* suspension that is over.
WokenOnce ==
    ~reused => \A c \in Coros :
      resumeTimes[c] = yieldTimes[c]
        + (IF Running(c) \/ state[c] \in {"ended", "deleted"} THEN 1 ELSE 0)

\* coros_ holds exactly the coroutines that have not returned and the recycle
\* map exactly those that have and are not deleted, each under its own id:
\* neither map keeps a pointer to a deleted Coro.
MapsMatchLives ==
    ~reused => \A i \in Ids, c \in Coros :
      /\ coros[i] = c <=> id[c] = i /\ state[c] \in {"fresh", "started"}
      /\ waiting[i] = c <=> id[c] = i /\ state[c] = "ended"

\* GetCurCoro() called in a coroutine returns that coroutine's own object.
CurCoroIsRunning == (~reused /\ Top # Main) => GetCurCoro = Top

\* No wake-up reaches a coroutine that is running, has returned or is deleted,
\* whichever of Resume, Cancel, Stop and the timer heap it comes from.
NoStaleWake == ~reused => fault \notin {"dangling", "reentered"}

\* Room on libco's call stack for every coroutine at once, when they may
\* resume one another.
StackFits ==
    "nested" \in Calls => IsFiniteSet(Coros) /\ Cardinality(Coros) < CallStackSize

\* No step of a coroutine, of Update or of Stop meets undefined behaviour: a
\* null GetCurCoro(), the loop of Stop on an erased element, a deleted Coro
\* reached from the timer heap, a coroutine resumed while it is on the call
\* stack, the call stack overrun.  Left out are Yield and Start called by the
\* main coroutine before it has an object, and coroutines that erase others
\* while Stop's loop stands on them.
NoUndefinedBehaviour ==
    (~reused /\ StackFits /\ "driveInStop" \notin Calls) => fault \in {"none", "mainNull"}

\* After its loop Stop has cancelled "all coros in the suspended state"
\* (rpc_coro_mgr.cpp:316): no started coroutine is suspended any more.
StopLeavesNoneSuspended ==
    (Top = Main /\ mainPc = "stop" /\ stopIt = End)
      => \A c \in Coros : ~Suspended(c)

\* GetCurCoro() "gets the current coroutine" (rpc_coro_mgr.h:130), whatever
\* ids have been issued.
GetCurCoroGetsCurrent == (fault = "none" /\ Top # Main) => GetCurCoro = Top

-----------------------------------------------------------------------------
(* The promise of CoroSpec, and liveness.                                  *)

phaseOf(c) ==
    CASE state[c] = "none" -> "none"
      [] state[c] = "fresh" -> "ready"
      [] Running(c) -> "running"
      [] Suspended(c) -> "suspended"
      [] state[c] = "ended" -> "done"
      [] state[c] = "deleted" -> "gone"

outcomeOf(c) ==
    IF timeouted[c] THEN "timeout" ELSE IF cancelled[c] THEN "cancel" ELSE "ok"

deadlineOf(c) ==
    LET armed == {e \in heap : DataOf(e) = TimerOf(c)}
    IN  IF Suspended(c) /\ armed # {} THEN (CHOOSE e \in armed : TRUE).handle ELSE 0

Abs == INSTANCE CoroSpec WITH
         phase <- [c \in Coros |-> phaseOf(c)],
         outcome <- [c \in Coros |-> outcomeOf(c)],
         deadline <- [c \in Coros |-> deadlineOf(c)],
         clock <- now

\* The manager implements CoroSpec: every suspension ends exactly once, by a
\* resume, a cancel or a timeout that is not early, Yield reports which, and
\* only coroutines that have returned are deleted.
ImplementsCoroSpec == Abs!Spec

\* The main loop keeps calling Update and Update runs to its end, time passes,
\* and the code of a coroutine always reaches its next Yield or its end.
Fairness ==
    /\ WF_vars(fault = "none" /\ Tick)
    /\ WF_vars(fault = "none" /\ UpdateBegin)
    /\ WF_vars(fault = "none" /\ (UpdatePop \/ UpdateReturn \/ UpdateEnd))
    /\ WF_vars(fault = "none" /\ (StopStep \/ StopUpdate))
    /\ WF_vars(fault = "none" /\ (Finish \/ \E t \in Timeouts : Yield(t)))

FairSpec == Spec /\ Fairness

\* A suspended coroutine always runs again, even when nobody resumes or
\* cancels it: the timer of Coro::Yield fires.
SuspendedIsResumed == \A c \in Coros : Suspended(c) ~> Running(c)

\* A coroutine that has returned is deleted by a later Update.
EndedIsDeleted == \A c \in Coros : (state[c] = "ended") ~> (state[c] = "deleted")

=============================================================================
