--------------------------- MODULE TimerScheduler ---------------------------
(***************************************************************************)
(* LLBC_TimerScheduler and LLBC_Timer of src/llbc: timers and the counted  *)
(* timer data that a timer and the heap share.  Coro of rpc_coro_mgr.cpp   *)
(* is built on them.                                                       *)
(*                                                                         *)
(* OnTimeout and OnCancel are the program's; while one runs it may call    *)
(* Schedule, Cancel and the destructor again.  `calls' is the stack of the *)
(* functions that have not returned: Update and Cancel wait for a callback *)
(* to return, Schedule and ~LLBC_Timer wait for Cancel.                    *)
(***************************************************************************)
EXTENDS Integers, FiniteSets, BinaryHeap

CONSTANTS
    Timers,         \* the LLBC_Timer objects
    Null,
    DueTimes,       \* what Schedule is called with
    LongTimeout,    \* LLBC_CFG_CORE_TIMER_LONG_TIMEOUT_TIME
    MaxData,        \* bound: calls of Schedule
    MaxTime,        \* bound: the clock
    AnyReschedule   \* OnCancel may schedule its own timer under any caller

ASSUME TimerAssumption ==
    /\ Null \notin Nat /\ DueTimes \subseteq Nat \ {0} /\ LongTimeout \in Nat \ {0}
    /\ MaxData \in Nat /\ MaxTime \in Nat /\ AnyReschedule \in BOOLEAN

VARIABLES
    alive,          \* the timers that are not destroyed
    timerData,      \* _timerData of each timer
    used,           \* how many LLBC_TimerData have been allocated
    owner, handle, period, validate, timeouting, refCount,  \* LLBC_TimerData
    heap,           \* _heap
    calls,          \* the calls that have not returned
    snap,           \* now of the running Update, or Null
    now,
    fault           \* the undefined behaviour that was met, if any

data == <<owner, handle, period, validate, timeouting, refCount>>
vars == <<alive, timerData, used, data, heap, calls, snap, now, fault>>

Data == 1..MaxData
Allocated == 1..used
Call == [fn : {"Update", "Cancel", "Schedule", "Destroy"}, timer : Timers,
         data : Data, due : DueTimes \cup {0}]

TypeOK ==
    /\ alive \subseteq Timers /\ timerData \in [Timers -> Data \cup {Null}]
    /\ used \in 0..MaxData
    /\ owner \in [Data -> Timers \cup {Null}] /\ handle \in [Data -> Nat]
    /\ period \in [Data -> Nat] /\ validate \in [Data -> BOOLEAN]
    /\ timeouting \in [Data -> BOOLEAN] /\ refCount \in [Data -> 0..2]
    /\ heap \in Seq(Allocated) /\ calls \in Seq(Call)
    /\ snap \in Nat \cup {Null} /\ now \in 0..MaxTime
    /\ fault \in {"none", "data freed", "timer destroyed", "null data"}

Init ==
    /\ alive = Timers /\ timerData = [t \in Timers |-> Null] /\ used = 0
    /\ owner = [d \in Data |-> Null] /\ handle = [d \in Data |-> 0]
    /\ period = [d \in Data |-> 0] /\ validate = [d \in Data |-> FALSE]
    /\ timeouting = [d \in Data |-> FALSE] /\ refCount = [d \in Data |-> 0]
    /\ heap = <<>> /\ calls = <<>> /\ snap = Null /\ now = 0 /\ fault = "none"

-----------------------------------------------------------------------------
Running == calls[Len(calls)]
Returned == SubSeq(calls, 1, Len(calls) - 1)
CallOf(fn, t, d, due) == [fn |-> fn, timer |-> t, data |-> d, due |-> due]

\* The program's code runs: its main loop, or a callback.
ProgramRuns ==
    IF calls = <<>> THEN snap = Null ELSE Running.fn \in {"Update", "Cancel"}

\* mutant: IsTimeouting is looked at too
ArmedNotFiring(t) ==
    timerData[t] # Null /\ validate[timerData[t]] /\ ~timeouting[timerData[t]]

\* IsScheduling.
Armed(t) == timerData[t] # Null /\ validate[timerData[t]]

\* Timer data is deleted when its count falls to zero.
Release(count, d) == [count EXCEPT ![d] = @ - 1]

\* Touching deleted data, or a destroyed timer, is undefined.
Touches(d) == fault' = IF refCount[d] = 0 THEN "data freed" ELSE fault

TouchesTimer(d) ==
    fault' = IF refCount[d] = 0 THEN "data freed"
             ELSE IF owner[d] \notin alive THEN "timer destroyed" ELSE fault

-----------------------------------------------------------------------------
(* Schedule and Cancel.                                                    *)

KeepOldData(count, t) == count              \* mutant: a leak

\* The timer lets go of the data it had.
DropOldData(count, t) ==
    IF timerData[t] = Null THEN count ELSE Release(count, timerData[t])

\* LLBC_TimerScheduler::Schedule.
NewData(t, due) ==
    LET d == used + 1
        at == [handle EXCEPT ![d] = now + due]
    IN  /\ used' = d /\ handle' = at
        /\ owner' = [owner EXCEPT ![d] = t] /\ period' = [period EXCEPT ![d] = due]
        /\ validate' = [validate EXCEPT ![d] = TRUE]
        /\ refCount' = [DropOldData(refCount, t) EXCEPT ![d] = 2]
        /\ timerData' = [timerData EXCEPT ![t] = d]
        /\ heap' = Insert(heap, at, d)
        /\ IF timerData[t] = Null THEN UNCHANGED fault ELSE Touches(timerData[t])
        /\ UNCHANGED <<alive, timeouting, snap, now>>

\* LLBC_TimerScheduler::Cancel up to its call of OnCancel, made for caller.
BeginCancel(t, caller) ==
    /\ validate' = [validate EXCEPT ![timerData[t]] = FALSE]
    /\ calls' = calls \o caller \o <<CallOf("Cancel", t, timerData[t], 0)>>
    /\ UNCHANGED <<alive, timerData, used, owner, handle, period, timeouting,
                   refCount, heap, snap, now>>

Cancelling(t) == {k \in 1..Len(calls) : calls[k].fn = "Cancel" /\ calls[k].timer = t}

\* A condition on the program, not on the code, which lets OnCancel schedule its
\* own timer again under any caller.  Unless AnyReschedule, it does so only when
\* it was called by a plain Cancel(), not by Schedule or the destructor of that
\* timer, and the old data is less than LongTimeout away.  Coro::OnCoroCancel is
\* such an OnCancel: the coroutine that Coro::Cancel wakes may yield again, while
\* Yield schedules, and ~Coro destroys, only a timer that is not armed.
MaySchedule(t) ==
    \A k \in Cancelling(t) :
        \/ AnyReschedule
        \/ /\ handle[calls[k].data] - now < LongTimeout
           /\ \A j \in 1..Len(calls) :
                calls[j].timer = t => calls[j].fn \in {"Update", "Cancel"}

\* Data is left for the calls of Schedule that have not returned.
WithinBounds(due) ==
    /\ used + Cardinality({k \in 1..Len(calls) : calls[k].fn = "Schedule"}) < MaxData
    /\ now + due <= MaxTime

\* LLBC_Timer::Schedule.  An armed timer is cancelled first.
Schedule(t, due) ==
    /\ WithinBounds(due)
    /\ ProgramRuns /\ t \in alive /\ MaySchedule(t)
    /\ IF Armed(t)
         THEN BeginCancel(t, <<CallOf("Schedule", t, timerData[t], due)>>)
              /\ Touches(timerData[t])
         ELSE NewData(t, due) /\ UNCHANGED calls

\* LLBC_Timer::Schedule after its Cancel.
ScheduleTail ==
    /\ calls # <<>> /\ Running.fn = "Schedule"
    /\ NewData(Running.timer, Running.due) /\ calls' = Returned

\* LLBC_Timer::Cancel; a timer that is not armed is left alone.
Cancel(t) ==
    /\ ProgramRuns /\ t \in alive /\ Armed(t)
    /\ BeginCancel(t, <<>>) /\ Touches(timerData[t])

IsLong(d) == handle[d] - now >= LongTimeout

\* LLBC_TimerScheduler::Cancel after OnCancel has returned: data far from its
\* time is taken out of the heap at once.
CancelTail ==
    LET d == Running.data
        t == Running.timer
        count == Release(refCount, d)
    IN  /\ calls # <<>> /\ Running.fn = "Cancel"
        /\ IF ~timeouting[d] /\ IsLong(d)
             THEN /\ heap' = DeleteElem(heap, handle, d) /\ refCount' = count
                  /\ timerData' = IF count[d] = 0 THEN [timerData EXCEPT ![t] = Null]
                                  ELSE timerData
             ELSE UNCHANGED <<heap, refCount, timerData>>
        /\ calls' = Returned /\ Touches(d)
        /\ UNCHANGED <<alive, used, owner, handle, period, validate, timeouting, snap, now>>

-----------------------------------------------------------------------------
(* ~LLBC_Timer.                                                            *)

\* A timer is not destroyed while one of its own calls has not returned; its
\* OnTimeout may destroy it.
MayDestroy(t) ==
    \A k \in 1..Len(calls) : calls[k].timer = t => calls[k].fn = "Update"

LetGo(t) ==
    /\ alive' = alive \ {t} /\ timerData' = [timerData EXCEPT ![t] = Null]
    /\ refCount' = DropOldData(refCount, t)
    /\ UNCHANGED <<used, owner, handle, period, validate, timeouting, heap, snap, now>>

Destroy(t) ==
    /\ ProgramRuns /\ t \in alive /\ MayDestroy(t)
    /\ IF Armed(t)
         THEN BeginCancel(t, <<CallOf("Destroy", t, timerData[t], 0)>>)
              /\ Touches(timerData[t])
         ELSE /\ LetGo(t) /\ UNCHANGED calls
              /\ IF timerData[t] = Null THEN UNCHANGED fault ELSE Touches(timerData[t])

\* After Cancel the destructor uses _timerData without looking again.
DestroyTail ==
    LET t == Running.timer
    IN  /\ calls # <<>> /\ Running.fn = "Destroy"
        /\ LetGo(t) /\ calls' = Returned
        /\ IF timerData[t] = Null THEN fault' = "null data" ELSE Touches(timerData[t])

-----------------------------------------------------------------------------
(* LLBC_TimerScheduler::Update.                                            *)

InLoop == snap # Null /\ calls = <<>>
DueBefore == heap # <<>> /\ handle[heap[1]] < snap                \* mutant
DueNow == heap # <<>> /\ handle[heap[1]] <= snap

\* Update is called by the program's main loop, not by a callback; on an empty
\* heap it does nothing.
UpdateBegin ==
    /\ calls = <<>> /\ snap = Null /\ heap # <<>>
    /\ snap' = now
    /\ UNCHANGED <<alive, timerData, used, data, heap, calls, now, fault>>

UpdateDrop ==
    /\ InLoop /\ DueNow /\ ~validate[heap[1]]
    /\ heap' = DeleteTop(heap, handle) /\ refCount' = Release(refCount, heap[1])
    /\ Touches(heap[1])
    /\ UNCHANGED <<alive, timerData, used, owner, handle, period, validate, timeouting,
                   calls, snap, now>>

UpdateFire ==
    /\ InLoop /\ DueNow /\ validate[heap[1]]
    /\ heap' = DeleteTop(heap, handle)
    /\ timeouting' = [timeouting EXCEPT ![heap[1]] = TRUE]
    /\ calls' = <<CallOf("Update", owner[heap[1]], heap[1], 0)>>
    /\ TouchesTimer(heap[1])
    /\ UNCHANGED <<alive, timerData, used, owner, handle, period, validate, refCount,
                   snap, now>>

\* The next time of a periodic timer, on the grid of its first.
NextTime(d) ==
    [handle EXCEPT ![d] = snap + period[d] - ((snap - handle[d]) % period[d])]

ReleaseTwice(d) == [refCount EXCEPT ![d] = 0]                    \* mutant
ReleaseFired(d) == Release(refCount, d)

\* OnTimeout has returned.
UpdateReturn ==
    LET d == Running.data
    IN  /\ calls # <<>> /\ Running.fn = "Update"
        /\ timeouting' = [timeouting EXCEPT ![d] = FALSE]
        /\ IF validate[d]
             THEN /\ handle' = NextTime(d) /\ heap' = Insert(heap, NextTime(d), d)
                  /\ UNCHANGED refCount
             ELSE refCount' = ReleaseFired(d) /\ UNCHANGED <<handle, heap>>
        /\ calls' = <<>> /\ Touches(d)
        /\ UNCHANGED <<alive, timerData, used, owner, period, validate, snap, now>>

UpdateEnd ==
    /\ InLoop /\ ~DueNow
    /\ snap' = Null
    /\ UNCHANGED <<alive, timerData, used, data, heap, calls, now, fault>>

Tick ==
    /\ now < MaxTime /\ now' = now + 1
    /\ UNCHANGED <<alive, timerData, used, data, heap, calls, snap, fault>>

-----------------------------------------------------------------------------
Program ==
    \E t \in Timers : (\E due \in DueTimes : Schedule(t, due)) \/ Cancel(t) \/ Destroy(t)

Returns == ScheduleTail \/ CancelTail \/ DestroyTail \/ UpdateReturn
UpdateLoop == UpdateDrop \/ UpdateFire \/ UpdateEnd

Next == fault = "none" /\ (Program \/ Returns \/ UpdateBegin \/ UpdateLoop \/ Tick)

Spec == Init /\ [][Next]_vars

\* Callbacks return, the program keeps calling Update, and time passes.
FairSpec ==
    /\ Spec
    /\ WF_vars(fault = "none" /\ Returns) /\ WF_vars(fault = "none" /\ UpdateBegin)
    /\ WF_vars(fault = "none" /\ UpdateLoop) /\ WF_vars(fault = "none" /\ Tick)

-----------------------------------------------------------------------------
(* Properties.                                                             *)

Count(P) == IF P THEN 1 ELSE 0
Fired(d) == \E k \in 1..Len(calls) : calls[k].fn = "Update" /\ calls[k].data = d
InHeap(d) == \E i \in 1..Len(heap) : heap[i] = d

\* No call, callback or pass of Update touches timer data that was deleted, or
\* fires a timer that was destroyed, when callbacks schedule, cancel and destroy
\* timers within MaySchedule.  With AnyReschedule it does not hold, although
\* Timer.cpp:111 says "Allow reschedule in <OnCancel>": ~LLBC_Timer finds
\* _timerData null after its Cancel (Timer.cpp:51).
NoDangling == fault = "none"

\* refCount counts who refers to the data: the timer, and the heap or the
\* Update that has taken it from the heap to fire it.
RefCountIsOwners ==
    fault = "none" => \A d \in Allocated :
      refCount[d] = Cardinality({t \in Timers : timerData[t] = d})
                      + Count(InHeap(d)) + Count(Fired(d))

\* A timer has at most one armed data, the one it refers to: Cancel, Schedule
\* and the destructor reach whatever may still fire for it.  It holds within
\* MaySchedule and not with AnyReschedule, although Timer.cpp:111 says "Allow
\* reschedule in <OnCancel>".
ArmedIsOwned ==
    fault = "none" => \A d \in Allocated :
      (validate[d] /\ refCount[d] > 0) => owner[d] \in alive /\ timerData[owner[d]] = d

\* The heap of BinaryHeapInl.h stays a heap, holds no data twice, and holds
\* all armed data that is not being fired.
HeapIsSound ==
    fault = "none" =>
      /\ IsHeap(heap, handle) /\ IsInjective(heap)
      /\ \A d \in Allocated :
           (validate[d] /\ refCount[d] > 0) => (InHeap(d) <=> ~Fired(d))

\* When Update returns, no armed timer that was due when it began is left:
\* timers armed and cancelled by callbacks do not hide others in the heap.
UpdateFiresAllDue ==
    [][(snap # Null /\ snap' = Null) =>
         \A d \in Allocated : InHeap(d) /\ validate[d] => handle[d] > snap]_vars

\* Data that is cancelled and whose timer has gone on to other data, or was
\* destroyed, is deleted in the end.
DroppedIsFreed ==
    \A d \in Data :
        (/\ d \in Allocated /\ ~validate[d] /\ handle[d] <= MaxTime
         /\ \A t \in Timers : timerData[t] # d) ~> (refCount[d] = 0)
=============================================================================
