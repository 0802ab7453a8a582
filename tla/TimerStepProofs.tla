------------------------- MODULE TimerStepProofs ----------------------------
(***************************************************************************)
(* Proofs about TimerScheduler, for any timers, times and bounds: the      *)
(* inductive invariant TInv, and that it survives the steps of Update, the *)
(* end of Cancel and the storing of new timer data.                        *)
(***************************************************************************)
EXTENDS TimerScheduler, TLAPS

\* A leaf that names no prover is tried with SMT, then with Zenon, then once more.
USE SMTT(30), ZenonT(30), SMTT(60)

-----------------------------------------------------------------------------
(* The inductive invariant.                                                *)

Types ==
    /\ alive \subseteq Timers /\ timerData \in [Timers -> Data \cup {Null}]
    /\ used \in 0..MaxData
    /\ owner \in [Data -> Timers \cup {Null}] /\ handle \in [Data -> Nat]
    /\ period \in [Data -> Nat] /\ validate \in [Data -> BOOLEAN]
    /\ timeouting \in [Data -> BOOLEAN] /\ refCount \in [Data -> Int]
    /\ calls \in Seq(Call) /\ snap \in Nat \cup {Null} /\ now \in 0..MaxTime

\* The heap, and the Update that fires data, are the owners besides the timer.
Held(d) == InHeap(d) \/ Fired(d)

HeapOK ==
    /\ heap \in Seq(Data) /\ IsHeap(heap, handle) /\ IsInjective(heap)
    /\ \A d \in Data : InHeap(d) => d \in Allocated

DataOK(d) ==
    /\ owner[d] \in Timers /\ period[d] # 0
    /\ refCount[d] = Count(timerData[owner[d]] = d) + Count(Held(d))
    /\ ~(InHeap(d) /\ Fired(d))
    /\ validate[d] => Held(d) /\ owner[d] \in alive /\ timerData[owner[d]] = d

DataInv ==
    /\ \A d \in Allocated : DataOK(d)
    /\ \A d \in Data \ Allocated : refCount[d] = 0
    /\ \A d \in Data : timeouting[d] <=> Fired(d)
    /\ \A t \in Timers : timerData[t] # Null =>
         timerData[t] \in Allocated /\ owner[timerData[t]] = t

\* The functions that call Cancel and go on after it.
Callers == {"Schedule", "Destroy"}

FrameOK(k) ==
    LET c == calls[k]
    IN  /\ c.data \in Allocated /\ owner[c.data] = c.timer
        /\ c.fn = "Update" => k = 1 /\ snap # Null
        /\ c.fn = "Cancel" => /\ ~validate[c.data] /\ Held(c.data)
                              /\ IsLong(c.data) => timerData[c.timer] = c.data
        /\ c.fn \in Callers =>
             /\ timerData[c.timer] = c.data /\ ~validate[c.data] /\ c.timer \in alive
             /\ k < Len(calls) => calls[k + 1].fn = "Cancel" /\ calls[k + 1].timer = c.timer
        /\ c.fn = "Schedule" => c.due \in DueTimes

\* Two calls, the one at k made before the one at j.
PairOK(k, j) ==
    /\ calls[k].fn = "Cancel" /\ calls[j].fn = "Cancel" => calls[k].data # calls[j].data
    /\ calls[k].fn \in Callers /\ calls[j].fn \in Callers => calls[k].timer # calls[j].timer
    /\ calls[k].fn = "Cancel" /\ calls[j].fn \in Callers /\ calls[k].timer = calls[j].timer
         => ~IsLong(calls[k].data)

FramesOK ==
    /\ \A k \in 1..Len(calls) : FrameOK(k)
    /\ \A j \in 1..Len(calls) : \A k \in 1..(j - 1) : PairOK(k, j)

TInv == Types /\ NoDangling /\ HeapOK /\ DataInv /\ FramesOK

\* What the proofs need of the heap's operations on data; BinaryHeapProofs shows
\* it for any heap.
HeapFacts ==
    \A key \in [Data -> Nat], h \in Seq(Data) :
      /\ \A e \in Data : IsHeap(h, key) /\ IsInjective(h) /\ ~Holds(h, e) =>
           LET g == Insert(h, key, e) IN
           /\ g \in Seq(Data) /\ IsHeap(g, key) /\ IsInjective(g)
           /\ \A x : Holds(g, x) <=> Holds(h, x) \/ x = e
      /\ h # <<>> /\ IsHeap(h, key) /\ IsInjective(h) =>
           LET g == DeleteTop(h, key) IN
           /\ g \in Seq(Data) /\ IsHeap(g, key) /\ IsInjective(g)
           /\ \A x : Holds(g, x) <=> Holds(h, x) /\ x # h[1]
      /\ \A e \in Data : IsInjective(h) /\ Holds(h, e) =>
           LET g == DeleteElem(h, key, e) IN
           /\ g \in Seq(Data) /\ IsHeap(g, key) /\ IsInjective(g)
           /\ \A x : Holds(g, x) <=> Holds(h, x) /\ x # e

-----------------------------------------------------------------------------
(* What the invariant says.                                                *)

\* Data that somebody refers to is not deleted, and has at most two owners.
LEMMA RefCountPositive ==
    ASSUME NEW d \in Allocated, DataOK(d), refCount[d] \in Int
    PROVE  /\ refCount[d] \in 0..2
           /\ Held(d) \/ timerData[owner[d]] = d => refCount[d] # 0
  BY DEF DataOK, Count

\* The invariant implies that the variables have their types.
LEMMA TypesHold == TInv => TypeOK
  <1> SUFFICES ASSUME TInv PROVE TypeOK
    OBVIOUS
  <1>1. refCount \in [Data -> 0..2]
    <2>1. ASSUME NEW d \in Data PROVE refCount[d] \in 0..2
      <3>1. CASE d \in Allocated
        BY <3>1, RefCountPositive DEF TInv, DataInv, Types
      <3>2. CASE d \notin Allocated
        BY <3>2 DEF TInv, DataInv
      <3> QED BY <3>1, <3>2
    <2> QED BY <2>1 DEF TInv, Types
  <1>2. heap \in Seq(Allocated)
    <2>1. heap \in Seq(Data) /\ Len(heap) \in Nat
      BY DEF TInv, HeapOK
    <2>2. \A i \in 1..Len(heap) : heap[i] \in Allocated
      BY <2>1 DEF TInv, HeapOK, InHeap
    <2>3. heap = [i \in 1..Len(heap) |-> heap[i]]
      BY <2>1
    <2>4. [i \in 1..Len(heap) |-> heap[i]] \in Seq(Allocated)
      BY <2>1, <2>2
    <2> QED BY <2>3, <2>4
  <1> QED  BY <1>1, <1>2 DEF TInv, Types, TypeOK, NoDangling

\* Armed data belongs to its timer and is in the heap or being fired.
LEMMA ArmedOwnedSound == TInv => ArmedIsOwned /\ HeapIsSound
  <1> SUFFICES ASSUME TInv PROVE ArmedIsOwned /\ HeapIsSound
    OBVIOUS
  <1>1. \A d \in Allocated : DataOK(d)
    BY DEF TInv, DataInv
  <1>2. ArmedIsOwned
    BY <1>1 DEF ArmedIsOwned, DataOK
  <1>3. \A d \in Allocated : validate[d] => (InHeap(d) <=> ~Fired(d))
    BY <1>1 DEF DataOK, Held
  <1>4. IsHeap(heap, handle) /\ IsInjective(heap)
    BY DEF TInv, HeapOK
  <1> QED  BY <1>2, <1>3, <1>4 DEF HeapIsSound

-----------------------------------------------------------------------------
(* The stack of calls.                                                     *)

\* The beginning of a sequence.
LEMMA PrefixLemma ==
    ASSUME NEW S, NEW s \in Seq(S), NEW n \in Nat, n <= Len(s)
    PROVE  /\ SubSeq(s, 1, n) \in Seq(S) /\ Len(SubSeq(s, 1, n)) = n
           /\ \A k \in 1..n : SubSeq(s, 1, n)[k] = s[k]
  OBVIOUS

\* A sequence without its last element.
LEMMA FrontLemma ==
    ASSUME NEW S, NEW s \in Seq(S), s # <<>>
    PROVE  LET f == SubSeq(s, 1, Len(s) - 1) IN
           /\ Len(s) \in Nat \ {0} /\ s[Len(s)] \in S
           /\ f \in Seq(S) /\ Len(f) = Len(s) - 1 /\ \A k \in 1..(Len(s) - 1) : f[k] = s[k]
  <1>1. Len(s) \in Nat \ {0} /\ s[Len(s)] \in S
    OBVIOUS
  <1>2. PICK n \in Nat : n = Len(s) - 1
    BY <1>1
  <1>3. n <= Len(s)
    BY <1>1, <1>2
  <1> QED  BY <1>1, <1>2, <1>3, PrefixLemma

\* Returning from a function takes its call from the stack.
LEMMA Popped ==
    ASSUME Types, calls # <<>>, calls' = Returned
    PROVE  /\ calls' \in Seq(Call) /\ Len(calls') = Len(calls) - 1 /\ Len(calls) \in Nat \ {0}
           /\ \A k \in 1..Len(calls') : calls'[k] = calls[k]
           /\ Running = calls[Len(calls)] /\ Running \in Call
  BY FrontLemma DEF Types, Returned, Running

\* Nothing is fired outside of Update's call of OnTimeout.
LEMMA NothingFired == calls = <<>> => \A d \in Data : ~Fired(d)
  <1> SUFFICES ASSUME calls = <<>> PROVE \A d \in Data : ~Fired(d)
    OBVIOUS
  <1>1. 1..Len(calls) = {}
    OBVIOUS
  <1> QED  BY <1>1 DEF Fired

\* Nothing is asked of an empty stack.
LEMMA NoFrames == calls' = <<>> => FramesOK' /\ \A d \in Data : ~Fired(d)'
  <1> SUFFICES ASSUME calls' = <<>> PROVE FramesOK' /\ \A d \in Data : ~Fired(d)'
    OBVIOUS
  <1>1. 1..Len(calls') = {}
    OBVIOUS
  <1> QED  BY <1>1 DEF FramesOK, Fired

\* A stack of one call.
LEMMA OneCall ==
    ASSUME NEW S, NEW c \in S
    PROVE  <<c>> \in Seq(S) /\ Len(<<c>>) = 1 /\ <<c>>[1] = c
  OBVIOUS

\* What a step must keep of a call that stays where it is on the stack.
FrameKept(k) ==
    LET c == calls[k]
    IN  /\ c.data \in 1..used' /\ owner'[c.data] = owner[c.data]
        /\ c.fn = "Update" => snap' # Null
        /\ c.fn = "Cancel" => /\ ~validate'[c.data] /\ Held(c.data)'
                              /\ IsLong(c.data)' => IsLong(c.data) /\ timerData'[c.timer] = c.data
        /\ c.fn \in Callers => /\ timerData'[c.timer] = timerData[c.timer]
                               /\ ~validate'[c.data] /\ c.timer \in alive'

\* A step that makes no new call keeps FramesOK, if it keeps what each of the
\* remaining calls relies on.
LEMMA FramesKept ==
    ASSUME FramesOK, Len(calls) \in Nat, Len(calls') \in Nat, Len(calls') <= Len(calls),
           \A k \in 1..Len(calls') : calls'[k] = calls[k] /\ FrameKept(k)
    PROVE  FramesOK'
  <1>1. ASSUME NEW k \in 1..Len(calls') PROVE FrameOK(k)'
    <2>1. k \in 1..Len(calls) /\ calls'[k] = calls[k] /\ FrameOK(k) /\ FrameKept(k)
      BY DEF FramesOK
    <2>2. k < Len(calls') => calls'[k + 1] = calls[k + 1]
      OBVIOUS
    <2> QED BY <2>1, <2>2 DEF FrameOK, FrameKept, Allocated
  <1>2. ASSUME NEW j \in 1..Len(calls'), NEW k \in 1..(j - 1) PROVE PairOK(k, j)'
    <2>1. /\ k \in 1..Len(calls') /\ j \in 1..Len(calls)
          /\ calls'[k] = calls[k] /\ calls'[j] = calls[j] /\ FrameKept(k)
      OBVIOUS
    <2>2. PairOK(k, j)
      BY <2>1 DEF FramesOK
    <2> QED BY <2>1, <2>2 DEF PairOK, FrameKept
  <1> QED  BY <1>1, <1>2 DEF FramesOK

-----------------------------------------------------------------------------
(* The steps that change only the clock.                                   *)

\* The scheduler starts with nothing.
LEMMA InitStep == Init => TInv
  <1> SUFFICES ASSUME Init PROVE TInv
    OBVIOUS
  <1> USE TimerAssumption
  <1>1. Len(calls) = 0 /\ Len(heap) = 0 /\ Allocated = {}
    BY DEF Init, Allocated
  <1>2. Types
    BY DEF Init, Types, Data, Call
  <1>3. HeapOK
    BY <1>1 DEF Init, HeapOK, IsHeap, InHeap, IsInjective
  <1>4. DataInv
    BY <1>1 DEF Init, DataInv, Fired
  <1>5. FramesOK
    BY <1>1 DEF FramesOK
  <1> QED  BY <1>2, <1>3, <1>4, <1>5 DEF TInv, Init, NoDangling

\* Nothing but the clock and the time of Update has changed.
Idle == UNCHANGED <<alive, timerData, used, data, heap, calls, fault>>

\* What does not speak of time is kept by such a step.
LEMMA IdleStep ==
    ASSUME TInv, Idle, now' \in 0..MaxTime, now' >= now, snap' \in Nat \cup {Null},
           calls # <<>> => snap' = snap
    PROVE  TInv'
  <1>1. /\ alive' = alive /\ timerData' = timerData /\ used' = used /\ owner' = owner
        /\ handle' = handle /\ period' = period /\ validate' = validate
        /\ timeouting' = timeouting /\ refCount' = refCount /\ heap' = heap
        /\ calls' = calls /\ fault' = fault
    BY DEF Idle, data
  <1>2. Types'
    BY <1>1 DEF TInv, Types
  <1>3. HeapOK'
    BY <1>1 DEF TInv, HeapOK, InHeap, Allocated
  <1>4. DataInv'
    BY <1>1 DEF TInv, DataInv, DataOK, Held, InHeap, Fired, Allocated
  <1>5. FramesOK'
    <2>1. Len(calls) \in Nat /\ FramesOK /\ calls \in Seq(Call)
      BY DEF TInv, Types
    <2>2. ASSUME NEW k \in 1..Len(calls) PROVE FrameKept(k)
      <3>1. FrameOK(k) /\ snap' = snap
        BY <2>1, <2>2 DEF FramesOK
      <3>2. handle[calls[k].data] \in Nat /\ now \in Nat /\ now' \in Nat /\ LongTimeout \in Nat
        BY <3>1, TimerAssumption DEF TInv, Types, FrameOK, Allocated, Data
      <3>3. IsLong(calls[k].data)' => IsLong(calls[k].data)
        BY <1>1, <3>2 DEF IsLong
      <3>4. Held(calls[k].data)' <=> Held(calls[k].data)
        BY <1>1 DEF Held, InHeap, Fired
      <3> QED BY <1>1, <3>1, <3>3, <3>4 DEF FrameOK, FrameKept, Allocated
    <2> QED BY <1>1, <2>1, <2>2, FramesKept
  <1> QED  BY <1>1, <1>2, <1>3, <1>4, <1>5 DEF TInv, NoDangling

\* Update begins and ends outside of every callback, and time passes.
LEMMA IdleSteps == TInv /\ (UpdateBegin \/ UpdateEnd \/ Tick) => TInv'
  <1> SUFFICES ASSUME TInv, UpdateBegin \/ UpdateEnd \/ Tick PROVE TInv'
    OBVIOUS
  <1>1. now \in Nat /\ MaxTime \in Nat /\ now \in 0..MaxTime /\ snap \in Nat \cup {Null}
    BY TimerAssumption DEF TInv, Types
  <1>2. Idle
    BY DEF Idle, UpdateBegin, UpdateEnd, Tick
  <1>3. now' \in 0..MaxTime /\ now' >= now
    BY <1>1 DEF UpdateBegin, UpdateEnd, Tick
  <1>4. snap' \in Nat \cup {Null} /\ (calls # <<>> => snap' = snap)
    BY <1>1 DEF UpdateBegin, UpdateEnd, Tick, InLoop
  <1> QED  BY <1>2, <1>3, <1>4, IdleStep

-----------------------------------------------------------------------------
(* The loop of Update.                                                     *)

\* Data are the numbers the heap is made of.
LEMMA DataIsNat == Data \subseteq Nat /\ (used \in 0..MaxData => Allocated \subseteq Data)
  BY TimerAssumption DEF Data, Allocated

\* The top of a heap that is not empty.
LEMMA TopFacts ==
    ASSUME TInv, heap # <<>>
    PROVE  heap[1] \in Allocated /\ heap[1] \in Data /\ InHeap(heap[1]) /\ DataOK(heap[1])
  <1>1. heap \in Seq(Data) /\ Len(heap) \in Nat /\ 1 \in 1..Len(heap)
    BY DEF TInv, HeapOK
  <1>2. heap[1] \in Data /\ InHeap(heap[1])
    BY <1>1 DEF InHeap
  <1>3. heap[1] \in Allocated
    BY <1>2 DEF TInv, HeapOK
  <1> QED  BY <1>2, <1>3 DEF TInv, DataInv

\* DeleteTop takes the top, and only the top, from the heap.
LEMMA TopDeleted ==
    ASSUME HeapFacts, TInv, heap # <<>>, heap' = DeleteTop(heap, handle), UNCHANGED <<handle, used>>
    PROVE  HeapOK' /\ \A x \in Data : InHeap(x)' <=> InHeap(x) /\ x # heap[1]
  <1>1. /\ handle \in [Data -> Nat] /\ heap \in Seq(Data)
        /\ IsHeap(heap, handle) /\ IsInjective(heap)
    BY DEF TInv, Types, HeapOK
  <1>2. /\ heap' \in Seq(Data) /\ IsHeap(heap', handle) /\ IsInjective(heap')
        /\ \A x : Holds(heap', x) <=> Holds(heap, x) /\ x # heap[1]
    BY <1>1 DEF HeapFacts
  <1>3. \A x \in Data : InHeap(x)' <=> InHeap(x) /\ x # heap[1]
    BY Zenon, <1>2 DEF InHeap, Holds
  <1>4. \A x \in Data : InHeap(x)' => x \in Allocated'
    BY <1>3 DEF TInv, HeapOK, Allocated
  <1>5. IsHeap(heap', handle')
    BY <1>2
  <1> QED  BY <1>2, <1>3, <1>4, <1>5 DEF HeapOK

\* Update drops cancelled data from the heap.
LEMMA DropStep ==
    ASSUME HeapFacts, TInv, UpdateDrop
    PROVE  TInv'
  <1> DEFINE d == heap[1]
  <1>1. /\ calls = <<>> /\ heap # <<>> /\ ~validate[d] /\ heap' = DeleteTop(heap, handle)
        /\ refCount' = [refCount EXCEPT ![d] = @ - 1]
        /\ fault' = IF refCount[d] = 0 THEN "data freed" ELSE fault
        /\ UNCHANGED <<alive, timerData, used, owner, handle, period, validate,
                       timeouting, calls, snap, now>>
    BY Zenon DEF UpdateDrop, InLoop, DueNow, Release, Touches
  <1>2. d \in Allocated /\ d \in Data /\ InHeap(d) /\ DataOK(d)
    BY Zenon, <1>1, TopFacts
  <1>3. HeapOK' /\ \A x \in Data : InHeap(x)' <=> InHeap(x) /\ x # d
    BY Zenon, <1>1, TopDeleted
  <1> HIDE DEF d
  <1>4. refCount \in [Data -> Int] /\ refCount[d] # 0 /\ Allocated \subseteq Data
    BY <1>2, RefCountPositive, DataIsNat DEF TInv, Types, Held
  <1>5. /\ refCount' \in [Data -> Int] /\ refCount'[d] = refCount[d] - 1
        /\ \A x \in Data : x # d => refCount'[x] = refCount[x]
    BY <1>1, <1>2, <1>4
  <1>6. Types' /\ NoDangling'
    BY <1>1, <1>4, <1>5 DEF TInv, Types, NoDangling
  <1>7. \A x \in Data : ~Fired(x) /\ ~Fired(x)'
    BY Zenon, <1>1, NothingFired, NoFrames
  <1>8. ASSUME NEW x \in Allocated PROVE DataOK(x)'
    <2>1. x \in Data /\ DataOK(x) /\ refCount[x] \in Int
      BY <1>4 DEF TInv, DataInv, Types
    <2>2. Held(x)' <=> Held(x) /\ x # d
      BY <1>3, <1>7, <2>1 DEF Held
    <2>3. refCount'[x] = Count(timerData[owner[x]] = x) + Count(Held(x)')
      <3>1. CASE x = d
        BY <1>2, <1>5, <2>1, <2>2, <3>1 DEF DataOK, Count, Held
      <3>2. CASE x # d
        BY <1>5, <2>1, <2>2, <3>2 DEF DataOK, Count
      <3> QED  BY <3>1, <3>2
    <2> QED  BY Zenon, <1>1, <1>7, <2>1, <2>2, <2>3 DEF DataOK
  <1>9. DataInv'
    <2>1. \A x \in Data \ Allocated : refCount'[x] = 0
      BY <1>2, <1>5 DEF TInv, DataInv
    <2> QED  BY Zenon, <1>1, <1>7, <1>8, <2>1 DEF TInv, DataInv, Allocated
  <1>10. FramesOK'
    BY Zenon, <1>1, NoFrames
  <1> QED  BY <1>3, <1>6, <1>9, <1>10 DEF TInv

\* Update takes armed data from the heap and calls OnTimeout.
LEMMA FireStep ==
    ASSUME HeapFacts, TInv, UpdateFire
    PROVE  TInv'
  <1> DEFINE d == heap[1]
             c == CallOf("Update", owner[d], d, 0)
  <1>1. /\ calls = <<>> /\ snap # Null /\ heap # <<>> /\ validate[d]
        /\ heap' = DeleteTop(heap, handle)
        /\ timeouting' = [timeouting EXCEPT ![d] = TRUE] /\ calls' = <<c>>
        /\ fault' = IF refCount[d] = 0 THEN "data freed"
                    ELSE IF owner[d] \notin alive THEN "timer destroyed" ELSE fault
        /\ UNCHANGED <<alive, timerData, used, owner, handle, period, validate,
                       refCount, snap, now>>
    BY Zenon DEF UpdateFire, InLoop, DueNow, TouchesTimer
  <1>2. d \in Allocated /\ d \in Data /\ InHeap(d) /\ DataOK(d)
    BY Zenon, <1>1, TopFacts
  <1>3. HeapOK' /\ \A x \in Data : InHeap(x)' <=> InHeap(x) /\ x # d
    BY Zenon, <1>1, TopDeleted
  <1> HIDE DEF d
  <1>4. refCount[d] # 0 /\ owner[d] \in Timers /\ owner[d] \in alive /\ Allocated \subseteq Data
    BY Zenon, <1>1, <1>2, RefCountPositive, DataIsNat DEF TInv, Types, Held, DataOK
  <1>5. /\ c \in Call /\ c.fn = "Update" /\ c.data = d /\ c.timer = owner[d]
    BY <1>2, <1>4 DEF CallOf, Call
  <1> HIDE DEF c
  <1>6. calls' \in Seq(Call) /\ Len(calls') = 1 /\ calls'[1] = c
    BY Zenon, <1>1, <1>5, OneCall
  <1>7. Types' /\ NoDangling'
    BY Zenon, <1>1, <1>4, <1>6 DEF TInv, Types, NoDangling
  <1>8. \A x \in Data : ~Fired(x) /\ (Fired(x)' <=> x = d)
    <2>1. \A x \in Data : Fired(x)' <=> x = d
      BY <1>5, <1>6 DEF Fired
    <2> QED  BY Zenon, <1>1, <2>1, NothingFired
  <1>9. ASSUME NEW x \in Allocated PROVE DataOK(x)'
    <2>1. x \in Data /\ DataOK(x)
      BY <1>4 DEF TInv, DataInv
    <2>2. (Held(x)' <=> Held(x)) /\ ~(InHeap(x)' /\ Fired(x)')
      BY <1>2, <1>3, <1>8, <2>1 DEF Held
    <2> QED  BY Zenon, <1>1, <2>1, <2>2 DEF DataOK, Count
  <1>10. DataInv'
    <2>1. \A x \in Data : timeouting'[x] <=> Fired(x)'
      BY Zenon, <1>1, <1>2, <1>8 DEF TInv, Types, DataInv
    <2> QED  BY Zenon, <1>1, <1>9, <2>1 DEF TInv, DataInv, Allocated
  <1>11. FramesOK'
    <2>1. FrameOK(1)'
      BY Zenon, <1>1, <1>2, <1>5, <1>6 DEF FrameOK, Callers, Allocated
    <2>2. 1..Len(calls') = {1} /\ 1..(1 - 1) = {}
      BY <1>6
    <2> QED  BY <2>1, <2>2, Zenon DEF FramesOK
  <1> QED  BY <1>3, <1>7, <1>10, <1>11 DEF TInv

-----------------------------------------------------------------------------
(* OnTimeout returns.                                                      *)

\* Insert puts data into the heap under its new time.
LEMMA Inserted ==
    ASSUME HeapFacts, TInv, NEW d \in Data, ~InHeap(d), NEW key \in [Data -> Nat],
           \A x \in Data : x # d => key[x] = handle[x],
           handle' = key, heap' = Insert(heap, key, d),
           d \in Allocated', Allocated \subseteq Allocated'
    PROVE  HeapOK' /\ \A x \in Data : InHeap(x)' <=> InHeap(x) \/ x = d
  <1>1. heap \in Seq(Data) /\ IsInjective(heap) /\ ~Holds(heap, d)
    BY DEF TInv, HeapOK, Holds, InHeap
  <1>2. \A i \in 1..Len(heap) : key[heap[i]] = handle[heap[i]]
    <2>1. \A i \in 1..Len(heap) : heap[i] \in Data /\ heap[i] # d
      BY <1>1 DEF Holds
    <2> QED  BY <2>1
  <1>3. IsHeap(heap, key)
    <2>1. IsHeap(heap, handle)
      BY DEF TInv, HeapOK
    <2>2. ASSUME NEW i \in 2..Len(heap) PROVE key[heap[i \div 2]] <= key[heap[i]]
      <3>1. i \in 1..Len(heap) /\ i \div 2 \in 1..Len(heap)
        BY <1>1
      <3>2. handle[heap[i \div 2]] <= handle[heap[i]]
        BY <2>1 DEF IsHeap
      <3> QED  BY <1>2, <3>1, <3>2
    <2> QED  BY <2>2 DEF IsHeap
  <1>4. /\ heap' \in Seq(Data) /\ IsHeap(heap', handle') /\ IsInjective(heap')
        /\ \A x : Holds(heap', x) <=> Holds(heap, x) \/ x = d
    <2>1. LET g == Insert(heap, key, d) IN
          /\ g \in Seq(Data) /\ IsHeap(g, key) /\ IsInjective(g)
          /\ \A x : Holds(g, x) <=> Holds(heap, x) \/ x = d
      BY <1>1, <1>3 DEF HeapFacts
    <2> QED  BY <2>1
  <1>5. \A x \in Data : InHeap(x)' <=> InHeap(x) \/ x = d
    BY Zenon, <1>4 DEF InHeap, Holds
  <1>6. \A x \in Data : InHeap(x)' => x \in Allocated'
    BY <1>5 DEF TInv, HeapOK
  <1> QED  BY <1>4, <1>5, <1>6 DEF HeapOK

\* Update's call of OnTimeout is the only call on the stack when it returns.
LEMMA Firing ==
    ASSUME TInv, calls # <<>>, Running.fn = "Update"
    PROVE  /\ Running.data \in Allocated /\ Running.data \in Data /\ snap \in Nat
           /\ \A x \in Data : Fired(x) <=> x = Running.data
  <1>1. /\ Len(calls) \in Nat \ {0} /\ Running = calls[Len(calls)] /\ FrameOK(Len(calls))
    <2>1. calls \in Seq(Call) /\ \A k \in 1..Len(calls) : FrameOK(k)
      BY DEF TInv, Types, FramesOK
    <2>2. Len(calls) \in Nat \ {0} /\ Running = calls[Len(calls)]
      BY <2>1, FrontLemma DEF Running
    <2> QED  BY <2>1, <2>2
  <1>2. Len(calls) = 1 /\ snap \in Nat /\ Running.data \in Allocated
    BY <1>1 DEF FrameOK, TInv, Types
  <1>3. \A x \in Data : Fired(x) <=> x = Running.data
    BY <1>1, <1>2 DEF Fired
  <1> QED  BY <1>2, <1>3, DataIsNat DEF TInv, Types

\* The next time of a periodic timer is a time.
LEMMA NextTimeIsNat ==
    ASSUME NEW s \in Nat, NEW h \in Nat, NEW p \in Nat \ {0}
    PROVE  s + p - ((s - h) % p) \in Nat
  <1>1. s - h \in Int /\ (s - h) % p \in 0..(p - 1)
    OBVIOUS
  <1> QED  BY <1>1

\* A timer that is still armed goes back into the heap.
LEMMA RearmStep ==
    ASSUME HeapFacts, TInv, UpdateReturn, validate[Running.data]
    PROVE  TInv'
  <1> DEFINE d == Running.data
             key == NextTime(d)
  <1>1. /\ calls # <<>> /\ Running.fn = "Update" /\ calls' = <<>>
        /\ timeouting' = [timeouting EXCEPT ![d] = FALSE]
        /\ handle' = key /\ heap' = Insert(heap, key, d)
        /\ fault' = IF refCount[d] = 0 THEN "data freed" ELSE fault
        /\ UNCHANGED <<alive, timerData, used, owner, period, validate, refCount, snap, now>>
    BY Zenon DEF UpdateReturn, Touches
  <1>2. /\ d \in Allocated /\ d \in Data /\ snap \in Nat /\ Allocated \subseteq Data
        /\ \A x \in Data : Fired(x) <=> x = d
    BY Zenon, <1>1, Firing, DataIsNat DEF TInv, Types
  <1> HIDE DEF d
  <1>3. DataOK(d) /\ Fired(d) /\ ~InHeap(d)
    BY <1>2 DEF TInv, DataInv, DataOK
  <1>4. refCount[d] # 0
    BY <1>2, <1>3, RefCountPositive DEF TInv, Types, Held
  <1>5. key \in [Data -> Nat] /\ \A x \in Data : x # d => key[x] = handle[x]
    <2>1. handle \in [Data -> Nat] /\ handle[d] \in Nat /\ period[d] \in Nat \ {0}
      BY <1>2, <1>3 DEF TInv, Types, DataOK
    <2>2. PICK n \in Nat : n = snap + period[d] - ((snap - handle[d]) % period[d])
      BY <1>2, <2>1, NextTimeIsNat
    <2>3. key = [handle EXCEPT ![d] = n]
      BY <2>2 DEF NextTime
    <2> QED  BY <1>2, <2>1, <2>3
  <1> HIDE DEF key
  <1>6. HeapOK' /\ \A x \in Data : InHeap(x)' <=> InHeap(x) \/ x = d
    <2>1. d \in Allocated' /\ Allocated \subseteq Allocated'
      BY Zenon, <1>1, <1>2 DEF Allocated
    <2> QED  BY Zenon, <1>1, <1>2, <1>3, <1>5, <2>1, Inserted
  <1>7. Types' /\ NoDangling'
    <2>1. <<>> \in Seq(Call)
      OBVIOUS
    <2> QED  BY <1>1, <1>2, <1>4, <1>5, <2>1 DEF TInv, Types, NoDangling
  <1>8. FramesOK' /\ \A x \in Data : ~Fired(x)'
    BY Zenon, <1>1, NoFrames
  <1>9. ASSUME NEW x \in Allocated PROVE DataOK(x)'
    <2>1. x \in Data /\ DataOK(x)
      BY <1>2 DEF TInv, DataInv
    <2>2. Held(x)' <=> Held(x)
      BY <1>2, <1>6, <1>8, <2>1 DEF Held
    <2> QED  BY Zenon, <1>1, <1>8, <2>1, <2>2 DEF DataOK, Count
  <1>10. DataInv'
    <2>1. \A x \in Data : timeouting'[x] <=> Fired(x)'
      BY Zenon, <1>1, <1>2, <1>8 DEF TInv, Types, DataInv
    <2> QED  BY Zenon, <1>1, <1>9, <2>1 DEF TInv, DataInv, Allocated
  <1> QED  BY <1>6, <1>7, <1>8, <1>10 DEF TInv

\* Update lets go of data that OnTimeout has cancelled.
LEMMA ReleaseStep ==
    ASSUME TInv, UpdateReturn, ~validate[Running.data]
    PROVE  TInv'
  <1> DEFINE d == Running.data
  <1>1. /\ calls # <<>> /\ Running.fn = "Update" /\ calls' = <<>> /\ ~validate[d]
        /\ timeouting' = [timeouting EXCEPT ![d] = FALSE]
        /\ refCount' = [refCount EXCEPT ![d] = @ - 1]
        /\ fault' = IF refCount[d] = 0 THEN "data freed" ELSE fault
        /\ UNCHANGED <<alive, timerData, used, owner, handle, period, validate, heap, snap, now>>
    BY Zenon DEF UpdateReturn, Touches, ReleaseFired, Release
  <1>2. /\ d \in Allocated /\ d \in Data /\ snap \in Nat /\ Allocated \subseteq Data
        /\ \A x \in Data : Fired(x) <=> x = d
    BY Zenon, <1>1, Firing, DataIsNat DEF TInv, Types
  <1> HIDE DEF d
  <1>3. DataOK(d) /\ Fired(d) /\ ~InHeap(d)
    BY <1>2 DEF TInv, DataInv, DataOK
  <1>4. refCount \in [Data -> Int] /\ refCount[d] # 0
    BY <1>2, <1>3, RefCountPositive DEF TInv, Types, Held
  <1>5. /\ refCount' \in [Data -> Int] /\ refCount'[d] = refCount[d] - 1
        /\ \A x \in Data : x # d => refCount'[x] = refCount[x]
    BY <1>1, <1>2, <1>4
  <1>6. HeapOK' /\ \A x \in Data : InHeap(x)' <=> InHeap(x)
    BY Zenon, <1>1 DEF TInv, HeapOK, InHeap, Allocated
  <1>7. Types' /\ NoDangling'
    <2>1. <<>> \in Seq(Call)
      OBVIOUS
    <2> QED  BY <1>1, <1>2, <1>4, <1>5, <2>1 DEF TInv, Types, NoDangling
  <1>8. FramesOK' /\ \A x \in Data : ~Fired(x)'
    BY Zenon, <1>1, NoFrames
  <1>9. ASSUME NEW x \in Allocated PROVE DataOK(x)'
    <2>1. x \in Data /\ DataOK(x) /\ refCount[x] \in Int
      BY <1>2, <1>4 DEF TInv, DataInv
    <2>2. Held(x)' <=> Held(x) /\ x # d
      BY <1>2, <1>3, <1>6, <1>8, <2>1 DEF Held
    <2>3. refCount'[x] = Count(timerData[owner[x]] = x) + Count(Held(x)')
      <3>1. CASE x = d
        BY <1>3, <1>5, <2>1, <2>2, <3>1 DEF DataOK, Count, Held
      <3>2. CASE x # d
        BY <1>5, <2>1, <2>2, <3>2 DEF DataOK, Count
      <3> QED  BY <3>1, <3>2
    <2>4. validate'[x] => Held(x)' /\ owner'[x] \in alive' /\ timerData'[owner'[x]] = x
      BY Zenon, <1>1, <2>1, <2>2 DEF DataOK
    <2> QED  BY Zenon, <1>1, <1>8, <2>1, <2>3, <2>4 DEF DataOK
  <1>10. DataInv'
    <2>1. \A x \in Data : timeouting'[x] <=> Fired(x)'
      BY Zenon, <1>1, <1>2, <1>8 DEF TInv, Types, DataInv
    <2>2. \A x \in Data \ Allocated : refCount'[x] = 0
      BY <1>2, <1>5 DEF TInv, DataInv
    <2> QED  BY Zenon, <1>1, <1>9, <2>1, <2>2 DEF TInv, DataInv, Allocated
  <1> QED  BY <1>6, <1>7, <1>8, <1>10 DEF TInv

-----------------------------------------------------------------------------
(* OnCancel returns.                                                       *)

\* Returning from a call other than Update fires nothing and ends no firing.
LEMMA ReturnKeepsFired ==
    ASSUME Types, calls # <<>>, calls' = Returned, Running.fn # "Update"
    PROVE  \A x \in Data : Fired(x)' <=> Fired(x)
  <1>1. /\ Len(calls') = Len(calls) - 1 /\ Len(calls) \in Nat \ {0}
        /\ \A k \in 1..Len(calls') : calls'[k] = calls[k]
        /\ Running = calls[Len(calls)]
    BY Popped
  <1>2. \A k \in 1..Len(calls) : calls[k].fn = "Update" => k \in 1..Len(calls')
    BY <1>1
  <1>3. \A k \in 1..Len(calls') : k \in 1..Len(calls)
    BY <1>1
  <1> QED  BY <1>1, <1>2, <1>3 DEF Fired

\* The call that returns, and what the calls below it have to do with it.
LEMMA ReturningCall ==
    ASSUME TInv, calls # <<>>, calls' = Returned
    PROVE  /\ calls' \in Seq(Call) /\ Len(calls') \in Nat /\ Len(calls) \in Nat
           /\ Len(calls') <= Len(calls)
           /\ FrameOK(Len(calls)) /\ Running = calls[Len(calls)] /\ Running \in Call
           /\ \A k \in 1..Len(calls') : /\ calls'[k] = calls[k] /\ k \in 1..Len(calls)
                                        /\ FrameOK(k) /\ PairOK(k, Len(calls))
  <1>1. /\ calls' \in Seq(Call) /\ Len(calls') = Len(calls) - 1 /\ Len(calls) \in Nat \ {0}
        /\ \A k \in 1..Len(calls') : calls'[k] = calls[k]
        /\ Running = calls[Len(calls)] /\ Running \in Call
    BY Popped DEF TInv
  <1>2. Len(calls) \in 1..Len(calls) /\ 1..Len(calls') = 1..(Len(calls) - 1)
    BY <1>1
  <1>3. FrameOK(Len(calls)) /\ \A k \in 1..Len(calls') : PairOK(k, Len(calls))
    BY <1>2 DEF TInv, FramesOK
  <1>4. \A k \in 1..Len(calls') : k \in 1..Len(calls) /\ FrameOK(k)
    BY <1>1 DEF TInv, FramesOK
  <1> QED  BY <1>1, <1>3, <1>4

\* Cancel takes data that is far from its time out of the heap; the timer still
\* refers to it, so it is not deleted.
LEMMA CancelLongStep ==
    ASSUME HeapFacts, TInv, CancelTail, ~timeouting[Running.data], IsLong(Running.data)
    PROVE  TInv'
  <1> DEFINE d == Running.data
             t == Running.timer
             n == Len(calls)
  <1>1. /\ calls # <<>> /\ calls' = Returned /\ Running.fn = "Cancel"
        /\ heap' = DeleteElem(heap, handle, d)
        /\ refCount' = [refCount EXCEPT ![d] = @ - 1]
        /\ timerData' = IF refCount'[d] = 0 THEN [timerData EXCEPT ![t] = Null] ELSE timerData
        /\ fault' = IF refCount[d] = 0 THEN "data freed" ELSE fault
        /\ UNCHANGED <<alive, used, owner, handle, period, validate, timeouting, snap, now>>
    BY Zenon DEF CancelTail, Release, Touches
  <1>2. /\ calls' \in Seq(Call) /\ Len(calls') \in Nat /\ n \in Nat /\ Len(calls') <= n
        /\ FrameOK(n) /\ Running = calls[n]
        /\ \A k \in 1..Len(calls') : calls'[k] = calls[k] /\ FrameOK(k) /\ PairOK(k, n)
    BY Zenon, <1>1, ReturningCall
  <1>3. /\ d \in Allocated /\ owner[d] = t /\ ~validate[d] /\ Held(d) /\ timerData[t] = d
    BY Zenon, <1>1, <1>2 DEF FrameOK
  <1>4. /\ Allocated \subseteq Data /\ d \in Data /\ DataOK(d) /\ InHeap(d)
        /\ refCount \in [Data -> Int]
    BY Zenon, <1>3, DataIsNat DEF TInv, Types, DataInv, Held
  <1> HIDE DEF d, t, n
  <1>5. refCount[d] = 2
    BY <1>3, <1>4 DEF DataOK, Count
  <1>6. /\ refCount' \in [Data -> Int] /\ refCount'[d] = 1
        /\ \A x \in Data : x # d => refCount'[x] = refCount[x]
    BY <1>1, <1>4, <1>5
  <1>7. timerData' = timerData /\ fault' = fault
    BY <1>1, <1>5, <1>6
  <1>8. HeapOK' /\ \A x \in Data : InHeap(x)' <=> InHeap(x) /\ x # d
    <2>1. /\ handle \in [Data -> Nat] /\ heap \in Seq(Data)
          /\ IsInjective(heap) /\ Holds(heap, d)
      BY <1>4 DEF TInv, Types, HeapOK, InHeap, Holds
    <2>2. LET g == DeleteElem(heap, handle, d) IN
          /\ g \in Seq(Data) /\ IsHeap(g, handle) /\ IsInjective(g)
          /\ \A x : Holds(g, x) <=> Holds(heap, x) /\ x # d
      BY <1>4, <2>1 DEF HeapFacts
    <2>3. /\ heap' \in Seq(Data) /\ IsHeap(heap', handle') /\ IsInjective(heap')
          /\ \A x : Holds(heap', x) <=> Holds(heap, x) /\ x # d
      BY Zenon, <1>1, <2>2
    <2>4. \A x \in Data : InHeap(x)' <=> InHeap(x) /\ x # d
      BY Zenon, <2>3 DEF InHeap, Holds
    <2>5. \A x \in Data : InHeap(x)' => x \in Allocated'
      BY Zenon, <1>1, <2>4 DEF TInv, HeapOK, Allocated
    <2> QED  BY <2>3, <2>4, <2>5 DEF HeapOK
  <1>9. \A x \in Data : Fired(x)' <=> Fired(x)
    BY Zenon, <1>1, ReturnKeepsFired DEF TInv
  <1>10. Types' /\ NoDangling'
    BY <1>1, <1>2, <1>6, <1>7 DEF TInv, Types, NoDangling
  <1>11. \A x \in Data : Held(x)' <=> Held(x) /\ x # d
    BY <1>4, <1>8, <1>9 DEF Held, DataOK
  <1>12. ASSUME NEW x \in Allocated PROVE DataOK(x)'
    <2>1. x \in Data /\ DataOK(x) /\ refCount[x] \in Int
      BY <1>4 DEF TInv, DataInv
    <2>2. refCount'[x] = Count(timerData[owner[x]] = x) + Count(Held(x)')
      <3>1. CASE x = d
        BY <1>3, <1>6, <1>11, <2>1, <3>1 DEF Count
      <3>2. CASE x # d
        BY <1>6, <1>11, <2>1, <3>2 DEF DataOK, Count
      <3> QED  BY <3>1, <3>2
    <2>3. validate'[x] => Held(x)' /\ owner'[x] \in alive' /\ timerData'[owner'[x]] = x
      BY Zenon, <1>1, <1>3, <1>7, <1>11, <2>1 DEF DataOK
    <2>4. ~(InHeap(x)' /\ Fired(x)')
      BY <1>8, <1>9, <2>1 DEF DataOK
    <2> QED  BY Zenon, <1>1, <1>7, <2>1, <2>2, <2>3, <2>4 DEF DataOK
  <1>13. DataInv'
    <2>1. \A x \in Data \ Allocated : refCount'[x] = 0
      BY <1>3, <1>6 DEF TInv, DataInv
    <2> QED  BY Zenon, <1>1, <1>7, <1>9, <1>12, <2>1 DEF TInv, DataInv, Allocated
  <1>14. FramesOK'
    <2>1. ASSUME NEW k \in 1..Len(calls') PROVE FrameKept(k)
      <3>1. FrameOK(k) /\ PairOK(k, n) /\ calls[n].fn = "Cancel" /\ calls[n].data = d
        BY Zenon, <1>1, <1>2 DEF d
      <3>2. calls[k].data \in Data
        BY <1>4, <3>1 DEF FrameOK
      <3>3. calls'[k] = calls[k]
        BY <1>2
      <3>4. calls[k].fn = "Cancel" => Held(calls[k].data)'
        BY <1>11, <3>1, <3>2, <3>3 DEF FrameOK, PairOK
      <3>5. IsLong(calls[k].data)' <=> IsLong(calls[k].data)
        BY Zenon, <1>1, <3>3 DEF IsLong
      <3> QED  BY Zenon, <1>1, <1>7, <3>1, <3>4, <3>5 DEF FrameOK, FrameKept, Allocated
    <2>2. Len(calls) \in Nat /\ Len(calls') <= Len(calls) /\ FramesOK
      BY <1>2 DEF n, TInv
    <2> QED  BY <1>2, <2>1, <2>2, FramesKept
  <1> QED  BY <1>8, <1>10, <1>13, <1>14 DEF TInv

\* Otherwise Cancel leaves the data to Update.
LEMMA CancelShortStep ==
    ASSUME TInv, CancelTail, timeouting[Running.data] \/ ~IsLong(Running.data)
    PROVE  TInv'
  <1> DEFINE d == Running.data
             n == Len(calls)
  <1>1. /\ calls # <<>> /\ calls' = Returned /\ Running.fn = "Cancel"
        /\ fault' = IF refCount[d] = 0 THEN "data freed" ELSE fault
        /\ UNCHANGED <<alive, timerData, used, owner, handle, period, validate, timeouting,
                       refCount, heap, snap, now>>
    BY Zenon DEF CancelTail, Touches
  <1>2. /\ calls' \in Seq(Call) /\ Len(calls') \in Nat /\ n \in Nat /\ Len(calls') <= n
        /\ FrameOK(n) /\ Running = calls[n]
        /\ \A k \in 1..Len(calls') : calls'[k] = calls[k] /\ FrameOK(k)
    BY Zenon, <1>1, ReturningCall
  <1>3. d \in Allocated /\ Held(d) /\ Allocated \subseteq Data
    BY Zenon, <1>1, <1>2, DataIsNat DEF FrameOK, TInv, Types
  <1> HIDE DEF d, n
  <1>4. refCount[d] # 0
    BY <1>3, RefCountPositive DEF TInv, Types, DataInv
  <1>5. Types' /\ NoDangling'
    BY <1>1, <1>2, <1>4 DEF TInv, Types, NoDangling
  <1>6. HeapOK' /\ \A x \in Data : InHeap(x)' <=> InHeap(x)
    BY Zenon, <1>1 DEF TInv, HeapOK, InHeap, Allocated
  <1>7. \A x \in Data : (Fired(x)' <=> Fired(x)) /\ (Held(x)' <=> Held(x))
    BY Zenon, <1>1, <1>6, ReturnKeepsFired DEF TInv, Held
  <1>8. DataInv'
    <2>1. ASSUME NEW x \in Allocated PROVE DataOK(x)'
      <3>1. x \in Data /\ DataOK(x)
        BY <1>3 DEF TInv, DataInv
      <3> QED  BY Zenon, <1>1, <1>6, <1>7, <3>1 DEF DataOK, Count
    <2> QED  BY Zenon, <1>1, <1>7, <2>1 DEF TInv, DataInv, Allocated
  <1>9. FramesOK'
    <2>1. ASSUME NEW k \in 1..Len(calls') PROVE FrameKept(k)
      <3>1. FrameOK(k) /\ calls'[k] = calls[k]
        BY <1>2
      <3>2. calls[k].data \in Data
        BY <1>3, <3>1 DEF FrameOK
      <3>3. Held(calls[k].data)' <=> Held(calls[k].data)
        BY <1>7, <3>1, <3>2
      <3>4. IsLong(calls[k].data)' <=> IsLong(calls[k].data)
        BY Zenon, <1>1, <3>1 DEF IsLong
      <3> QED  BY Zenon, <1>1, <3>1, <3>3, <3>4 DEF FrameOK, FrameKept, Allocated
    <2>2. Len(calls) \in Nat /\ Len(calls') <= Len(calls) /\ FramesOK
      BY <1>2 DEF n, TInv
    <2> QED  BY <1>2, <2>1, <2>2, FramesKept
  <1> QED  BY <1>5, <1>6, <1>8, <1>9 DEF TInv

-----------------------------------------------------------------------------
(* Schedule stores new data.                                               *)

\* A call that does not mind if t goes on to other data.
Quiet(t, k) ==
    calls[k].timer = t =>
      calls[k].fn \notin Callers /\ (calls[k].fn = "Cancel" => ~IsLong(calls[k].data))

\* The calls that are left are quiet.
StaysQuiet(t) ==
    /\ calls' \in Seq(Call) /\ Len(calls') \in Nat /\ Len(calls) \in Nat
    /\ Len(calls') <= Len(calls)
    /\ \A k \in 1..Len(calls') : calls'[k] = calls[k] /\ FrameOK(k) /\ Quiet(t, k)
    /\ \A x \in Data : Fired(x)' <=> Fired(x)

\* The program's code calls Schedule, or the destructor, where it may: then
\* no call on the stack minds.
LEMMA QuietCalls ==
    ASSUME TInv, AnyReschedule = FALSE, ProgramRuns, NEW t \in Timers,
           MaySchedule(t) \/ MayDestroy(t)
    PROVE  \A k \in 1..Len(calls) : Quiet(t, k)
  <1> SUFFICES ASSUME NEW k \in 1..Len(calls), calls[k].timer = t
               PROVE  calls[k].fn \notin Callers /\ (calls[k].fn = "Cancel" => ~IsLong(calls[k].data))
    BY DEF Quiet
  <1>1. /\ calls \in Seq(Call) /\ Len(calls) \in Nat \ {0} /\ calls # <<>> /\ FrameOK(k)
    BY DEF TInv, Types, FramesOK
  <1>2. calls[k].fn \in Callers => k < Len(calls) /\ k + 1 \in Cancelling(t)
    <2> HAVE calls[k].fn \in Callers
    <2>1. Running = calls[Len(calls)] /\ Running.fn \notin Callers
      BY <1>1, FrontLemma DEF Running, ProgramRuns, Callers
    <2>2. k < Len(calls)
      BY <1>1, <2>1
    <2> QED  BY <1>1, <2>2 DEF FrameOK, Cancelling
  <1>3. CASE MaySchedule(t)
    <2>1. ASSUME NEW i \in Cancelling(t)
          PROVE  /\ handle[calls[i].data] - now < LongTimeout
                 /\ \A j \in 1..Len(calls) : calls[j].timer = t => calls[j].fn \in {"Update", "Cancel"}
      BY <1>3 DEF MaySchedule
    <2>2. calls[k].fn \notin Callers
      BY <1>2, <2>1 DEF Callers
    <2>3. ASSUME calls[k].fn = "Cancel" PROVE ~IsLong(calls[k].data)
      <3>1. k \in Cancelling(t)
        BY <2>3 DEF Cancelling
      <3>2. handle[calls[k].data] \in Nat /\ now \in Nat /\ LongTimeout \in Nat
        <4>1. /\ used \in 0..MaxData /\ handle \in [Data -> Nat] /\ now \in 0..MaxTime
              /\ calls[k].data \in Allocated
          BY <1>1 DEF FrameOK, TInv, Types
        <4>2. calls[k].data \in Data
          BY <4>1, DataIsNat
        <4> QED  BY <4>1, <4>2, TimerAssumption
      <3> QED  BY <2>1, <3>1, <3>2 DEF IsLong
    <2> QED  BY <2>2, <2>3
  <1>4. CASE MayDestroy(t)
    BY <1>4 DEF MayDestroy, Callers
  <1> QED  BY <1>3, <1>4

\* Nor does a call below the Schedule or the destructor of t.
LEMMA QuietReturn ==
    ASSUME TInv, calls # <<>>, Running.fn \in Callers, calls' = Returned
    PROVE  StaysQuiet(Running.timer)
  <1>1. /\ calls' \in Seq(Call) /\ Len(calls') \in Nat /\ Len(calls) \in Nat
        /\ Len(calls') <= Len(calls) /\ Running = calls[Len(calls)]
        /\ \A k \in 1..Len(calls') : calls'[k] = calls[k] /\ FrameOK(k) /\ PairOK(k, Len(calls))
    BY ReturningCall
  <1>2. \A x \in Data : Fired(x)' <=> Fired(x)
    BY ReturnKeepsFired DEF TInv, Callers
  <1>3. ASSUME NEW k \in 1..Len(calls') PROVE Quiet(Running.timer, k)
    <2>1. PairOK(k, Len(calls)) /\ Running = calls[Len(calls)]
      BY <1>1
    <2> QED  BY <2>1 DEF Quiet, PairOK
  <1> QED  BY <1>1, <1>2, <1>3 DEF StaysQuiet

\* Data that is fired, or in the heap, was allocated.
LEMMA HeldIsAllocated == TInv => \A x \in Data : Held(x) => x \in Allocated
  <1> SUFFICES ASSUME TInv, NEW x \in Data, Held(x) PROVE x \in Allocated
    OBVIOUS
  <1>1. CASE InHeap(x)
    BY <1>1 DEF TInv, HeapOK
  <1>2. CASE Fired(x)
    <2>1. PICK k \in 1..Len(calls) : calls[k].data = x
      BY <1>2 DEF Fired
    <2>2. FrameOK(k)
      BY DEF TInv, FramesOK
    <2> QED  BY <2>1, <2>2 DEF FrameOK
  <1> QED  BY <1>1, <1>2 DEF Held

\* A step that makes t go on to other data keeps the calls that are left.
LEMMA QuietFrames ==
    ASSUME TInv, NEW t \in Timers, StaysQuiet(t), used' \in Nat, used' >= used,
           now' = now, snap' = snap,
           \A u \in Timers : u # t => timerData'[u] = timerData[u] /\ (u \in alive => u \in alive'),
           \A x \in Allocated : /\ owner'[x] = owner[x] /\ handle'[x] = handle[x]
                                /\ validate'[x] = validate[x] /\ (Held(x) => Held(x)')
    PROVE  FramesOK'
  <1>1. ASSUME NEW k \in 1..Len(calls') PROVE FrameKept(k)
    <2>1. calls'[k] = calls[k] /\ FrameOK(k) /\ Quiet(t, k)
      BY Zenon DEF StaysQuiet
    <2>2. PICK x \in Allocated : x = calls[k].data
      BY Zenon, <2>1 DEF FrameOK
    <2>3. /\ owner'[x] = owner[x] /\ handle'[x] = handle[x]
          /\ validate'[x] = validate[x] /\ (Held(x) => Held(x)')
      OBVIOUS
    <2>4. PICK u \in Timers : u = calls[k].timer
      <3>1. calls' \in Seq(Call)
        BY DEF StaysQuiet
      <3>2. calls'[k] \in Call
        BY <3>1
      <3> QED  BY <2>1, <3>2 DEF Call
    <2>5. x \in 1..used'
      <3>1. used \in Nat
        BY DEF TInv, Types
      <3> QED  BY <3>1 DEF Allocated
    <2>6. calls[k].fn = "Cancel" =>
            /\ ~validate'[x] /\ Held(x)'
            /\ IsLong(x)' => IsLong(x) /\ timerData'[u] = x
      <3> HAVE calls[k].fn = "Cancel"
      <3>1. ~validate[x] /\ Held(x) /\ (IsLong(x) => timerData[u] = x) /\ (u = t => ~IsLong(x))
        BY <2>1, <2>2, <2>4 DEF FrameOK, Quiet
      <3>2. IsLong(x)' => IsLong(x)
        BY Zenon, <2>3 DEF IsLong
      <3> QED  BY <2>3, <3>1, <3>2
    <2>7. calls[k].fn \in Callers =>
            timerData'[u] = timerData[u] /\ ~validate'[x] /\ u \in alive'
      BY <2>1, <2>2, <2>3, <2>4 DEF FrameOK, Quiet
    <2>8. calls[k].fn = "Update" => snap' # Null
      BY Zenon, <2>1 DEF FrameOK
    <2>9. calls'[k].data = x
      BY Zenon, <2>1, <2>2
    <2>10. (Held(calls[k].data)' <=> Held(x)') /\ (IsLong(calls[k].data)' <=> IsLong(x)')
      BY Zenon, <2>9 DEF Held, IsLong, InHeap, Fired
    <2> QED  BY Zenon, <2>2, <2>3, <2>4, <2>5, <2>6, <2>7, <2>8, <2>10 DEF FrameKept
  <1> QED  BY <1>1, FramesKept DEF TInv, StaysQuiet

\* The data t had, when t lets go of it.
LEMMA OldData ==
    ASSUME TInv, NEW t \in Timers, timerData[t] # Null, ~Armed(t)
    PROVE  LET o == timerData[t] IN
           /\ o \in Allocated /\ o \in Data /\ owner[o] = t /\ ~validate[o] /\ refCount[o] # 0
  <1> DEFINE o == timerData[t]
  <1>1. o \in Allocated /\ owner[o] = t /\ ~validate[o]
    BY DEF TInv, DataInv, Armed
  <1>2. o \in Data /\ DataOK(o) /\ refCount[o] \in Int
    BY <1>1, DataIsNat DEF TInv, Types, DataInv
  <1>3. timerData[owner[o]] = o
    BY <1>1
  <1> HIDE DEF o
  <1>4. refCount[o] # 0
    BY <1>1, <1>2, <1>3, RefCountPositive
  <1> QED  BY <1>1, <1>2, <1>4 DEF o

\* NewData, with the calls on the stack quiet.
LEMMA StoreStep ==
    ASSUME HeapFacts, TInv, NEW t \in Timers, t \in alive, NEW due \in DueTimes, ~Armed(t),
           NewData(t, due), StaysQuiet(t), used + 1 <= MaxData
    PROVE  TInv'
  <1>0. PICK d \in Nat : d = used + 1
    BY TimerAssumption DEF TInv, Types
  <1> DEFINE o == timerData[t]
             key == [handle EXCEPT ![d] = now + due]
  <1>1. used' = d /\ alive' = alive /\ timeouting' = timeouting /\ snap' = snap /\ now' = now
    BY <1>0 DEF NewData
  <1>20. handle' = key /\ heap' = Insert(heap, key, d)
    BY <1>0 DEF NewData
  <1>21. /\ owner' = [owner EXCEPT ![d] = t] /\ period' = [period EXCEPT ![d] = due]
         /\ validate' = [validate EXCEPT ![d] = TRUE]
         /\ timerData' = [timerData EXCEPT ![t] = d]
    BY <1>0 DEF NewData
  <1>22. /\ refCount' = [DropOldData(refCount, t) EXCEPT ![d] = 2]
         /\ fault' = IF o # Null /\ refCount[o] = 0 THEN "data freed" ELSE fault
    BY Zenon, <1>0 DEF NewData, Touches
  <1>2. /\ used \in Nat /\ d \in Nat /\ d \in Data /\ d \notin Allocated
        /\ Allocated' = Allocated \cup {d} /\ Allocated \subseteq Data
        /\ used' \in 0..MaxData /\ used' \in Nat /\ used' >= used
    <2>1. used \in Nat /\ MaxData \in Nat
      BY TimerAssumption DEF TInv, Types
    <2>2. d <= MaxData
      BY <1>0, <2>1
    <2>3. used' \in 0..MaxData /\ used' >= used /\ d \in 1..MaxData /\ 1..used \subseteq 1..MaxData
      BY <1>0, <1>1, <2>1, <2>2
    <2>4. d \notin 1..used /\ 1..used' = 1..used \cup {d}
      BY <1>0, <1>1, <2>1
    <2> QED  BY <2>1, <2>3, <2>4 DEF Allocated, Data
  <1>3. o = Null \/ (o \in Allocated /\ o \in Data /\ owner[o] = t /\ ~validate[o] /\ refCount[o] # 0)
    BY OldData
  <1>4. key \in [Data -> Nat] /\ \A x \in Data : x # d => key[x] = handle[x]
    <2>1. handle \in [Data -> Nat] /\ now + due \in Nat
      BY TimerAssumption DEF TInv, Types
    <2> QED  BY <1>2, <2>1
  <1>5. ~Held(d) /\ Null \notin Data /\ d # o
    <2>1. ~Held(d)
      BY <1>2, HeldIsAllocated
    <2>2. Null \notin Data
      BY TimerAssumption DEF Data
    <2> QED  BY <1>2, <1>3, <2>1, <2>2
  <1> HIDE DEF o
  <1>6. /\ timerData' \in [Timers -> Data \cup {Null}] /\ timerData'[t] = d
        /\ \A u \in Timers : u # t => timerData'[u] = timerData[u]
    BY <1>2, <1>21 DEF TInv, Types
  <1>7. /\ owner' \in [Data -> Timers \cup {Null}] /\ owner'[d] = t
        /\ period' \in [Data -> Nat] /\ period'[d] = due /\ due # 0
        /\ validate' \in [Data -> BOOLEAN]
        /\ \A x \in Data : x # d => /\ owner'[x] = owner[x] /\ period'[x] = period[x]
                                    /\ validate'[x] = validate[x]
    BY <1>2, <1>21, TimerAssumption DEF TInv, Types
  <1>8. /\ refCount' \in [Data -> Int] /\ refCount'[d] = 2
        /\ \A x \in Data : x # d => refCount'[x] = IF x = o THEN refCount[x] - 1 ELSE refCount[x]
    <2>1. refCount \in [Data -> Int]
      BY DEF TInv, Types
    <2>2. CASE o = Null
      BY <1>2, <1>5, <1>22, <2>1, <2>2 DEF DropOldData, o
    <2>3. CASE o # Null
      <3>0. o \in Data /\ refCount[o] \in Int
        BY Zenon, <1>3, <2>1, <2>3
      <3>1. PICK r : r = [refCount EXCEPT ![o] = refCount[o] - 1]
        OBVIOUS
      <3>2. r \in [Data -> Int] /\ r[o] = refCount[o] - 1 /\ \A x \in Data : x # o => r[x] = refCount[x]
        BY <2>1, <3>0, <3>1
      <3>3. refCount' = [r EXCEPT ![d] = 2]
        BY Zenon, <1>22, <2>3, <3>1 DEF DropOldData, Release, o
      <3> QED  BY <1>2, <3>2, <3>3
    <2> QED  BY <2>2, <2>3
  <1> HIDE DEF key
  <1>9. HeapOK' /\ \A x \in Data : InHeap(x)' <=> InHeap(x) \/ x = d
    <2>1. ~InHeap(d) /\ d \in Allocated' /\ Allocated \subseteq Allocated'
      BY <1>2, <1>5 DEF Held
    <2> QED  BY <1>2, <1>4, <1>20, <2>1, Inserted
  <1>10. \A x \in Data : (Fired(x)' <=> Fired(x)) /\ (Held(x)' <=> Held(x) \/ x = d)
    BY <1>9 DEF StaysQuiet, Held
  <1>11. Types' /\ NoDangling'
    <2>1. fault' = fault
      BY Zenon, <1>3, <1>22
    <2>2. handle' \in [Data -> Nat] /\ calls' \in Seq(Call)
      BY Zenon, <1>4, <1>20 DEF StaysQuiet
    <2> QED  BY <1>1, <1>2, <1>6, <1>7, <1>8, <2>1, <2>2 DEF TInv, Types, NoDangling
  <1>12. DataOK(d)'
    <2>1. Held(d)' /\ ~Fired(d)'
      BY <1>2, <1>5, <1>10 DEF Held
    <2>2. Count(timerData'[owner'[d]] = d) = 1 /\ Count(Held(d)') = 1
      BY <1>6, <1>7, <2>1 DEF Count
    <2>3. validate'[d] => Held(d)' /\ owner'[d] \in alive' /\ timerData'[owner'[d]] = d
      BY <1>1, <1>6, <1>7, <2>1
    <2>4. refCount'[d] = Count(timerData'[owner'[d]] = d) + Count(Held(d)')
      <3>1. refCount'[d] = 2
        BY <1>8
      <3>2. \A a, b : a = 1 /\ b = 1 => a + b = 2
        OBVIOUS
      <3> QED  BY Zenon, <2>2, <3>1, <3>2
    <2>5. owner'[d] \in Timers /\ period'[d] # 0
      BY <1>7
    <2> QED  BY Zenon, <2>1, <2>3, <2>4, <2>5 DEF DataOK
  <1>13. ASSUME NEW x \in Allocated PROVE DataOK(x)'
    <2>1. x \in Data /\ x # d /\ DataOK(x) /\ refCount[x] \in Int /\ owner[x] \in Timers
      BY <1>2 DEF TInv, Types, DataInv, DataOK
    <2>2. /\ owner'[x] = owner[x] /\ period'[x] = period[x] /\ validate'[x] = validate[x]
          /\ refCount'[x] = IF x = o THEN refCount[x] - 1 ELSE refCount[x]
          /\ (Held(x)' <=> Held(x)) /\ (InHeap(x)' <=> InHeap(x)) /\ (Fired(x)' <=> Fired(x))
      BY <1>7, <1>8, <1>9, <1>10, <2>1
    <2>3. timerData'[owner[x]] = x <=> timerData[owner[x]] = x /\ x # o
      <3>1. CASE owner[x] = t
        BY <1>6, <2>1, <3>1 DEF o
      <3>2. CASE owner[x] # t
        <4>1. x # o
          BY <1>3, <1>5, <2>1, <3>2
        <4> QED  BY <1>6, <2>1, <3>2, <4>1
      <3> QED  BY Zenon, <3>1, <3>2
    <2>4. x = o => timerData[owner[x]] = x
      BY <1>3, <1>5, <2>1 DEF o
    <2>5. refCount'[x] = Count(timerData'[owner'[x]] = x) + Count(Held(x)')
      <3>1. refCount[x] = Count(timerData[owner[x]] = x) + Count(Held(x))
        BY <2>1 DEF DataOK
      <3>2. PICK h \in {0, 1} : h = Count(Held(x)) /\ h = Count(Held(x)')
        BY <2>2 DEF Count
      <3>3. CASE x = o
        <4>1. Count(timerData[owner[x]] = x) = 1 /\ Count(timerData'[owner'[x]] = x) = 0
          BY <2>2, <2>3, <2>4, <3>3 DEF Count
        <4>2. refCount[x] = 1 + h /\ refCount'[x] = refCount[x] - 1
          BY Zenon, <2>2, <3>1, <3>2, <3>3, <4>1
        <4>3. refCount'[x] = 0 + h
          BY <4>2
        <4> QED  BY Zenon, <3>2, <4>1, <4>3
      <3>4. CASE x # o
        <4>1. timerData'[owner'[x]] = x <=> timerData[owner[x]] = x
          BY <2>2, <2>3, <3>4
        <4>2. Count(timerData'[owner'[x]] = x) = Count(timerData[owner[x]] = x)
          BY <4>1 DEF Count
        <4> QED  BY Zenon, <2>2, <3>1, <3>2, <3>4, <4>2
      <3> QED  BY <3>3, <3>4
    <2>6. validate'[x] => Held(x)' /\ owner'[x] \in alive' /\ timerData'[owner'[x]] = x
      BY Zenon, <1>1, <1>3, <1>5, <2>1, <2>2, <2>3 DEF DataOK
    <2> QED  BY Zenon, <2>1, <2>2, <2>5, <2>6 DEF DataOK
  <1>14. DataInv'
    <2>1. \A x \in Data \ Allocated' : refCount'[x] = 0
      <3> TAKE x \in Data \ Allocated'
      <3>1. x # d /\ x # o /\ x \notin Allocated
        BY <1>2, <1>3, <1>5
      <3>2. refCount'[x] = refCount[x]
        BY <1>8, <3>1
      <3> QED  BY <3>1, <3>2 DEF TInv, DataInv
    <2>2. \A x \in Data : timeouting'[x] <=> Fired(x)'
      BY <1>1, <1>10 DEF TInv, DataInv
    <2>3. ASSUME NEW u \in Timers, timerData'[u] # Null
          PROVE  timerData'[u] \in Allocated' /\ owner'[timerData'[u]] = u
      <3>1. CASE u = t
        BY <1>2, <1>6, <1>7, <3>1
      <3>2. CASE u # t
        <4>1. timerData[u] \in Allocated /\ owner[timerData[u]] = u
          BY <1>6, <2>3, <3>2 DEF TInv, DataInv
        <4> QED  BY Zenon, <1>2, <1>6, <1>7, <3>2, <4>1
      <3> QED  BY <3>1, <3>2
    <2> QED  BY <1>2, <1>12, <1>13, <2>1, <2>2, <2>3 DEF DataInv
  <1>15. FramesOK'
    <2>1. \A u \in Timers : u # t => timerData'[u] = timerData[u] /\ (u \in alive => u \in alive')
      BY <1>1, <1>6
    <2>2. ASSUME NEW x \in Allocated
          PROVE  /\ owner'[x] = owner[x] /\ handle'[x] = handle[x]
                 /\ validate'[x] = validate[x] /\ (Held(x) => Held(x)')
      BY <1>2, <1>4, <1>7, <1>10, <1>20
    <2> QED  BY Zenon, <1>1, <1>2, <2>1, <2>2, QuietFrames
  <1> QED  BY <1>9, <1>11, <1>14, <1>15 DEF TInv
=============================================================================
