------------------------ MODULE TimerSchedulerProofs ------------------------
(***************************************************************************)
(* Proofs about TimerScheduler, for any timers, times and bounds, as long  *)
(* as OnCancel schedules its own timer only where MaySchedule lets it      *)
(* (AnyReschedule is FALSE): the steps of Schedule, Cancel and the         *)
(* destructor, and the theorems.                                           *)
(***************************************************************************)
EXTENDS TimerStepProofs

\* A leaf that names no prover is tried with SMT, then with Zenon, then once more.
USE SMTT(30), ZenonT(30), SMTT(60)

-----------------------------------------------------------------------------
(* The destructor lets go of the data.                                     *)

\* LetGo, with the calls on the stack quiet.
LEMMA ForgetStep ==
    ASSUME TInv, NEW t \in Timers, ~Armed(t), LetGo(t), fault' = fault, StaysQuiet(t)
    PROVE  TInv'
  <1> DEFINE o == timerData[t]
  <1>1. /\ alive' = alive \ {t} /\ used' = used /\ owner' = owner /\ handle' = handle
        /\ period' = period /\ validate' = validate /\ timeouting' = timeouting
        /\ heap' = heap /\ snap' = snap /\ now' = now
    BY DEF LetGo
  <1>2. timerData' = [timerData EXCEPT ![t] = Null] /\ refCount' = DropOldData(refCount, t)
    BY DEF LetGo
  <1>3. o = Null \/ (o \in Allocated /\ o \in Data /\ owner[o] = t /\ ~validate[o] /\ refCount[o] # 0)
    BY OldData
  <1>4. Null \notin Data /\ Allocated \subseteq Data /\ Allocated' = Allocated
    BY <1>1, TimerAssumption, DataIsNat DEF Data, TInv, Types, Allocated
  <1>5. /\ timerData' \in [Timers -> Data \cup {Null}] /\ timerData'[t] = Null
        /\ \A u \in Timers : u # t => timerData'[u] = timerData[u]
    BY <1>2 DEF TInv, Types
  <1>6. /\ refCount' \in [Data -> Int]
        /\ \A x \in Data : refCount'[x] = IF x = o THEN refCount[x] - 1 ELSE refCount[x]
    <2>1. refCount \in [Data -> Int]
      BY DEF TInv, Types
    <2>2. CASE o = Null
      BY <1>2, <1>4, <2>1, <2>2 DEF DropOldData
    <2>3. CASE o # Null
      <3>1. o \in Data /\ refCount[o] \in Int
        BY <1>3, <2>1, <2>3
      <3>2. refCount' = [refCount EXCEPT ![o] = refCount[o] - 1]
        BY <1>2, <2>3 DEF DropOldData, Release
      <3> HIDE DEF o
      <3> QED  BY <2>1, <3>1, <3>2
    <2> QED  BY <2>2, <2>3
  <1> HIDE DEF o
  <1>7. HeapOK' /\ \A x \in Data : InHeap(x)' <=> InHeap(x)
    BY <1>1, <1>4 DEF TInv, HeapOK, InHeap
  <1>8. \A x \in Data : (Fired(x)' <=> Fired(x)) /\ (Held(x)' <=> Held(x))
    BY <1>7 DEF StaysQuiet, Held
  <1>9. Types' /\ NoDangling'
    <2>1. calls' \in Seq(Call) /\ alive' \subseteq Timers
      BY <1>1 DEF StaysQuiet, TInv, Types
    <2> QED  BY <1>1, <1>5, <1>6, <2>1 DEF TInv, Types, NoDangling
  <1>10. ASSUME NEW x \in Allocated PROVE DataOK(x)'
    <2>1. x \in Data /\ DataOK(x) /\ refCount[x] \in Int /\ owner[x] \in Timers
      BY <1>4 DEF TInv, Types, DataInv, DataOK
    <2>2. timerData'[owner[x]] = x <=> timerData[owner[x]] = x /\ x # o
      <3>1. CASE owner[x] = t
        BY <1>4, <1>5, <2>1, <3>1 DEF o
      <3>2. CASE owner[x] # t
        <4>1. x # o
          BY <1>3, <1>4, <2>1, <3>2
        <4> QED  BY <1>5, <2>1, <3>2, <4>1
      <3> QED  BY <3>1, <3>2
    <2>3. x = o => timerData[owner[x]] = x
      BY <1>3, <1>4, <2>1 DEF o
    <2>4. refCount'[x] = Count(timerData'[owner'[x]] = x) + Count(Held(x)')
      BY <1>1, <1>6, <1>8, <2>1, <2>2, <2>3 DEF DataOK, Count
    <2>5. validate'[x] => Held(x)' /\ owner'[x] \in alive' /\ timerData'[owner'[x]] = x
      <3> HAVE validate'[x]
      <3>1. Held(x) /\ owner[x] \in alive /\ timerData[owner[x]] = x
        BY <1>1, <2>1 DEF DataOK
      <3>2. x # o
        BY <1>1, <1>3, <1>4, <2>1
      <3>3. owner[x] # t
        BY <3>1, <3>2 DEF o
      <3> QED  BY <1>1, <1>8, <2>1, <2>2, <3>1, <3>2, <3>3
    <2> QED  BY <1>1, <1>7, <1>8, <2>1, <2>4, <2>5 DEF DataOK
  <1>11. DataInv'
    <2>1. \A x \in Data \ Allocated : refCount'[x] = 0
      <3> TAKE x \in Data \ Allocated
      <3>1. x # o
        BY <1>3, <1>4
      <3> QED  BY <1>6, <3>1 DEF TInv, DataInv
    <2>2. \A x \in Data : timeouting'[x] <=> Fired(x)'
      BY <1>1, <1>8 DEF TInv, DataInv
    <2>3. \A u \in Timers : timerData'[u] # Null =>
            timerData'[u] \in Allocated /\ owner'[timerData'[u]] = u
      BY <1>1, <1>5 DEF TInv, DataInv
    <2> QED  BY <1>4, <1>10, <2>1, <2>2, <2>3 DEF DataInv
  <1>12. FramesOK'
    <2>1. \A u \in Timers : u # t => timerData'[u] = timerData[u] /\ (u \in alive => u \in alive')
      BY <1>1, <1>5
    <2>2. ASSUME NEW x \in Allocated
          PROVE  /\ owner'[x] = owner[x] /\ handle'[x] = handle[x]
                 /\ validate'[x] = validate[x] /\ (Held(x) => Held(x)')
      BY <1>1, <1>4, <1>8
    <2>3. used' \in Nat /\ used' >= used
      BY <1>1 DEF TInv, Types
    <2> QED  BY <1>1, <2>1, <2>2, <2>3, QuietFrames
  <1> QED  BY <1>7, <1>9, <1>11, <1>12 DEF TInv

-----------------------------------------------------------------------------
(* Cancel calls OnCancel.                                                  *)

\* The stack grows by the call of Cancel for t, and before it by the call of
\* the function that made it, if it is not the program's code.
Pushed(t) ==
    /\ calls' \in Seq(Call) /\ Len(calls) \in Nat
    /\ Len(calls') \in Nat /\ Len(calls') \in {Len(calls) + 1, Len(calls) + 2}
    /\ \A k \in 1..Len(calls) : calls'[k] = calls[k]
    /\ calls'[Len(calls')] = CallOf("Cancel", t, timerData[t], 0)
    /\ Len(calls') = Len(calls) + 2 =>
         /\ \E fn \in Callers, due \in DueTimes \cup {0} :
              /\ calls'[Len(calls) + 1] = CallOf(fn, t, timerData[t], due)
              /\ fn = "Schedule" => due \in DueTimes
         /\ \A k \in 1..Len(calls) : Quiet(t, k)

\* The new calls.
LEMMA PushedCalls ==
    ASSUME NEW t, Pushed(t), NEW d, d = timerData[t]
    PROVE  /\ calls'[Len(calls')].fn = "Cancel" /\ calls'[Len(calls')].timer = t
           /\ calls'[Len(calls')].data = d
           /\ Len(calls') = Len(calls) + 2 =>
                /\ calls'[Len(calls) + 1].fn \in Callers
                /\ calls'[Len(calls) + 1].timer = t /\ calls'[Len(calls) + 1].data = d
                /\ calls'[Len(calls) + 1].fn = "Schedule" => calls'[Len(calls) + 1].due \in DueTimes
           /\ \A k \in 1..Len(calls') : k \in 1..Len(calls) \/ calls'[k].fn \in Callers \cup {"Cancel"}
  <1>1. /\ calls'[Len(calls')].fn = "Cancel" /\ calls'[Len(calls')].timer = t
        /\ calls'[Len(calls')].data = d
    BY DEF Pushed, CallOf
  <1>2. Len(calls') = Len(calls) + 2 =>
          /\ calls'[Len(calls) + 1].fn \in Callers
          /\ calls'[Len(calls) + 1].timer = t /\ calls'[Len(calls) + 1].data = d
          /\ calls'[Len(calls) + 1].fn = "Schedule" => calls'[Len(calls) + 1].due \in DueTimes
    <2> HAVE Len(calls') = Len(calls) + 2
    <2>1. PICK fn \in Callers, due \in DueTimes \cup {0} :
            /\ calls'[Len(calls) + 1] = CallOf(fn, t, timerData[t], due)
            /\ fn = "Schedule" => due \in DueTimes
      BY DEF Pushed
    <2> QED  BY <2>1 DEF CallOf
  <1>3. ASSUME NEW k \in 1..Len(calls') PROVE k \in 1..Len(calls) \/ calls'[k].fn \in Callers \cup {"Cancel"}
    <2>1. Len(calls) \in Nat /\ Len(calls') \in {Len(calls) + 1, Len(calls) + 2}
      BY DEF Pushed
    <2>2. k \in 1..Len(calls) \/ k = Len(calls') \/ (k = Len(calls) + 1 /\ Len(calls') = Len(calls) + 2)
      BY <2>1
    <2> QED  BY <1>1, <1>2, <2>2
  <1> QED  BY <1>1, <1>2, <1>3

\* What each call relies on is there after Cancel has marked the data.
LEMMA PushedFrames ==
    ASSUME TInv, ProgramRuns, NEW t \in Timers, t \in alive, NEW d \in Allocated,
           d = timerData[t], validate[d], owner[d] = t, Held(d), Pushed(t),
           \A x \in Data : Held(x)' <=> Held(x),
           validate' = [validate EXCEPT ![d] = FALSE],
           UNCHANGED <<alive, timerData, used, owner, handle, snap, now>>
    PROVE  FramesOK'
  <1>0. PICK n \in Nat, e \in Nat : n = Len(calls) /\ e = Len(calls')
    BY DEF Pushed
  <1>1. /\ n \in Nat /\ e \in Nat /\ e \in {n + 1, n + 2} /\ calls \in Seq(Call)
        /\ \A k \in 1..n : calls'[k] = calls[k] /\ FrameOK(k)
    BY Zenon, <1>0 DEF Pushed, TInv, Types, FramesOK
  <1>2. /\ calls'[e].fn = "Cancel" /\ calls'[e].timer = t /\ calls'[e].data = d
        /\ e = n + 2 => /\ calls'[n + 1].fn \in Callers
                        /\ calls'[n + 1].timer = t /\ calls'[n + 1].data = d
                        /\ calls'[n + 1].fn = "Schedule" => calls'[n + 1].due \in DueTimes
    BY <1>0, PushedCalls
  <1>3. Allocated' = Allocated /\ Allocated \subseteq Data /\ d \in Data
    BY DataIsNat DEF Allocated, TInv, Types
  <1>4. ~validate'[d] /\ \A x \in Data : ~validate[x] => ~validate'[x]
    BY <1>3 DEF TInv, Types
  <1>5. \A k \in 1..n : calls[k].fn \in Callers => k < n
    <2> SUFFICES ASSUME NEW k \in 1..n, calls[k].fn \in Callers PROVE k < n
      OBVIOUS
    <2>1. calls # <<>> /\ n # 0
      BY <1>0, <1>1
    <2>2. Running = calls[n] /\ Running.fn \notin Callers
      BY <1>0, <1>1, <2>1, FrontLemma DEF Running, ProgramRuns, Callers
    <2> QED  BY <1>1, <2>2
  <1>6. e = n + 2 => \A k \in 1..n : Quiet(t, k)
    BY <1>0 DEF Pushed
  <1>7. ASSUME NEW k \in 1..n PROVE FrameOK(k)'
    <2>1. calls'[k] = calls[k] /\ FrameOK(k) /\ calls[k].data \in Data
      BY <1>1, <1>3 DEF FrameOK
    <2>2. (Held(calls[k].data)' <=> Held(calls[k].data)) /\ (IsLong(calls[k].data)' <=> IsLong(calls[k].data))
      BY <2>1 DEF IsLong
    <2>3. calls[k].fn \in Callers => calls'[k + 1] = calls[k + 1] /\ k < Len(calls)
      BY <1>0, <1>1, <1>5
    <2>4. ~validate[calls[k].data] => ~validate'[calls[k].data]
      BY <1>4, <2>1
    <2> QED  BY <1>3, <2>1, <2>2, <2>3, <2>4 DEF FrameOK
  <1>8. FrameOK(e)'
    <2>1. calls'[e].data \in Allocated' /\ owner'[calls'[e].data] = calls'[e].timer
      BY <1>2, <1>3
    <2>2. ~validate'[calls'[e].data] /\ Held(d)' /\ timerData'[calls'[e].timer] = calls'[e].data
      BY <1>2, <1>3, <1>4
    <2>3. Held(calls[e].data)'
      BY <1>2, <2>2
    <2> QED  BY <1>2, <2>1, <2>2, <2>3 DEF FrameOK, Callers
  <1>9. e = n + 2 => FrameOK(n + 1)'
    <2> HAVE e = n + 2
    <2>1. calls'[n + 1].data \in Allocated' /\ owner'[calls'[n + 1].data] = calls'[n + 1].timer
      BY <1>2, <1>3
    <2>2. /\ ~validate'[calls'[n + 1].data] /\ timerData'[calls'[n + 1].timer] = calls'[n + 1].data
          /\ calls'[n + 1].timer \in alive'
      BY <1>2, <1>3, <1>4
    <2>3. calls'[n + 1 + 1].fn = "Cancel" /\ calls'[n + 1 + 1].timer = calls'[n + 1].timer
      BY <1>1, <1>2
    <2>4. calls'[n + 1].fn # "Update" /\ calls'[n + 1].fn # "Cancel"
      BY <1>2 DEF Callers
    <2> QED  BY <1>2, <2>1, <2>2, <2>3, <2>4 DEF FrameOK
  <1>10. ASSUME NEW j \in 1..e, NEW k \in 1..(j - 1) PROVE PairOK(k, j)'
    <2>1. CASE j \in 1..n
      <3>1. /\ k \in 1..n /\ calls'[k] = calls[k] /\ calls'[j] = calls[j] /\ PairOK(k, j)
        BY <1>0, <1>1, <2>1 DEF TInv, FramesOK
      <3>2. IsLong(calls[k].data)' <=> IsLong(calls[k].data)
        BY <3>1 DEF IsLong
      <3> QED  BY <3>1, <3>2 DEF PairOK
    <2>2. CASE j = n + 1 /\ e = n + 2
      <3>1. /\ k \in 1..n /\ calls'[k] = calls[k] /\ Quiet(t, k)
            /\ calls'[j].fn \in Callers /\ calls'[j].timer = t /\ calls'[j].fn # "Cancel"
        BY <1>1, <1>2, <1>6, <2>2 DEF Callers
      <3>2. IsLong(calls[k].data)' <=> IsLong(calls[k].data)
        BY <3>1 DEF IsLong
      <3> QED  BY <3>1, <3>2 DEF PairOK, Quiet
    <2>3. CASE j = e
      <3>1. calls'[j].fn = "Cancel" /\ calls'[j].data = d /\ calls'[j].fn \notin Callers
        BY <1>2, <2>3 DEF Callers
      <3>2. CASE k \in 1..n
        <4>1. calls'[k] = calls[k] /\ FrameOK(k)
          BY <1>1, <3>2
        <4>2. calls[k].fn = "Cancel" => calls[k].data # d
          BY <4>1 DEF FrameOK
        <4> QED  BY <3>1, <4>1, <4>2 DEF PairOK
      <3>3. CASE k = n + 1 /\ e = n + 2
        <4>1. calls'[k].fn # "Cancel"
          BY <1>2, <3>3 DEF Callers
        <4> QED  BY <3>1, <4>1 DEF PairOK
      <3>4. k \in 1..n \/ (k = n + 1 /\ e = n + 2)
        BY <1>1, <2>3
      <3> QED  BY <3>2, <3>3, <3>4
    <2>4. j \in 1..n \/ (j = n + 1 /\ e = n + 2) \/ j = e
      BY <1>1
    <2> QED  BY <2>1, <2>2, <2>3, <2>4
  <1>11. ASSUME NEW k \in 1..e PROVE FrameOK(k)'
    <2>1. k \in 1..n \/ (k = n + 1 /\ e = n + 2) \/ k = e
      BY <1>1
    <2> QED  BY <1>7, <1>8, <1>9, <2>1
  <1> QED  BY <1>0, <1>10, <1>11 DEF FramesOK

\* Cancel marks the data and calls OnCancel.
LEMMA BeginStep ==
    ASSUME TInv, ProgramRuns, NEW t \in Timers, t \in alive, Armed(t), Pushed(t),
           validate' = [validate EXCEPT ![timerData[t]] = FALSE], Touches(timerData[t]),
           UNCHANGED <<alive, timerData, used, owner, handle, period, timeouting,
                       refCount, heap, snap, now>>
    PROVE  TInv'
  <1>1. PICK d \in Allocated : d = timerData[t]
    BY DEF TInv, DataInv, Armed
  <1>2. /\ validate[d] /\ owner[d] = t /\ DataOK(d) /\ Held(d) /\ d \in Data
        /\ Allocated \subseteq Data /\ Allocated' = Allocated
    BY <1>1, DataIsNat DEF TInv, DataInv, Types, Armed, DataOK, Allocated
  <1>3. fault' = fault
    BY Zenon, <1>1, <1>2, RefCountPositive DEF Touches, TInv, Types
  <1>4. /\ validate' \in [Data -> BOOLEAN] /\ validate' = [validate EXCEPT ![d] = FALSE]
        /\ \A x \in Data : validate'[x] => validate[x]
    BY <1>1, <1>2 DEF TInv, Types
  <1>5. \A x \in Data : Fired(x)' <=> Fired(x)
    <2>1. /\ Len(calls) \in Nat /\ Len(calls') \in Nat /\ Len(calls) <= Len(calls')
          /\ \A k \in 1..Len(calls) : calls'[k] = calls[k]
      BY DEF Pushed
    <2>2. \A k \in 1..Len(calls') : k \in 1..Len(calls) \/ calls'[k].fn # "Update"
      BY PushedCalls DEF Callers
    <2>3. \A k \in 1..Len(calls) : k \in 1..Len(calls')
      BY <2>1
    <2> QED  BY <2>1, <2>2, <2>3 DEF Fired
  <1>6. HeapOK' /\ \A x \in Data : InHeap(x)' <=> InHeap(x)
    BY <1>2 DEF TInv, HeapOK, InHeap
  <1>7. \A x \in Data : Held(x)' <=> Held(x)
    BY <1>5, <1>6 DEF Held
  <1>8. Types' /\ NoDangling'
    <2>1. calls' \in Seq(Call)
      BY DEF Pushed
    <2> QED  BY <1>3, <1>4, <2>1 DEF TInv, Types, NoDangling
  <1>9. DataInv'
    <2>1. ASSUME NEW x \in Allocated PROVE DataOK(x)'
      <3>1. x \in Data /\ DataOK(x)
        BY <1>2 DEF TInv, DataInv
      <3> QED  BY <1>4, <1>5, <1>6, <1>7, <3>1 DEF DataOK, Count
    <2> QED  BY <1>2, <1>5, <2>1 DEF TInv, DataInv
  <1>10. FramesOK'
    BY Zenon, <1>1, <1>2, <1>4, <1>7, PushedFrames
  <1> QED  BY <1>6, <1>8, <1>9, <1>10 DEF TInv

\* One call, or two, on top of the stack.
LEMMA OnTop ==
    ASSUME NEW S, NEW s \in Seq(S), NEW a \in S, NEW b \in S
    PROVE  /\ s \o <<>> \o <<b>> \in Seq(S) /\ Len(s \o <<>> \o <<b>>) = Len(s) + 1
           /\ \A k \in 1..Len(s) : (s \o <<>> \o <<b>>)[k] = s[k]
           /\ (s \o <<>> \o <<b>>)[Len(s) + 1] = b
           /\ s \o <<a>> \o <<b>> \in Seq(S) /\ Len(s \o <<a>> \o <<b>>) = Len(s) + 2
           /\ \A k \in 1..Len(s) : (s \o <<a>> \o <<b>>)[k] = s[k]
           /\ (s \o <<a>> \o <<b>>)[Len(s) + 1] = a /\ (s \o <<a>> \o <<b>>)[Len(s) + 2] = b
  <1>1. ASSUME NEW q \in Seq(S), NEW c \in S
        PROVE  /\ q \o <<c>> \in Seq(S) /\ Len(q \o <<c>>) = Len(q) + 1
               /\ \A k \in 1..Len(q) : (q \o <<c>>)[k] = q[k]
               /\ (q \o <<c>>)[Len(q) + 1] = c
    OBVIOUS
  <1>2. s \o <<>> = s
    OBVIOUS
  <1>3. PICK q \in Seq(S) : q = s \o <<a>>
    BY <1>1
  <1>4. /\ Len(s) \in Nat /\ Len(q) = Len(s) + 1 /\ q[Len(s) + 1] = a
        /\ \A k \in 1..Len(s) : q[k] = s[k]
    BY <1>1, <1>3
  <1>5. /\ q \o <<b>> \in Seq(S) /\ Len(q \o <<b>>) = Len(q) + 1
        /\ \A k \in 1..Len(q) : (q \o <<b>>)[k] = q[k]
        /\ (q \o <<b>>)[Len(q) + 1] = b
    BY <1>1
  <1>6. /\ q \o <<b>> \in Seq(S) /\ Len(q \o <<b>>) = Len(s) + 2
        /\ \A k \in 1..Len(s) : (q \o <<b>>)[k] = s[k]
        /\ (q \o <<b>>)[Len(s) + 1] = a /\ (q \o <<b>>)[Len(s) + 2] = b
    BY <1>4, <1>5
  <1>7. /\ s \o <<b>> \in Seq(S) /\ Len(s \o <<b>>) = Len(s) + 1
        /\ \A k \in 1..Len(s) : (s \o <<b>>)[k] = s[k]
        /\ (s \o <<b>>)[Len(s) + 1] = b
    BY <1>1
  <1> QED  BY <1>2, <1>3, <1>6, <1>7

\* The stack keeps its length and its calls when Schedule or the destructor
\* find nothing to cancel.
LEMMA QuietStack ==
    ASSUME TInv, AnyReschedule = FALSE, ProgramRuns, NEW t \in Timers,
           MaySchedule(t) \/ MayDestroy(t), calls' = calls
    PROVE  StaysQuiet(t)
  <1>1. calls \in Seq(Call) /\ Len(calls) \in Nat
    BY DEF TInv, Types
  <1>2. \A k \in 1..Len(calls) : FrameOK(k) /\ Quiet(t, k)
    BY Zenon, QuietCalls DEF TInv, FramesOK
  <1>3. \A x \in Data : Fired(x)' <=> Fired(x)
    BY DEF Fired
  <1> QED  BY <1>1, <1>2, <1>3 DEF StaysQuiet

\* The calls that Cancel and its callers push are calls.
LEMMA CallsTyped ==
    ASSUME TInv, NEW t \in Timers, Armed(t), NEW due \in DueTimes \cup {0},
           NEW fn \in {"Update", "Cancel", "Schedule", "Destroy"}
    PROVE  CallOf(fn, t, timerData[t], due) \in Call
  <1>1. timerData[t] \in Data
    BY DEF TInv, Types, Armed
  <1> QED  BY <1>1 DEF CallOf, Call

\* Cancel by itself.
LEMMA PushOne ==
    ASSUME TInv, NEW t \in Timers, Armed(t), BeginCancel(t, <<>>)
    PROVE  Pushed(t) /\ calls'[Len(calls) + 1].fn = "Cancel"
  <1>1. PICK c \in Call : c = CallOf("Cancel", t, timerData[t], 0)
    BY CallsTyped
  <1>2. calls \in Seq(Call) /\ Len(calls) \in Nat /\ calls' = calls \o <<>> \o <<c>>
    BY <1>1 DEF TInv, Types, BeginCancel
  <1>3. /\ calls' \in Seq(Call) /\ Len(calls') = Len(calls) + 1
        /\ \A k \in 1..Len(calls) : calls'[k] = calls[k]
        /\ calls'[Len(calls) + 1] = c
    BY <1>2, OnTop
  <1>4. Pushed(t)
    BY <1>1, <1>2, <1>3 DEF Pushed
  <1>5. c.fn = "Cancel"
    BY <1>1 DEF CallOf
  <1> QED  BY <1>3, <1>4, <1>5

\* Cancel, called by Schedule or by the destructor.
LEMMA PushTwo ==
    ASSUME TInv, NEW t \in Timers, Armed(t), NEW fn \in Callers, NEW due \in DueTimes \cup {0},
           fn = "Schedule" => due \in DueTimes, \A k \in 1..Len(calls) : Quiet(t, k),
           BeginCancel(t, <<CallOf(fn, t, timerData[t], due)>>)
    PROVE  Pushed(t) /\ calls'[Len(calls) + 1].fn = fn
  <1>1. PICK c \in Call : c = CallOf("Cancel", t, timerData[t], 0)
    BY CallsTyped
  <1>2. PICK b \in Call : b = CallOf(fn, t, timerData[t], due)
    BY CallsTyped DEF Callers
  <1>3. calls \in Seq(Call) /\ Len(calls) \in Nat /\ calls' = calls \o <<b>> \o <<c>>
    BY <1>1, <1>2 DEF TInv, Types, BeginCancel
  <1>4. /\ calls' \in Seq(Call) /\ Len(calls') = Len(calls) + 2
        /\ \A k \in 1..Len(calls) : calls'[k] = calls[k]
        /\ calls'[Len(calls) + 1] = b /\ calls'[Len(calls) + 2] = c
    BY <1>3, OnTop
  <1>5. Pushed(t)
    <2>1. \E f \in Callers, u \in DueTimes \cup {0} :
              /\ calls'[Len(calls) + 1] = CallOf(f, t, timerData[t], u)
              /\ f = "Schedule" => u \in DueTimes
      BY <1>2, <1>4
    <2> QED  BY <1>1, <1>3, <1>4, <2>1 DEF Pushed
  <1>6. b.fn = fn
    BY <1>2 DEF CallOf
  <1> QED  BY <1>4, <1>5, <1>6

-----------------------------------------------------------------------------
(* Every step keeps the invariant.                                         *)

\* Schedule of an armed timer pushes itself and Cancel; of another, it stores
\* new data at once.
LEMMA ScheduleStep ==
    ASSUME HeapFacts, TInv, AnyReschedule = FALSE, used + 1 <= MaxData,
           NEW t \in Timers, NEW due \in DueTimes, Schedule(t, due)
    PROVE  TInv'
  <1>1. ProgramRuns /\ t \in alive /\ MaySchedule(t)
    BY DEF Schedule
  <1>2. CASE Armed(t)
    <2>1. /\ BeginCancel(t, <<CallOf("Schedule", t, timerData[t], due)>>)
          /\ Touches(timerData[t])
      BY <1>2 DEF Schedule
    <2>2. \A k \in 1..Len(calls) : Quiet(t, k)
      BY Zenon, <1>1, QuietCalls
    <2>3. Pushed(t)
      BY <1>2, <2>1, <2>2, PushTwo DEF Callers
    <2> QED  BY Zenon, <1>1, <1>2, <2>1, <2>3, BeginStep DEF BeginCancel
  <1>3. CASE ~Armed(t)
    <2>1. NewData(t, due) /\ calls' = calls
      BY <1>3 DEF Schedule
    <2>2. StaysQuiet(t)
      BY Zenon, <1>1, <2>1, QuietStack
    <2> QED  BY <1>1, <1>3, <2>1, <2>2, StoreStep
  <1> QED  BY <1>2, <1>3

\* What Schedule and the destructor find when their Cancel has returned.
LEMMA AfterCancel ==
    ASSUME TInv, calls # <<>>, Running.fn \in Callers
    PROVE  /\ Running.timer \in Timers /\ Running.timer \in alive /\ ~Armed(Running.timer)
           /\ timerData[Running.timer] # Null
           /\ Running.fn = "Schedule" => Running.due \in DueTimes
  <1>1. /\ calls \in Seq(Call) /\ Len(calls) \in 1..Len(calls)
    BY DEF TInv, Types
  <1>2. Running = calls[Len(calls)] /\ Running \in Call
    BY <1>1, FrontLemma DEF Running
  <1>3. FrameOK(Len(calls))
    BY <1>1 DEF TInv, FramesOK
  <1>4. /\ timerData[Running.timer] = Running.data /\ ~validate[Running.data]
        /\ Running.timer \in alive /\ (Running.fn = "Schedule" => Running.due \in DueTimes)
    BY <1>2, <1>3 DEF FrameOK
  <1>5. Running.timer \in Timers /\ Running.data \in Data
    BY <1>2 DEF Call
  <1>6. Running.data # Null
    BY Zenon, <1>5, DataIsNat, TimerAssumption
  <1> QED  BY <1>4, <1>5, <1>6 DEF Armed

\* Schedule goes on after its Cancel.
LEMMA ScheduleTailStep ==
    ASSUME HeapFacts, TInv, used + 1 <= MaxData, ScheduleTail
    PROVE  TInv'
  <1>1. /\ calls # <<>> /\ Running.fn = "Schedule" /\ Running.fn \in Callers /\ calls' = Returned
        /\ NewData(Running.timer, Running.due)
    BY DEF ScheduleTail, Callers
  <1>2. PICK t \in Timers, due \in DueTimes : t = Running.timer /\ due = Running.due
    BY <1>1, AfterCancel
  <1>3. t \in alive /\ ~Armed(t)
    BY <1>1, <1>2, AfterCancel
  <1>4. StaysQuiet(t)
    BY <1>1, <1>2, QuietReturn
  <1>5. NewData(t, due)
    BY <1>1, <1>2
  <1> QED  BY <1>3, <1>4, <1>5, StoreStep

\* Cancel pushes its call of OnCancel.
LEMMA CancelStep ==
    ASSUME TInv, NEW t \in Timers, Cancel(t)
    PROVE  TInv'
  <1>1. /\ ProgramRuns /\ t \in alive /\ Armed(t)
        /\ BeginCancel(t, <<>>) /\ Touches(timerData[t])
    BY DEF Cancel
  <1>2. Pushed(t)
    BY <1>1, PushOne
  <1> QED  BY Zenon, <1>1, <1>2, BeginStep DEF BeginCancel

\* The destructor of an armed timer pushes itself and Cancel.
LEMMA DestroyStep ==
    ASSUME TInv, AnyReschedule = FALSE, NEW t \in Timers, Destroy(t)
    PROVE  TInv'
  <1>1. ProgramRuns /\ t \in alive /\ MayDestroy(t)
    BY DEF Destroy
  <1>2. CASE Armed(t)
    <2>1. /\ BeginCancel(t, <<CallOf("Destroy", t, timerData[t], 0)>>)
          /\ Touches(timerData[t])
      BY <1>2 DEF Destroy
    <2>2. \A k \in 1..Len(calls) : Quiet(t, k)
      BY Zenon, <1>1, QuietCalls
    <2>3. Pushed(t)
      BY <1>2, <2>1, <2>2, PushTwo DEF Callers
    <2> QED  BY Zenon, <1>1, <1>2, <2>1, <2>3, BeginStep DEF BeginCancel
  <1>3. CASE ~Armed(t)
    <2>1. /\ LetGo(t) /\ calls' = calls
          /\ IF timerData[t] = Null THEN UNCHANGED fault ELSE Touches(timerData[t])
      BY <1>3 DEF Destroy
    <2>2. StaysQuiet(t)
      BY Zenon, <1>1, <2>1, QuietStack
    <2>3. fault' = fault
      BY Zenon, <1>3, <2>1, OldData DEF Touches
    <2> QED  BY <1>3, <2>1, <2>2, <2>3, ForgetStep
  <1> QED  BY <1>2, <1>3

\* The destructor goes on after its Cancel.
LEMMA DestroyTailStep ==
    ASSUME TInv, DestroyTail
    PROVE  TInv'
  <1>1. /\ calls # <<>> /\ Running.fn = "Destroy" /\ Running.fn \in Callers /\ calls' = Returned
    BY Zenon DEF DestroyTail, Callers
  <1>2. PICK t \in Timers : t = Running.timer
    BY <1>1, AfterCancel
  <1>3. ~Armed(t) /\ timerData[t] # Null
    BY <1>1, <1>2, AfterCancel
  <1>4. LetGo(t) /\ Touches(timerData[t])
    BY <1>2, <1>3 DEF DestroyTail
  <1>5. StaysQuiet(t)
    BY <1>1, <1>2, QuietReturn
  <1>6. fault' = fault
    BY Zenon, <1>3, <1>4, OldData DEF Touches
  <1> QED  BY <1>3, <1>4, <1>5, <1>6, ForgetStep

\* Every step of the program, of a call that returns and of Update.
LEMMA NextStep ==
    ASSUME HeapFacts, TInv, AnyReschedule = FALSE, [Next]_vars,
           ScheduleTail \/ (\E t \in Timers, due \in DueTimes : Schedule(t, due))
             => used + 1 <= MaxData
    PROVE  TInv'
  <1>1. CASE Program
    BY Zenon, <1>1, ScheduleStep, CancelStep, DestroyStep DEF Program
  <1>2. CASE ScheduleTail
    BY <1>2, ScheduleTailStep
  <1>3. CASE CancelTail
    BY <1>3, CancelLongStep, CancelShortStep
  <1>4. CASE DestroyTail
    BY <1>4, DestroyTailStep
  <1>5. CASE UpdateReturn
    BY <1>5, RearmStep, ReleaseStep
  <1>6. CASE UpdateBegin \/ UpdateEnd \/ Tick
    BY <1>6, IdleSteps
  <1>7. CASE UpdateDrop
    BY <1>7, DropStep
  <1>8. CASE UpdateFire
    BY <1>8, FireStep
  <1>9. CASE UNCHANGED vars
    <2>1. Idle /\ now' = now /\ snap' = snap
      BY <1>9 DEF vars, Idle
    <2>2. now \in 0..MaxTime /\ now >= now /\ snap \in Nat \cup {Null}
      BY TimerAssumption DEF TInv, Types
    <2> QED  BY <2>1, <2>2, IdleStep
  <1> QED  BY <1>1, <1>2, <1>3, <1>4, <1>5, <1>6, <1>7, <1>8, <1>9
           DEF Next, Returns, UpdateLoop

\* Only the end of its loop ends an Update.
LEMMA OnlyEndEnds ==
    ASSUME Next, snap # Null, snap' = Null
    PROVE  UpdateEnd
  <1>1. CASE Program
    BY Zenon, <1>1 DEF Program, Schedule, Cancel, Destroy, BeginCancel, NewData, LetGo
  <1>2. CASE Returns
    BY Zenon, <1>2 DEF Returns, ScheduleTail, CancelTail, DestroyTail, UpdateReturn, NewData, LetGo
  <1>3. CASE UpdateBegin \/ UpdateDrop \/ UpdateFire \/ Tick
    BY Zenon, <1>3 DEF UpdateBegin, UpdateDrop, UpdateFire, Tick
  <1> QED  BY <1>1, <1>2, <1>3 DEF Next, UpdateLoop

-----------------------------------------------------------------------------
(* Counting the owners of data, and the calls of Schedule that wait.       *)

INSTANCE FiniteSetTheorems

\* Only the timer that owns data refers to it.
LEMMA OwnersCounted == TInv => RefCountIsOwners
  <1> SUFFICES ASSUME TInv, NEW d \in Allocated
               PROVE  refCount[d] = Cardinality({t \in Timers : timerData[t] = d})
                                      + Count(InHeap(d)) + Count(Fired(d))
    BY DEF RefCountIsOwners
  <1> DEFINE T == {t \in Timers : timerData[t] = d}
  <1>1. d \in Data /\ d # Null
    BY TimerAssumption DEF TInv, Types, Data, Allocated
  <1>2. DataOK(d)
    BY DEF TInv, DataInv
  <1>3. \A t \in T : t = owner[d]
    BY <1>1 DEF TInv, DataInv
  <1>4. Cardinality(T) = Count(timerData[owner[d]] = d)
    <2>1. CASE timerData[owner[d]] = d
      <3>1. T = {owner[d]}
        BY <1>2, <1>3, <2>1 DEF DataOK
      <3> QED BY <2>1, <3>1, FS_Singleton DEF Count
    <2>2. CASE timerData[owner[d]] # d
      <3>1. T = {}
        BY <1>3, <2>2
      <3> QED BY <2>2, <3>1, FS_EmptySet DEF Count
    <2> QED BY <2>1, <2>2
  <1>5. Count(Held(d)) = Count(InHeap(d)) + Count(Fired(d))
    BY <1>2 DEF DataOK, Held, Count
  <1>6. Count(timerData[owner[d]] = d) \in Nat /\ Count(InHeap(d)) \in Nat /\ Count(Fired(d)) \in Nat
    BY DEF Count
  <1> HIDE DEF T
  <1>7. refCount[d] = Count(timerData[owner[d]] = d) + Count(Held(d))
    BY <1>2 DEF DataOK
  <1> QED  BY <1>4, <1>5, <1>6, <1>7 DEF T

\* Data is left for the calls of Schedule that have not returned.
Pending == {k \in 1..Len(calls) : calls[k].fn = "Schedule"}
RoomOK == used + Cardinality(Pending) <= MaxData

Inv == TInv /\ RoomOK

\* The calls of Schedule that have not returned are finitely many.
LEMMA PendingIsFinite ==
    ASSUME calls \in Seq(Call)
    PROVE  IsFiniteSet(Pending) /\ Cardinality(Pending) \in Nat
  <1>1. Len(calls) \in Nat
    OBVIOUS
  <1>2. IsFiniteSet(1..Len(calls)) /\ Pending \subseteq 1..Len(calls)
    BY <1>1, FS_Interval DEF Pending
  <1> QED  BY Zenon, <1>2, FS_Subset, FS_CardinalityType

\* The pending calls of Schedule after a return.
LEMMA ReturnPending ==
    ASSUME Types, calls # <<>>, calls' = Returned
    PROVE  /\ Cardinality(Pending) \in Nat /\ Cardinality(Pending') \in Nat
           /\ IF Running.fn = "Schedule"
                THEN Cardinality(Pending') = Cardinality(Pending) - 1
                ELSE Pending' = Pending
  <1> DEFINE n == Len(calls)
  <1>1. /\ Len(calls') = n - 1 /\ n \in Nat \ {0}
        /\ \A k \in 1..Len(calls') : calls'[k] = calls[k]
        /\ Running = calls[n]
    BY Popped
  <1>2. IsFiniteSet(Pending) /\ Cardinality(Pending) \in Nat
    <2>1. IsFiniteSet(1..n) /\ Pending \subseteq 1..n
      BY <1>1, FS_Interval DEF Pending
    <2> QED  BY Zenon, <2>1, FS_Subset, FS_CardinalityType
  <1>3. Pending' = {k \in 1..(n - 1) : calls[k].fn = "Schedule"}
    BY <1>1 DEF Pending
  <1>4. CASE Running.fn = "Schedule"
    <2>1. n \in Pending /\ Pending' = Pending \ {n}
      BY <1>1, <1>3, <1>4 DEF Pending
    <2> HIDE DEF n
    <2> QED  BY <1>2, <1>4, <2>1, FS_RemoveElement, FS_CardinalityType
  <1>5. CASE Running.fn # "Schedule"
    <2>1. \A k \in 1..n : calls[k].fn = "Schedule" => k \in 1..(n - 1)
      BY <1>1, <1>5
    <2>2. 1..(n - 1) \subseteq 1..n
      BY <1>1
    <2>3. Pending' = Pending
      BY <1>3, <2>1, <2>2 DEF Pending
    <2> QED  BY <1>2, <1>5, <2>3
  <1> QED  BY <1>2, <1>4, <1>5

\* At most one more call of Schedule waits after Cancel was called.
LEMMA PushedPending ==
    ASSUME TInv, NEW t, Pushed(t)
    PROVE  /\ Cardinality(Pending) \in Nat /\ Cardinality(Pending') \in Nat
           /\ Cardinality(Pending') <= Cardinality(Pending) + 1
           /\ calls'[Len(calls) + 1].fn # "Schedule" => Pending' = Pending
  <1>1. calls \in Seq(Call) /\ calls' \in Seq(Call) /\ Len(calls) \in Nat
    BY DEF TInv, Types, Pushed
  <1>2. PICK m \in Nat : m = Len(calls) + 1
    BY <1>1
  <1>3. IsFiniteSet(Pending) /\ Cardinality(Pending) \in Nat
    BY <1>1, PendingIsFinite
  <1>4. \A k : k \in Pending' <=> k \in Pending \/ (k = m /\ calls'[m].fn = "Schedule")
    <2>1. /\ Len(calls') \in {m, m + 1} /\ calls'[Len(calls')].fn = "Cancel"
          /\ \A k \in 1..Len(calls) : calls'[k] = calls[k]
      BY <1>1, <1>2 DEF Pushed, CallOf
    <2> QED  BY <1>1, <1>2, <2>1 DEF Pending
  <1>5. m \notin Pending
    BY <1>1, <1>2 DEF Pending
  <1>6. CASE calls'[m].fn = "Schedule"
    <2>1. Pending' = Pending \cup {m}
      BY <1>4, <1>6
    <2>2. Cardinality(Pending') = Cardinality(Pending) + 1
      BY <1>3, <1>5, <2>1, FS_AddElement
    <2> QED  BY <1>2, <1>3, <1>6, <2>2
  <1>7. CASE calls'[m].fn # "Schedule"
    <2>1. Pending' = Pending
      BY <1>4, <1>7
    <2> QED  BY <1>3, <2>1
  <1> QED  BY <1>6, <1>7

\* At first no Schedule waits.
LEMMA InitRoom == Init => RoomOK
  <1> SUFFICES ASSUME Init PROVE RoomOK
    OBVIOUS
  <1>1. Pending = {}
    BY DEF Pending, Init
  <1>2. used = 0 /\ MaxData \in Nat
    BY TimerAssumption DEF Init
  <1> QED  BY <1>1, <1>2, FS_EmptySet DEF RoomOK

\* Schedule finds data that is not in use.
LEMMA HasRoom ==
    ASSUME TInv, RoomOK,
           ScheduleTail \/ (\E t \in Timers, due \in DueTimes : Schedule(t, due))
    PROVE  used + 1 <= MaxData
  <1>1. used \in Nat /\ MaxData \in Nat /\ calls \in Seq(Call)
    BY TimerAssumption DEF TInv, Types
  <1>2. Cardinality(Pending) \in Nat
    BY <1>1, PendingIsFinite
  <1>3. CASE ScheduleTail
    <2>1. calls # <<>> /\ Running.fn = "Schedule" /\ calls' = Returned
      BY <1>3 DEF ScheduleTail
    <2>2. Cardinality(Pending') \in Nat /\ Cardinality(Pending') = Cardinality(Pending) - 1
      BY <2>1, ReturnPending DEF TInv
    <2> QED  BY <1>1, <1>2, <2>2 DEF RoomOK
  <1>4. CASE \E t \in Timers, due \in DueTimes : Schedule(t, due)
    <2>1. used + Cardinality(Pending) < MaxData
      BY <1>4 DEF Schedule, WithinBounds, Pending
    <2> QED  BY <1>1, <1>2, <2>1
  <1> QED  BY <1>3, <1>4

\* What Schedule stores at once, and what it leaves to its tail, fits.
LEMMA ScheduleRoom ==
    ASSUME TInv, AnyReschedule = FALSE, NEW t \in Timers, NEW due \in DueTimes, Schedule(t, due)
    PROVE  RoomOK'
  <1>0. used + Cardinality(Pending) < MaxData /\ ProgramRuns /\ MaySchedule(t)
    BY Zenon DEF Schedule, WithinBounds, Pending
  <1>1. /\ used \in Nat /\ MaxData \in Nat /\ calls \in Seq(Call)
        /\ used + Cardinality(Pending) < MaxData /\ ProgramRuns /\ MaySchedule(t)
    BY <1>0, TimerAssumption DEF TInv, Types
  <1>2. Cardinality(Pending) \in Nat
    BY <1>1, PendingIsFinite
  <1>3. CASE Armed(t)
    <2>1. used' = used /\ BeginCancel(t, <<CallOf("Schedule", t, timerData[t], due)>>)
      BY <1>3 DEF Schedule, BeginCancel
    <2>2. \A k \in 1..Len(calls) : Quiet(t, k)
      BY Zenon, <1>1, QuietCalls
    <2>3. Pushed(t)
      BY <1>3, <2>1, <2>2, PushTwo DEF Callers
    <2>4. Cardinality(Pending') \in Nat /\ Cardinality(Pending') <= Cardinality(Pending) + 1
      BY <2>3, PushedPending
    <2> QED  BY <1>1, <1>2, <2>1, <2>4 DEF RoomOK
  <1>4. CASE ~Armed(t)
    <2>1. used' = used + 1 /\ calls' = calls
      BY <1>4 DEF Schedule, NewData
    <2>2. Pending' = Pending
      BY <2>1 DEF Pending
    <2> QED  BY <1>1, <1>2, <2>1, <2>2 DEF RoomOK
  <1> QED  BY <1>3, <1>4

\* Cancel and the destructor leave the waiting calls of Schedule as they are.
LEMMA CancelRoom ==
    ASSUME TInv, RoomOK, AnyReschedule = FALSE, NEW t \in Timers, Cancel(t) \/ Destroy(t)
    PROVE  RoomOK'
  <1>1. used' = used
    BY Zenon DEF Cancel, Destroy, BeginCancel, LetGo
  <1>2. CASE Cancel(t)
    <2>1. Armed(t) /\ BeginCancel(t, <<>>)
      BY <1>2 DEF Cancel
    <2>2. Pushed(t) /\ calls'[Len(calls) + 1].fn = "Cancel"
      BY <2>1, PushOne
    <2>3. Pending' = Pending
      BY <2>2, PushedPending
    <2> QED  BY <1>1, <2>3 DEF RoomOK
  <1>3. CASE Destroy(t) /\ Armed(t)
    <2>1. /\ ProgramRuns /\ MayDestroy(t)
          /\ BeginCancel(t, <<CallOf("Destroy", t, timerData[t], 0)>>)
      BY <1>3 DEF Destroy
    <2>2. \A k \in 1..Len(calls) : Quiet(t, k)
      BY Zenon, <2>1, QuietCalls
    <2>3. Pushed(t) /\ calls'[Len(calls) + 1].fn = "Destroy"
      BY <1>3, <2>1, <2>2, PushTwo DEF Callers
    <2>4. Pending' = Pending
      BY <2>3, PushedPending
    <2> QED  BY <1>1, <2>4 DEF RoomOK
  <1>4. CASE Destroy(t) /\ ~Armed(t)
    <2>1. Pending' = Pending
      BY <1>4 DEF Destroy, Pending
    <2> QED  BY <1>1, <2>1 DEF RoomOK
  <1> QED  BY <1>2, <1>3, <1>4

\* A call that returns leaves room for those that wait.
LEMMA ReturnRoom ==
    ASSUME TInv, RoomOK, Returns
    PROVE  RoomOK'
  <1>1. Types /\ used \in Nat /\ MaxData \in Nat /\ used <= MaxData
    BY TimerAssumption DEF TInv, Types
  <1>2. CASE ScheduleTail
    <2>1. calls # <<>> /\ Running.fn = "Schedule" /\ calls' = Returned /\ used' = used + 1
      BY <1>2 DEF ScheduleTail, NewData
    <2>2. /\ Cardinality(Pending) \in Nat /\ Cardinality(Pending') \in Nat
          /\ Cardinality(Pending') = Cardinality(Pending) - 1
      BY <1>1, <2>1, ReturnPending
    <2> QED  BY <1>1, <2>1, <2>2 DEF RoomOK
  <1>3. CASE CancelTail \/ DestroyTail
    <2>1. calls # <<>> /\ Running.fn # "Schedule" /\ calls' = Returned /\ used' = used
      BY Zenon, <1>3 DEF CancelTail, DestroyTail, LetGo
    <2>2. Pending' = Pending
      BY <1>1, <2>1, ReturnPending
    <2> QED  BY <2>1, <2>2 DEF RoomOK
  <1>4. CASE UpdateReturn
    <2>1. calls' = <<>> /\ used' = used
      BY Zenon, <1>4 DEF UpdateReturn
    <2>2. Pending' = {}
      BY <2>1 DEF Pending
    <2>3. Cardinality(Pending') = 0
      BY <2>2, FS_EmptySet
    <2> QED  BY <1>1, <2>1, <2>3 DEF RoomOK
  <1> QED  BY <1>2, <1>3, <1>4 DEF Returns

\* Every step leaves data for the calls of Schedule that wait.
LEMMA RoomStep ==
    ASSUME TInv, RoomOK, AnyReschedule = FALSE, [Next]_vars
    PROVE  RoomOK'
  <1>1. CASE Program
    BY Zenon, <1>1, ScheduleRoom, CancelRoom DEF Program
  <1>2. CASE UpdateFire
    <2>1. Pending = {} /\ Pending' = {} /\ used' = used
      <3>1. /\ calls = <<>> /\ calls' = <<CallOf("Update", owner[heap[1]], heap[1], 0)>>
            /\ used' = used
        BY <1>2 DEF UpdateFire, InLoop
      <3>2. Len(calls') = 1 /\ calls'[1].fn = "Update"
        BY <3>1 DEF CallOf
      <3> QED  BY <3>1, <3>2 DEF Pending
    <2> QED  BY <2>1 DEF RoomOK
  <1>3. CASE UpdateBegin \/ UpdateDrop \/ UpdateEnd \/ Tick \/ UNCHANGED vars
    <2>1. calls' = calls /\ used' = used
      BY <1>3 DEF UpdateBegin, UpdateDrop, UpdateEnd, Tick, vars
    <2> QED  BY <2>1 DEF RoomOK, Pending
  <1> QED  BY <1>1, <1>2, <1>3, ReturnRoom DEF Next, UpdateLoop

-----------------------------------------------------------------------------
(* The heap.                                                               *)

INSTANCE BinaryHeapProofs

\* Data are numbers, so what holds of every heap holds of a heap of data.
LEMMA HeapFactsHold == HeapFacts
  <1> SUFFICES ASSUME NEW key \in [Data -> Nat], NEW h \in Seq(Data)
               PROVE  /\ \A e \in Data : IsHeap(h, key) /\ IsInjective(h) /\ ~Holds(h, e) =>
                           LET g == Insert(h, key, e) IN
                           /\ g \in Seq(Data) /\ IsHeap(g, key) /\ IsInjective(g)
                           /\ \A x : Holds(g, x) <=> Holds(h, x) \/ x = e
                      /\ h # <<>> /\ IsHeap(h, key) /\ IsInjective(h) =>
                           LET g == DeleteTop(h, key) IN
                           /\ g \in Seq(Data) /\ IsHeap(g, key) /\ IsInjective(g)
                           /\ \A x : Holds(g, x) <=> Holds(h, x) /\ x # h[1]
                      /\ \A e \in Data : IsInjective(h) /\ Holds(h, e) =>
                           LET g == DeleteElem(h, key, e) IN
                           /\ g \in Seq(Data) /\ IsHeap(g, key) /\ IsInjective(g)
                           /\ \A x : Holds(g, x) <=> Holds(h, x) /\ x # e
    BY DEF HeapFacts
  <1>1. Data \subseteq Nat
    BY DataIsNat
  <1>2. ASSUME NEW e \in Data, IsHeap(h, key), IsInjective(h), ~Holds(h, e)
        PROVE  LET g == Insert(h, key, e) IN
               /\ g \in Seq(Data) /\ IsHeap(g, key) /\ IsInjective(g)
               /\ \A x : Holds(g, x) <=> Holds(h, x) \/ x = e
    BY Zenon, <1>1, <1>2, InsertKeepsHeap
  <1>3. ASSUME h # <<>>, IsHeap(h, key), IsInjective(h)
        PROVE  LET g == DeleteTop(h, key) IN
               /\ g \in Seq(Data) /\ IsHeap(g, key) /\ IsInjective(g)
               /\ \A x : Holds(g, x) <=> Holds(h, x) /\ x # h[1]
    BY Zenon, <1>1, <1>3, DeleteTopKeepsHeap
  <1>4. ASSUME NEW e \in Data, IsInjective(h), Holds(h, e)
        PROVE  LET g == DeleteElem(h, key, e) IN
               /\ g \in Seq(Data) /\ IsHeap(g, key) /\ IsInjective(g)
               /\ \A x : Holds(g, x) <=> Holds(h, x) /\ x # e
    BY <1>1, <1>4, DeleteElemKeepsHeap
  <1> QED  BY <1>2, <1>3, <1>4, Zenon

\* Update ends when the top of the heap is in the future, and then everything
\* in the heap is.
LEMMA AllDueFired ==
    ASSUME TInv, UpdateEnd, NEW d \in Allocated, InHeap(d)
    PROVE  handle[d] > snap
  <1>1. /\ heap \in Seq(Data) /\ handle \in [Data -> Nat] /\ IsHeap(heap, handle)
        /\ snap \in Nat /\ ~DueNow
    BY DEF TInv, Types, HeapOK, UpdateEnd, InLoop
  <1>2. PICK i \in 1..Len(heap) : heap[i] = d
    BY DEF InHeap
  <1>3. handle[heap[1]] <= handle[d]
    BY <1>1, <1>2, TopIsLeast
  <1>4. heap # <<>> /\ heap[1] \in Data /\ d \in Data
    BY <1>1, <1>2
  <1>5. ~(handle[heap[1]] <= snap) /\ handle[heap[1]] \in Nat /\ handle[d] \in Nat
    BY <1>1, <1>4 DEF DueNow
  <1> QED  BY <1>1, <1>3, <1>5

-----------------------------------------------------------------------------
(* Theorems.                                                               *)

\* The invariant holds in every state.
THEOREM TimerInvariant ==
    ASSUME AnyReschedule = FALSE
    PROVE  Spec => []Inv
  <1>1. Init => Inv
    BY InitStep, InitRoom DEF Inv
  <1>2. Inv /\ [Next]_vars => Inv'
    <2>1. ASSUME Inv, ScheduleTail \/ (\E t \in Timers, due \in DueTimes : Schedule(t, due))
          PROVE  used + 1 <= MaxData
      BY <2>1, HasRoom DEF Inv
    <2> QED  BY Zenon, <2>1, HeapFactsHold, NextStep, RoomStep DEF Inv
  <1> QED  BY <1>1, <1>2, PTL DEF Spec

\* The variables keep their types: refCount (TimerData.h) is 0, 1 or 2, and
\* the heap holds data that was allocated.
THEOREM TimerTypes ==
    ASSUME AnyReschedule = FALSE
    PROVE  Spec => []TypeOK
  <1>1. Inv => TypeOK
    BY TypesHold DEF Inv
  <1> QED  BY <1>1, TimerInvariant, PTL

\* When OnCancel schedules its own timer again only under a plain Cancel() of
\* data less than LongTimeout away, Schedule, Cancel, ~LLBC_Timer and Update
\* touch no deleted LLBC_TimerData and no destroyed timer, whatever else the
\* callbacks call.
THEOREM TimerNoDangling ==
    ASSUME AnyReschedule = FALSE
    PROVE  Spec => []NoDangling
  <1>1. Inv => NoDangling
    BY DEF Inv, TInv
  <1> QED  BY <1>1, TimerInvariant, PTL

\* refCount is the number of owners: the timer and the heap or Update.
THEOREM TimerRefCounts ==
    ASSUME AnyReschedule = FALSE
    PROVE  Spec => []RefCountIsOwners
  <1>1. Inv => RefCountIsOwners
    BY OwnersCounted DEF Inv
  <1> QED  BY <1>1, TimerInvariant, PTL

\* Data that may still fire is the data its timer refers to, so that Cancel,
\* Schedule and the destructor reach it.
THEOREM TimerArmedIsOwned ==
    ASSUME AnyReschedule = FALSE
    PROVE  Spec => []ArmedIsOwned
  <1>1. Inv => ArmedIsOwned
    BY ArmedOwnedSound DEF Inv
  <1> QED  BY <1>1, TimerInvariant, PTL

\* The heap stays a heap without duplicates and holds all armed data that is
\* not being fired, whatever callbacks insert and take out.
THEOREM TimerHeapIsSound ==
    ASSUME AnyReschedule = FALSE
    PROVE  Spec => []HeapIsSound
  <1>1. Inv => HeapIsSound
    BY ArmedOwnedSound DEF Inv
  <1> QED  BY <1>1, TimerInvariant, PTL

\* An Update that returns has left no armed data in the heap that was due when
\* it began.
THEOREM TimerFiresAllDue ==
    ASSUME AnyReschedule = FALSE
    PROVE  Spec => UpdateFiresAllDue
  <1>1. ASSUME Inv, Next, snap # Null, snap' = Null, NEW d \in Allocated, InHeap(d)
        PROVE  handle[d] > snap
    BY <1>1, OnlyEndEnds, AllDueFired DEF Inv
  <1>2. Inv /\ [Next]_vars =>
          [(snap # Null /\ snap' = Null) =>
             \A d \in Allocated : InHeap(d) /\ validate[d] => handle[d] > snap]_vars
    BY <1>1
  <1> QED  BY <1>2, TimerInvariant, PTL DEF Spec, UpdateFiresAllDue
=============================================================================
