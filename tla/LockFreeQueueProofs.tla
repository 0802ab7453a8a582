------------------------ MODULE LockFreeQueueProofs ------------------------
(***************************************************************************)
(* LockFreeQueue implements BoundedFifo, for every capacity of two or more *)
(* and every set of values.                                                *)
(***************************************************************************)
EXTENDS LockFreeQueue, TLAPS

\* A leaf that names no prover is tried with SMT, then with Zenon, then once more.
USE SMTT(30), ZenonT(30), SMTT(60)

\* The four indices lie on the ring in the order rdSeen, rdIdx, wtSeen, wtIdx.
RingOrder ==
    /\ GetSize(rdIdx, rdSeen) + GetSize(wtIdx, rdIdx) = GetSize(wtIdx, rdSeen)
    /\ wtSeen # wtIdx =>
         wtIdx = At(wtSeen, 1) /\ GetSize(wtIdx, rdIdx) = GetSize(wtSeen, rdIdx) + 1

\* What Push holds while it is on its way: a free slot beyond wtIdx, a store to
\* the slot at wtIdx and nowhere else, and a value there once it is visible.
PushHolds ==
    /\ ppc = "fence" => GetSize(wtIdx, rdSeen) + 1 < QueueCapacity
    /\ \A store \in storing : ppc = "fence" /\ store[1] = wtIdx
    /\ ppc = "fence" /\ storing = {} => queue[wtIdx] \in Values
    /\ wtSeen # wtIdx => queue[wtSeen] \in Values

\* What Pop holds: a slot that Push has published, and a clearing of only that.
PopHolds ==
    /\ cpc # "idle" => rdIdx # wtSeen
    /\ \A slot \in clearing : debug /\ cpc = "advance" /\ slot = rdIdx

QInv == TypeOK /\ RingOrder /\ PushHolds /\ PopHolds

-----------------------------------------------------------------------------
\* The increment of an index, without the remainder.
LEMMA SuccIsAt ==
    ASSUME NEW i \in Slots
    PROVE  Succ(i) = At(i, 1) /\ At(i, 1) \in Slots
<1>1. CASE i + 1 < QueueCapacity
  <2>1. (i + 1) % QueueCapacity = i + 1
    BY <1>1, QueueAssumption DEF Slots
  <2> QED  BY <1>1, <2>1, QueueAssumption DEF Succ, At, Slots
<1>2. CASE i + 1 = QueueCapacity
  <2>1. QueueCapacity % QueueCapacity = 0
    BY QueueAssumption
  <2> QED  BY <1>2, <2>1, QueueAssumption DEF Succ, At, Slots
<1> QED  BY <1>1, <1>2, QueueAssumption DEF Slots

\* Sizes are numbers below the capacity, zero only between equal indices.
LEMMA SizeRange ==
    ASSUME NEW i \in Slots, NEW j \in Slots
    PROVE  /\ GetSize(i, j) \in Slots
           /\ GetSize(i, j) = 0 <=> i = j
BY QueueAssumption DEF GetSize, Slots

\* The initial state satisfies the invariant.
LEMMA QInit == Init => QInv
BY QueueAssumption DEF Init, QInv, TypeOK, RingOrder, PushHolds, PopHolds, GetSize, Slots

-----------------------------------------------------------------------------
(* Every step keeps the invariant.                                         *)

LEMMA QPushStore == QInv /\ (\E v \in Values : PushStore(v)) => QInv'
<1> SUFFICES ASSUME QInv, NEW v \in Values, PushStore(v) PROVE QInv'
  OBVIOUS
<1> USE DEF QInv, PushStore, consumer
<1>1. TypeOK'  BY DEF TypeOK
<1>2. RingOrder'  BY DEF RingOrder, GetSize, At
<1>3. storing = {}  BY DEF PushHolds
<1>4. GetSize(wtIdx, rdSeen) + 1 < QueueCapacity
  BY QueueAssumption DEF TypeOK, IsFull, GetSize, Slots
<1>5. PushHolds'
  <2>1. storing' # {} /\ \A store \in storing' : store[1] = wtIdx
    BY <1>3
  <2> QED  BY <2>1, <1>4 DEF PushHolds, GetSize
<1>6. PopHolds'  BY DEF PopHolds
<1> QED  BY <1>1, <1>2, <1>5, <1>6

LEMMA QPushPublish == QInv /\ PushPublish => QInv'
<1> SUFFICES ASSUME QInv, PushPublish PROVE QInv'
  OBVIOUS
<1> USE DEF QInv, PushPublish, PushFence, consumer
<1>1. wtIdx' = At(wtIdx, 1) /\ wtIdx' \in Slots  BY SuccIsAt DEF TypeOK
<1>2. TypeOK'  BY <1>1 DEF TypeOK
<1>3. GetSize(wtIdx, rdSeen) + 1 < QueueCapacity  BY DEF PushHolds
<1>4. RingOrder'
  BY <1>1, <1>3, QueueAssumption DEF TypeOK, RingOrder, GetSize, At, Slots
<1>5. PushHolds'  BY DEF PushHolds
<1>6. PopHolds'  BY DEF PopHolds
<1> QED  BY <1>2, <1>4, <1>5, <1>6

LEMMA QPop == QInv /\ Pop => QInv'
<1> SUFFICES ASSUME QInv, Pop PROVE QInv'
  OBVIOUS
<1>1. CASE PopCheck
  <2> USE <1>1 DEF QInv, PopCheck, producer
  <2>1. TypeOK'  BY DEF TypeOK
  <2>2. RingOrder' /\ PushHolds'  BY DEF RingOrder, PushHolds, GetSize, At
  <2>3. PopHolds'  BY DEF PopHolds
  <2> QED  BY <2>1, <2>2, <2>3
<1>2. CASE PopLoad
  <2> USE <1>2 DEF QInv, PopLoad, producer
  <2>1. TypeOK'  BY DEF TypeOK
  <2>2. RingOrder' /\ PushHolds'  BY DEF RingOrder, PushHolds, GetSize, At
  <2>3. PopHolds'  BY DEF PopHolds
  <2> QED  BY <2>1, <2>2, <2>3
<1>3. CASE PopAdvance
  <2> USE <1>3 DEF QInv, PopAdvance, PopFence, producer
  <2>1. rdIdx' = At(rdIdx, 1) /\ rdIdx' \in Slots  BY SuccIsAt DEF TypeOK
  <2>2. TypeOK'  BY <2>1 DEF TypeOK
  <2>3. rdIdx # wtSeen  BY DEF PopHolds
  <2>4. RingOrder'
    BY <2>1, <2>3, QueueAssumption DEF TypeOK, RingOrder, GetSize, At, Slots
  <2>5. PushHolds'  BY DEF PushHolds, GetSize
  <2>6. clearing = {}  BY DEF PopHolds
  <2>7. PopHolds'  BY <2>6 DEF PopHolds
  <2> QED  BY <2>2, <2>4, <2>5, <2>7
<1> QED  BY <1>1, <1>2, <1>3 DEF Pop

LEMMA QMemory == QInv /\ Memory => QInv'
<1> SUFFICES ASSUME QInv, Memory PROVE QInv'
  OBVIOUS
<1>1. CASE SeeValue
  <2> USE <1>1 DEF QInv
  <2>1. PICK store \in storing :
          /\ queue' = [queue EXCEPT ![store[1]] = store[2]]
          /\ storing' = storing \ {store}
          /\ UNCHANGED <<wtIdx, ppc, wtSeen, rdSeen, consumer, debug>>
    BY DEF SeeValue
  <2>2. store[1] = wtIdx /\ store[2] \in Values /\ ppc = "fence"
    BY DEF PushHolds, TypeOK
  <2>3. TypeOK'  BY <2>1, <2>2 DEF TypeOK, consumer
  <2>4. RingOrder'  BY <2>1 DEF RingOrder, GetSize, At, consumer
  <2>5. PopHolds'  BY <2>1 DEF PopHolds, consumer
  <2>6. PushHolds'
    <3>1. queue'[wtIdx] \in Values /\ (wtSeen # wtIdx => queue'[wtSeen] = queue[wtSeen])
      BY <2>1, <2>2 DEF TypeOK
    <3> QED  BY <2>1, <2>2, <3>1 DEF PushHolds, GetSize
  <2> QED  BY <2>3, <2>4, <2>5, <2>6
<1>2. CASE SeeClear
  <2> USE <1>2 DEF QInv
  <2>1. PICK slot \in clearing :
          /\ queue' = [queue EXCEPT ![slot] = Null]
          /\ clearing' = clearing \ {slot}
          /\ UNCHANGED <<wtSeen, rdSeen, producer, rdIdx, cpc, val, debug>>
    BY DEF SeeClear
  <2>2. slot = rdIdx /\ rdIdx # wtSeen  BY DEF PopHolds
  <2>3. TypeOK'  BY <2>1, <2>2 DEF TypeOK, producer
  <2>4. RingOrder'  BY <2>1 DEF RingOrder, GetSize, At, producer
  <2>5. PopHolds'  BY <2>1 DEF PopHolds
  <2>6. PushHolds'
    <3>1. ppc = "fence" => wtIdx # rdIdx
      BY <2>2, QueueAssumption DEF PushHolds, RingOrder, TypeOK, GetSize, At, Slots
    <3>2. /\ queue'[wtSeen] = queue[wtSeen]
          /\ wtIdx # rdIdx => queue'[wtIdx] = queue[wtIdx]
      BY <2>1, <2>2 DEF TypeOK
    <3> QED  BY <2>1, <3>1, <3>2 DEF PushHolds, GetSize, producer
  <2> QED  BY <2>3, <2>4, <2>5, <2>6
<1>3. CASE SeeWtIdx
  <2> USE <1>3 DEF QInv, SeeWtIdx, producer, consumer
  <2>1. TypeOK'  BY DEF TypeOK
  <2>2. RingOrder'  BY DEF RingOrder, GetSize, At
  <2>3. PushHolds'  BY DEF PushHolds, GetSize
  <2>4. PopHolds'
    BY QueueAssumption DEF PopHolds, RingOrder, GetSize, At, TypeOK, Slots
  <2> QED  BY <2>1, <2>2, <2>3, <2>4
<1>4. CASE SeeRdIdx
  <2> USE <1>4 DEF QInv, SeeRdIdx, producer, consumer
  <2>1. rdSeen' = At(rdSeen, 1) /\ rdSeen' \in Slots  BY SuccIsAt DEF TypeOK
  <2>2. TypeOK'  BY <2>1 DEF TypeOK
  <2>3. RingOrder'
    BY <2>1, QueueAssumption DEF RingOrder, GetSize, At, TypeOK, Slots
  <2>4. PushHolds'
    BY <2>1, QueueAssumption DEF PushHolds, RingOrder, GetSize, At, TypeOK, Slots
  <2>5. PopHolds'  BY DEF PopHolds
  <2> QED  BY <2>2, <2>3, <2>4, <2>5
<1> QED  BY <1>1, <1>2, <1>3, <1>4 DEF Memory

\* The invariant holds in every reachable state.
THEOREM QInvariant == Spec => []QInv
<1>1. QInv /\ UNCHANGED vars => QInv'
  BY DEF vars, producer, consumer, QInv, TypeOK, RingOrder, PushHolds, PopHolds, GetSize, At
<1>2. QInv /\ [Next]_vars => QInv'
  BY <1>1, QPushStore, QPushPublish, QPop, QMemory DEF Next, Push
<1> QED  BY QInit, <1>2, PTL DEF Spec

\* The indices that Push and Pop compute modulo QueueCapacity, and the ones they
\* read from the other thread, stay within the array.
THEOREM IndicesStayInArray == Spec => []TypeOK
<1>1. QInv => TypeOK  BY DEF QInv
<1> QED  BY <1>1, QInvariant, PTL

-----------------------------------------------------------------------------
(* The refinement.                                                         *)

LEMMA OldestFacts ==
    ASSUME QInv
    PROVE  /\ Oldest \in Slots
           /\ cpc = "advance" => GetSize(wtSeen, rdIdx) = GetSize(wtSeen, Oldest) + 1
BY QueueAssumption DEF QInv, TypeOK, PopHolds, Oldest, GetSize, At, Slots

LEMMA ContentsFacts ==
    ASSUME QInv
    PROVE  /\ Contents \in Seq(Values \cup {Null})
           /\ Len(Contents) = GetSize(wtSeen, Oldest)
           /\ Len(Contents) \in Slots
<1> DEFINE n == GetSize(wtSeen, Oldest)
<1>1. Oldest \in Slots /\ wtSeen \in Slots  BY OldestFacts DEF QInv, TypeOK
<1>2. n \in Slots /\ n \in Nat  BY <1>1, SizeRange, QueueAssumption DEF Slots
<1>3. \A k \in 1..n : At(Oldest, k - 1) \in Slots
  BY <1>1, <1>2, QueueAssumption DEF At, Slots
<1>4. Contents \in [1..n -> Values \cup {Null}]
  BY <1>3 DEF Contents, QInv, TypeOK
<1>5. Len(Contents) = n
  BY <1>2, <1>4
<1> QED  BY <1>2, <1>4, <1>5

\* What each thread reads as the size errs to the safe side only (GetSize,
\* Push and Pop of conn_mgr.h).
THEOREM SizesAreSafe == Spec => []SizeIsSafe
<1>1. QInv => SizeIsSafe
  <2> SUFFICES ASSUME QInv PROVE SizeIsSafe
    OBVIOUS
  <2>0. /\ GetSize(wtSeen, Oldest) \in Int /\ GetSize(wtSeen, rdIdx) \in Int
        /\ GetSize(wtIdx, rdIdx) \in Int /\ GetSize(wtIdx, rdSeen) \in Int
    BY OldestFacts, QueueAssumption DEF QInv, TypeOK, Slots, GetSize
  <2>1. GetSize(wtSeen, Oldest) <= GetSize(wtSeen, rdIdx)
        /\ GetSize(wtSeen, rdIdx) <= GetSize(wtSeen, Oldest) + 1
    <3>1. CASE cpc = "advance"  BY <2>0, <3>1, OldestFacts
    <3>2. CASE cpc # "advance"  BY <2>0, <3>2 DEF Oldest
    <3> QED  BY <3>1, <3>2
  <2>2. GetSize(wtSeen, rdIdx) <= GetSize(wtIdx, rdIdx)
    BY QueueAssumption DEF QInv, TypeOK, RingOrder, GetSize, Slots
  <2>3. GetSize(wtIdx, rdIdx) <= GetSize(wtIdx, rdSeen)
        /\ GetSize(wtIdx, rdSeen) < QueueCapacity
    BY QueueAssumption DEF QInv, TypeOK, RingOrder, GetSize, Slots
  <2> QED
    BY <2>0, <2>1, <2>2, <2>3, ContentsFacts, QueueAssumption DEF SizeIsSafe
<1> QED  BY QInvariant, <1>1, PTL

\* A step that leaves the visible indices alone and no slot between them
\* changed is invisible to the callers.
LEMMA SameContents ==
    ASSUME QInv, wtSeen' = wtSeen, Oldest' = Oldest,
           \A k \in 1..GetSize(wtSeen, Oldest) :
               queue'[At(Oldest, k - 1)] = queue[At(Oldest, k - 1)]
    PROVE  Contents' = Contents
BY DEF Contents, GetSize, At

\* The slots of the contents are neither the one Push writes nor the one Pop
\* has just emptied.
LEMMA ContentsApart ==
    ASSUME QInv, NEW k \in 1..GetSize(wtSeen, Oldest)
    PROVE  /\ (wtIdx = wtSeen \/ ppc = "fence") => At(Oldest, k - 1) # wtIdx
           /\ cpc = "advance" => At(Oldest, k - 1) # rdIdx
<1> USE QueueAssumption DEF QInv, TypeOK, Slots
<1>1. k \in Int /\ 1 <= k /\ k <= GetSize(wtSeen, Oldest) /\ Oldest \in Slots
  BY OldestFacts, SizeRange
<1>2. wtIdx = wtSeen => At(Oldest, k - 1) # wtIdx
  BY <1>1 DEF At, GetSize
<1>3. ppc = "fence" => At(Oldest, k - 1) # wtIdx
  <2> SUFFICES ASSUME ppc = "fence", wtIdx # wtSeen PROVE At(Oldest, k - 1) # wtIdx
    BY <1>2
  <2>1. wtIdx = At(wtSeen, 1) /\ GetSize(wtSeen, rdIdx) + 1 < QueueCapacity
    BY DEF RingOrder, PushHolds, GetSize
  <2>2. GetSize(wtSeen, Oldest) + 1 < QueueCapacity
    <3>1. CASE cpc = "advance"  BY <2>1, <3>1, OldestFacts DEF GetSize
    <3>2. CASE cpc # "advance"  BY <2>1, <3>2 DEF Oldest
    <3> QED  BY <3>1, <3>2
  <2> QED  BY <1>1, <2>1, <2>2 DEF At, GetSize
<1>4. cpc = "advance" => At(Oldest, k - 1) # rdIdx
  BY <1>1 DEF At, GetSize, PopHolds, Oldest
<1> QED  BY <1>2, <1>3, <1>4

\* Each step is a step of the abstract queue, or invisible.
LEMMA QStep ==
    ASSUME QInv, QInv', [Next]_vars
    PROVE  [Fifo!Next]_(Fifo!fifoVars)
<1> USE DEF Fifo!fifoVars
<1>0. Oldest \in Slots /\ wtSeen \in Slots /\ rdIdx \in Slots /\ wtIdx \in Slots
  BY OldestFacts DEF QInv, TypeOK
<1>1. CASE (\E v \in Values : PushStore(v)) \/ PushPublish \/ PopCheck \/ SeeRdIdx
  <2>1. wtSeen' = wtSeen /\ queue' = queue /\ val' = val /\ rdIdx' = rdIdx
        /\ (cpc' = cpc \/ (cpc = "idle" /\ cpc' = "load"))
    BY <1>1 DEF PushStore, PushPublish, PopCheck, SeeRdIdx, producer, consumer
  <2>2. Oldest' = Oldest  BY <2>1 DEF Oldest, At
  <2> QED  BY <2>1, <2>2, SameContents
<1>2. CASE PopAdvance
  <2>1. rdIdx' = At(rdIdx, 1)  BY <1>0, <1>2, SuccIsAt DEF PopAdvance
  <2>2. Oldest' = Oldest  BY <1>2, <2>1 DEF PopAdvance, Oldest
  <2> QED  BY <1>2, <2>2, SameContents DEF PopAdvance, producer
<1>3. CASE SeeValue
  <2>1. PICK store \in storing :
          /\ queue' = [queue EXCEPT ![store[1]] = store[2]]
          /\ UNCHANGED <<wtSeen, consumer>>
    BY <1>3 DEF SeeValue
  <2>2. store[1] = wtIdx /\ ppc = "fence"  BY DEF QInv, PushHolds
  <2>3. Oldest' = Oldest /\ val' = val  BY <2>1 DEF Oldest, At, consumer
  <2>4. \A k \in 1..GetSize(wtSeen, Oldest) : At(Oldest, k - 1) # wtIdx
    BY <2>2, ContentsApart
  <2>5. \A k \in 1..GetSize(wtSeen, Oldest) :
            queue'[At(Oldest, k - 1)] = queue[At(Oldest, k - 1)]
    <3> TAKE k \in 1..GetSize(wtSeen, Oldest)
    <3>1. At(Oldest, k - 1) \in Slots
      BY <1>0, QueueAssumption DEF At, GetSize, Slots
    <3> QED  BY <2>1, <2>2, <2>4, <3>1 DEF QInv, TypeOK
  <2> QED  BY <2>1, <2>3, <2>5, SameContents
<1>4. CASE SeeClear
  <2>1. PICK slot \in clearing :
          /\ queue' = [queue EXCEPT ![slot] = Null]
          /\ UNCHANGED <<wtSeen, rdIdx, cpc, val>>
    BY <1>4 DEF SeeClear
  <2>2. slot = rdIdx /\ cpc = "advance"  BY DEF QInv, PopHolds
  <2>3. Oldest' = Oldest /\ val' = val  BY <2>1 DEF Oldest, At
  <2>4. \A k \in 1..GetSize(wtSeen, Oldest) : At(Oldest, k - 1) # rdIdx
    BY <2>2, ContentsApart
  <2>5. \A k \in 1..GetSize(wtSeen, Oldest) :
            queue'[At(Oldest, k - 1)] = queue[At(Oldest, k - 1)]
    <3> TAKE k \in 1..GetSize(wtSeen, Oldest)
    <3>1. At(Oldest, k - 1) \in Slots
      BY <1>0, QueueAssumption DEF At, GetSize, Slots
    <3> QED  BY <2>1, <2>2, <2>4, <3>1 DEF QInv, TypeOK
  <2> QED  BY <2>1, <2>3, <2>5, SameContents
<1>5. CASE SeeWtIdx
  <2> DEFINE v == queue[wtSeen]
             n == GetSize(wtSeen, Oldest)
  <2>1. v \in Values /\ wtIdx = At(wtSeen, 1)
    BY <1>5 DEF SeeWtIdx, QInv, PushHolds, RingOrder
  <2>2. wtSeen' = wtIdx /\ queue' = queue /\ val' = val /\ Oldest' = Oldest
    BY <1>5 DEF SeeWtIdx, consumer, Oldest, At
  <2>3. n \in Nat /\ n + 1 < QueueCapacity /\ GetSize(wtIdx, Oldest) = n + 1
    BY <1>0, <1>5, <2>1, QueueAssumption
    DEF SeeWtIdx, QInv, RingOrder, PopHolds, TypeOK, Oldest, GetSize, At, Slots
  <2>4. At(Oldest, n) = wtSeen  BY <1>0, QueueAssumption DEF GetSize, At, Slots
  <2>5. Contents' = [k \in 1..(n + 1) |-> queue[At(Oldest, k - 1)]]
    BY <2>2, <2>3 DEF Contents, GetSize, At
  <2>6. Contents = [k \in 1..n |-> queue[At(Oldest, k - 1)]] /\ Len(Contents) = n
        /\ Contents \in Seq(Values \cup {Null})
    BY ContentsFacts DEF Contents
  <2>7. Contents' = Append(Contents, v)
    <3>1. Append(Contents, v)
            = [k \in 1..(n + 1) |-> IF k = n + 1 THEN v ELSE Contents[k]]
      BY <2>3, <2>6
    <3>2. \A k \in 1..(n + 1) :
            queue[At(Oldest, k - 1)] = (IF k = n + 1 THEN v ELSE Contents[k])
      BY <2>3, <2>4, <2>6
    <3> QED  BY <2>5, <3>1, <3>2
  <2>8. Fifo!Push(v)
    BY <2>2, <2>3, <2>6, <2>7, QueueAssumption DEF Fifo!Push
  <2> QED  BY <2>1, <2>8 DEF Fifo!Next
<1>6. CASE PopLoad
  <2> DEFINE n == GetSize(wtSeen, rdIdx)
  <2>1. Oldest = rdIdx /\ Oldest' = At(rdIdx, 1)
    BY <1>6 DEF PopLoad, Oldest, At
  <2>2. n \in Nat \ {0} /\ GetSize(wtSeen, At(rdIdx, 1)) = n - 1
    BY <1>0, <1>6, QueueAssumption DEF PopLoad, QInv, PopHolds, GetSize, At, Slots
  <2>3. Contents = [k \in 1..n |-> queue[At(rdIdx, k - 1)]] /\ Len(Contents) = n
        /\ Contents \in Seq(Values \cup {Null})
    BY <2>1, ContentsFacts DEF Contents
  <2>4. Contents' = [k \in 1..(n - 1) |-> queue[At(At(rdIdx, 1), k - 1)]]
    BY <1>6, <2>1, <2>2 DEF PopLoad, Contents, GetSize, At
  <2>5. \A k \in 1..(n - 1) : At(At(rdIdx, 1), k - 1) = At(rdIdx, k)
    BY <1>0, <2>2, QueueAssumption DEF GetSize, At, Slots
  <2>6. Contents' = Tail(Contents)
    <3>1. Tail(Contents) = [k \in 1..(n - 1) |-> Contents[k + 1]]
      BY <2>2, <2>3
    <3>2. \A k \in 1..(n - 1) : Contents[k + 1] = queue[At(rdIdx, k)]
      BY <2>2, <2>3
    <3> QED  BY <2>4, <2>5, <3>1, <3>2
  <2>7. val' = Head(Contents)
    <3>1. At(rdIdx, 0) = rdIdx  BY <1>0, QueueAssumption DEF At, Slots
    <3> QED  BY <1>6, <2>2, <2>3, <3>1 DEF PopLoad
  <2>8. Contents # <<>>  BY <2>2, <2>3
  <2> QED  BY <2>6, <2>7, <2>8 DEF Fifo!Next, Fifo!Pop
<1>7. CASE UNCHANGED vars
  <2>1. wtSeen' = wtSeen /\ queue' = queue /\ val' = val /\ Oldest' = Oldest
    BY <1>7 DEF vars, producer, consumer, Oldest, At
  <2> QED  BY <2>1, SameContents
<1> QED
  BY <1>1, <1>2, <1>3, <1>4, <1>5, <1>6, <1>7 DEF Next, Push, Pop, Memory

\* conn_mgr.h:36 and 63: the ring of any capacity, with its one fence between
\* value and index, is a FIFO queue between its two threads.
THEOREM ImplementsFifo == Spec => RefinesFifo
<1>1. Init => Fifo!Init
  <2> SUFFICES ASSUME Init PROVE Fifo!Init
    OBVIOUS
  <2>1. QInv  BY QInit
  <2>2. Len(Contents) = 0
    BY <2>1, ContentsFacts, QueueAssumption DEF Init, Oldest, GetSize
  <2>3. Contents = <<>>  BY <2>1, <2>2, ContentsFacts
  <2> QED  BY <2>3, QueueAssumption DEF Init, Fifo!Init
<1>2. QInv /\ QInv' /\ [Next]_vars => [Fifo!Next]_(Fifo!fifoVars)
  BY QStep
<1> QED  BY <1>1, <1>2, QInvariant, PTL DEF Spec, RefinesFifo, Fifo!Spec
=============================================================================
