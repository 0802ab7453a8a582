--------------------------- MODULE LockFreeQueue ---------------------------
(***************************************************************************)
(* LockFreeQueue of src/rpc/src/conn_mgr.h: a ring of QueueCapacity slots  *)
(* between one thread that calls Push and one that calls Pop.              *)
(*                                                                         *)
(* A store becomes visible to the other thread some time after it was      *)
(* issued, and stores of one thread to different places may become visible *)
(* in any order, unless an sfence separates them.  Loads happen in program *)
(* order and before later stores of the same thread.                       *)
(***************************************************************************)
EXTENDS Integers, Sequences

CONSTANTS
    Values,          \* the pointers that are pushed
    Null,            \* nullptr
    QueueCapacity

ASSUME QueueAssumption ==
    /\ QueueCapacity \in Nat /\ QueueCapacity >= 2
    /\ Null \notin Values

VARIABLES
    queue,           \* queue_, as the other thread sees it
    wtIdx, wtSeen,   \* wtIdx_, as its writer and as the consumer sees it
    rdIdx, rdSeen,   \* rdIdx_, as its writer and as the producer sees it
    storing,         \* the producer's stores to queue_ that are on their way
    ppc,             \* where the producer is inside Push
    clearing,        \* the slots whose clearing is on its way
    cpc,             \* where the consumer is inside Pop
    val,             \* the consumer's local variable
    debug            \* NEXT_DEBUG is defined

producer == <<wtIdx, storing, ppc>>
consumer == <<rdIdx, clearing, cpc, val>>
vars == <<queue, wtSeen, rdSeen, producer, consumer, debug>>

Slots == 0..(QueueCapacity - 1)

TypeOK ==
    /\ queue \in [Slots -> Values \cup {Null}]
    /\ wtIdx \in Slots /\ wtSeen \in Slots /\ rdIdx \in Slots /\ rdSeen \in Slots
    /\ storing \subseteq Slots \X Values /\ ppc \in {"idle", "fence"}
    /\ clearing \subseteq Slots /\ cpc \in {"idle", "load", "advance"}
    /\ val \in Values \cup {Null} /\ debug \in BOOLEAN

Init ==
    /\ queue = [i \in Slots |-> Null]
    /\ wtIdx = 0 /\ wtSeen = 0 /\ rdIdx = 0 /\ rdSeen = 0
    /\ storing = {} /\ ppc = "idle"
    /\ clearing = {} /\ cpc = "idle" /\ val = Null
    /\ debug \in BOOLEAN

-----------------------------------------------------------------------------
NoModulo(i) == i + 1                               \* mutant

Succ(i) == (i + 1) % QueueCapacity

NoWrap(wt, rd) == wt - rd                          \* mutant

\* GetSize, and the first lines of Push.
GetSize(wt, rd) == IF wt - rd < 0 THEN wt - rd + QueueCapacity ELSE wt - rd

UseEverySlot(size) == QueueCapacity - size = 0     \* mutant

\* One slot stays free, so that a full ring differs from an empty one.
IsFull(size) == QueueCapacity - size = 1

\* Push, up to the store of the value.  A full queue refuses it.
PushStore(v) ==
    /\ ppc = "idle" /\ ~IsFull(GetSize(wtIdx, rdSeen))
    /\ storing' = storing \cup {<<wtIdx, v>>} /\ ppc' = "fence"
    /\ UNCHANGED <<queue, wtIdx, wtSeen, rdSeen, consumer, debug>>

NoFence == TRUE                                    \* mutant

\* sfence: every earlier store of the producer is visible.
PushFence == storing = {} /\ wtSeen = wtIdx

\* Push after its sfence.
PushPublish ==
    /\ ppc = "fence" /\ PushFence
    /\ wtIdx' = Succ(wtIdx) /\ ppc' = "idle"
    /\ UNCHANGED <<queue, wtSeen, rdSeen, storing, consumer, debug>>

-----------------------------------------------------------------------------
\* Pop finds the queue not empty; otherwise it returns nullptr.
PopCheck ==
    /\ cpc = "idle" /\ rdIdx # wtSeen
    /\ cpc' = "load"
    /\ UNCHANGED <<queue, wtSeen, rdSeen, producer, rdIdx, clearing, val, debug>>

\* The value is loaded, and under NEXT_DEBUG the slot is cleared.
PopLoad ==
    /\ cpc = "load"
    /\ val' = queue[rdIdx] /\ clearing' = IF debug THEN clearing \cup {rdIdx} ELSE clearing
    /\ cpc' = "advance"
    /\ UNCHANGED <<queue, wtSeen, rdSeen, producer, rdIdx, debug>>

\* sfence under NEXT_DEBUG.
PopFence == debug => clearing = {} /\ rdSeen = rdIdx

PopAdvance ==
    /\ cpc = "advance" /\ PopFence
    /\ rdIdx' = Succ(rdIdx) /\ cpc' = "idle"
    /\ UNCHANGED <<queue, wtSeen, rdSeen, producer, clearing, val, debug>>

-----------------------------------------------------------------------------
(* Stores become visible.                                                  *)

SeeValue ==
    \E store \in storing :
        /\ queue' = [queue EXCEPT ![store[1]] = store[2]]
        /\ storing' = storing \ {store}
        /\ UNCHANGED <<wtIdx, ppc, wtSeen, rdSeen, consumer, debug>>

SeeClear ==
    \E slot \in clearing :
        /\ queue' = [queue EXCEPT ![slot] = Null]
        /\ clearing' = clearing \ {slot}
        /\ UNCHANGED <<wtSeen, rdSeen, producer, rdIdx, cpc, val, debug>>

SeeWtIdx ==
    /\ wtSeen # wtIdx /\ wtSeen' = wtIdx
    /\ UNCHANGED <<queue, rdSeen, producer, consumer, debug>>

\* Several stores of rdIdx_ may be on their way; they are seen in order.
SeeRdIdx ==
    /\ rdSeen # rdIdx /\ rdSeen' = Succ(rdSeen)
    /\ UNCHANGED <<queue, wtSeen, producer, consumer, debug>>

-----------------------------------------------------------------------------
Push == (\E v \in Values : PushStore(v)) \/ PushPublish
Pop == PopCheck \/ PopLoad \/ PopAdvance
Memory == SeeValue \/ SeeClear \/ SeeWtIdx \/ SeeRdIdx

Next == Push \/ Pop \/ Memory

Spec == Init /\ [][Next]_vars

\* Stores become visible, a call once entered returns, and Pop is called
\* again and again.
FairSpec ==
    /\ Spec
    /\ WF_vars(SeeValue) /\ WF_vars(SeeClear) /\ WF_vars(SeeWtIdx) /\ WF_vars(SeeRdIdx)
    /\ WF_vars(PushPublish) /\ WF_vars(PopCheck) /\ WF_vars(PopLoad) /\ WF_vars(PopAdvance)

-----------------------------------------------------------------------------
(* The queue as its two callers see it.                                    *)

At(i, k) == IF i + k < QueueCapacity THEN i + k ELSE i + k - QueueCapacity

\* A value has left the queue once Pop has loaded it.
Oldest == IF cpc = "advance" THEN At(rdIdx, 1) ELSE rdIdx

Contents == [k \in 1..GetSize(wtSeen, Oldest) |-> queue[At(Oldest, k - 1)]]

Fifo == INSTANCE BoundedFifo
    WITH q <- Contents, out <- val, Bound <- QueueCapacity - 1

\* conn_mgr.h:36 and 63: with one thread calling Push and one calling Pop, and
\* the sfence between the value and the index, the ring is a FIFO queue of
\* QueueCapacity - 1 places: Pop never returns a value that is not completely
\* written, a value twice, or one that Push overwrote.
RefinesFifo == Fifo!Spec

\* GetSize on a thread of its own may lag behind the other thread, but only to
\* the safe side: Push sees at least what is inside, and Pop no more than what
\* is inside and the value it has just taken.
SizeIsSafe ==
    /\ Len(Contents) <= GetSize(wtIdx, rdSeen)
    /\ GetSize(wtIdx, rdSeen) < QueueCapacity
    /\ GetSize(wtSeen, rdIdx) <= Len(Contents) + 1

\* A value that Push has begun to store in a slot is returned by the Pop that
\* reaches that slot.
PushedIsPopped ==
    \A v \in Values, i \in Slots :
      (<<i, v>> \in storing) ~> (cpc = "advance" /\ rdIdx = i /\ val = v)
=============================================================================
