-------------------------- MODULE MCTimerScheduler --------------------------
(* TimerScheduler with a few timers, short times and a near "long" one.    *)
EXTENDS TimerScheduler, SequencesExt

RECURSIVE Drain(_, _)
Drain(h, key) == IF h = <<>> THEN <<>> ELSE <<h[1]>> \o Drain(DeleteTop(h, key), key)

Filled(n, key) == FoldLeft(LAMBDA h, e : Insert(h, key, e), <<>>, [i \in 1..n |-> i])

\* Whatever is inserted into a heap, and whichever element is then deleted from
\* its middle, the tops come out in the order of their keys, each of the other
\* elements once: Insert, DeleteElem and DeleteTop together.
SortsUpTo(MaxLen, Keys) ==
    \A n \in 1..MaxLen : \A key \in [1..n -> Keys], gone \in 1..n :
        LET out == Drain(DeleteElem(Filled(n, key), key, gone), key)
        IN  /\ Len(out) = n - 1 /\ ToSet(out) = (1..n) \ {gone}
            /\ \A i \in 2..Len(out) : key[out[i - 1]] <= key[out[i]]

\* The heap operations of BinaryHeapInl.h on all heaps of up to six elements,
\* which is more than the timers of the state space fill it with: the tops come
\* out sorted, and none is lost or repeated.  It speaks of no variable; one
\* state is enough to evaluate it.
HeapSorts == Init => SortsUpTo(6, 1..3)
=============================================================================
