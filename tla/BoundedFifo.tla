---------------------------- MODULE BoundedFifo ----------------------------
(***************************************************************************)
(* What a queue between two threads promises: values come out in the order *)
(* they went in, each once, and no more than Bound are inside.             *)
(***************************************************************************)
EXTENDS Naturals, Sequences

CONSTANTS Values, Bound

VARIABLES
    q,      \* the values inside, oldest first
    out     \* what the last successful Pop returned

fifoVars == <<q, out>>

Init == q = <<>> /\ out \notin Values

Push(v) == Len(q) < Bound /\ q' = Append(q, v) /\ UNCHANGED out

Pop == q # <<>> /\ q' = Tail(q) /\ out' = Head(q)

Next == (\E v \in Values : Push(v)) \/ Pop

Spec == Init /\ [][Next]_fifoVars
=============================================================================
