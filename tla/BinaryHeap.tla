----------------------------- MODULE BinaryHeap -----------------------------
(***************************************************************************)
(* LLBC_BinaryHeap of src/llbc (BinaryHeapInl.h) as operators on the       *)
(* sequence of its elements, which are numbers.  key[e] is what the        *)
(* comparison of two elements looks at.                                    *)
(***************************************************************************)
EXTENDS Integers, Sequences, Functions

-----------------------------------------------------------------------------
(* What the operations keep, and what a heap holds.                        *)

Holds(h, x) == \E i \in 1..Len(h) : h[i] = x
IsHeap(h, key) == \A i \in 2..Len(h) : key[h[i \div 2]] <= key[h[i]]

-----------------------------------------------------------------------------
(* The operations.                                                         *)

\* What a loop of the heap works on: the elements and a position.
LoopState == Seq(Nat) \X Nat

\* Where a loop is after n rounds of body from s; a body that would end the
\* loop leaves the state as it is.
Rounds(body, s, n) == LET at[k \in Nat] == IF k = 0 THEN s ELSE body[at[k - 1]] IN at[n]

Swap(h, i, j) == [h EXCEPT ![i] = h[j], ![j] = h[i]]

\* The loop of Insert: the new element rises above its larger ancestors.
Rise(key) ==
    [s \in LoopState |->
       LET h == s[1]
           pos == s[2]
           parent == pos \div 2
       IN  IF pos > 1 /\ key[h[pos]] < key[h[parent]]
             THEN <<Swap(h, pos, parent), parent>> ELSE s]

PercolateUp(h, key, pos) == Rounds(Rise(key), <<h, pos>>, pos)[1]

AppendOnly(h, key, elem) == Append(h, elem)  \* mutant of Insert

Insert(h, key, elem) == PercolateUp(Append(h, elem), key, Len(h) + 1)

FirstChild(h, key, index) == 2 * index      \* mutant: the other child is forgotten

\* The child that PercolateDown compares with.
SmallerChild(h, key, index) ==
    LET child == 2 * index
    IN  IF child # Len(h) /\ key[h[child + 1]] < key[h[child]] THEN child + 1 ELSE child

\* The loop of PercolateDown.
Sink(key) ==
    [s \in LoopState |->
       LET h == s[1]
           index == s[2]
           child == SmallerChild(h, key, index)
       IN  IF 2 * index <= Len(h) /\ key[h[child]] < key[h[index]]
             THEN <<Swap(h, index, child), child>> ELSE s]

PercolateDown(h, key, index) == Rounds(Sink(key), <<h, index>>, Len(h))[1]

\* The last element takes the place of the first and sinks.
DeleteTop(h, key) ==
    IF Len(h) = 1 THEN <<>>
    ELSE PercolateDown([SubSeq(h, 1, Len(h) - 1) EXCEPT ![1] = h[Len(h)]], key, 1)

\* The loop of BuildHeap, from the last element that has a child to the first.
Build(key) == [s \in LoopState |-> <<PercolateDown(s[1], key, s[2]), s[2] - 1>>]

BuildHeap(h, key) ==
    Rounds(Build(key), <<h, Len(h) \div 2>>, Len(h) \div 2)[1]

\* The elements behind the one at i move up.
Without(h, i) == SubSeq(h, 1, i - 1) \o SubSeq(h, i + 1, Len(h))

\* Where the search of DeleteElem(elem) ends.
FirstAt(h, elem) ==
    CHOOSE i \in 1..Len(h) : h[i] = elem /\ \A j \in 1..(i - 1) : h[j] # elem

\* DeleteElem(elem): the first such element goes, and the heap is rebuilt.
DeleteElem(h, key, elem) ==
    IF Holds(h, elem) THEN BuildHeap(Without(h, FirstAt(h, elem)), key) ELSE h
=============================================================================
