-------------------------- MODULE BinaryHeapProofs --------------------------
(***************************************************************************)
(* What the operations of LLBC_BinaryHeap do, for heaps of any size and    *)
(* any keys: Insert, DeleteTop and DeleteElem keep the heap a heap, and    *)
(* add or remove the one element.  The loops are Rounds of a body; a set   *)
(* of states for every number of rounds is their invariant.                *)
(***************************************************************************)
EXTENDS BinaryHeap, WellFoundedInduction, TLAPS

\* A leaf that names no prover is tried with SMT, then with Zenon, then once more.
USE SMTT(30), ZenonT(30), SMTT(60)

-----------------------------------------------------------------------------
(* Loops.                                                                  *)

\* A set of numbers that is not empty has a least element.
LEMMA Least ==
    ASSUME NEW T \in SUBSET Nat, T # {}
    PROVE  \E x \in T : \A y \in T : x <= y
  <1> DEFINE R == OpToRel(<, Nat)
  <1>1. IsWellFoundedOn(R, Nat)
    BY Zenon, NatLessThanWellFounded
  <1>2. \A x, y \in Nat : x < y => <<x, y>> \in R
    BY DEF OpToRel
  <1> HIDE DEF R
  <1>3. PICK x \in T : \A y \in T : ~ (<<y, x>> \in R)
    BY Zenon, <1>1, WFMin
  <1>4. x \in Nat /\ \A y \in T : y \in Nat
    OBVIOUS
  <1>5. \A y \in T : ~ (y < x)
    BY <1>2, <1>3, <1>4
  <1> QED  BY <1>4, <1>5

\* Induction, for a property given as the set of numbers that have it.
LEMMA SetInduction ==
    ASSUME NEW S \in SUBSET Nat, 0 \in S, \A n \in S : n + 1 \in S
    PROVE  S = Nat
  <1> SUFFICES ASSUME Nat \ S # {} PROVE FALSE
    OBVIOUS
  <1>1. PICK x \in Nat \ S : \A y \in Nat \ S : x <= y
    BY Zenon, Least
  <1>2. x - 1 \in Nat /\ x - 1 \in S
    BY <1>1
  <1> QED  BY <1>1, <1>2

\* The first n rounds of a loop.
Trace(body, s, n, g) ==
    /\ DOMAIN g = 0..n /\ g[0] = s
    /\ \A i \in 1..n : g[i] = body[g[i - 1]]

\* A loop can be followed for any number of rounds ...
LEMMA TraceExists ==
    ASSUME NEW body, NEW s, NEW n \in Nat
    PROVE  \E g : Trace(body, s, n, g)
  <1> DEFINE S == {m \in Nat : \E g : Trace(body, s, m, g)}
  <1>1. 0 \in S
    <2>1. Trace(body, s, 0, [i \in 0..0 |-> s])
      BY DEF Trace
    <2> QED  BY <2>1
  <1>2. ASSUME NEW m \in S PROVE m + 1 \in S
    <2>1. PICK g : Trace(body, s, m, g)
      OBVIOUS
    <2> DEFINE h == [i \in 0..(m + 1) |-> IF i = m + 1 THEN body[g[m]] ELSE g[i]]
    <2>2. Trace(body, s, m + 1, h)
      BY <2>1 DEF Trace
    <2> QED  BY <2>2
  <1>3. S = Nat
    BY Zenon, <1>1, <1>2, SetInduction
  <1> QED  BY <1>3

\* ... and its first rounds do not depend on how far it is followed.
LEMMA TracesAgree ==
    ASSUME NEW body, NEW s, NEW m \in Nat, NEW n \in Nat, NEW g, NEW h, m <= n,
           Trace(body, s, m, g), Trace(body, s, n, h)
    PROVE  \A i \in 0..m : g[i] = h[i]
  <1> DEFINE S == {i \in Nat : i <= m => g[i] = h[i]}
  <1>1. 0 \in S
    BY DEF Trace
  <1>2. ASSUME NEW i \in S PROVE i + 1 \in S
    <2>1. CASE i + 1 <= m
      <3>1. i + 1 \in 1..m /\ i + 1 \in 1..n /\ (i + 1) - 1 = i
        BY <2>1
      <3>2. g[i + 1] = body[g[i]] /\ h[i + 1] = body[h[i]]
        BY <3>1 DEF Trace
      <3> QED  BY <2>1, <3>2
    <2>2. CASE ~(i + 1 <= m)
      BY <2>2
    <2> QED  BY <2>1, <2>2
  <1>3. S = Nat
    BY Zenon, <1>1, <1>2, SetInduction
  <1> QED  BY <1>3

\* Rounds is what its recursive definition says: body is applied once in each
\* round.
LEMMA RoundsDef ==
    ASSUME NEW body, NEW s
    PROVE  /\ Rounds(body, s, 0) = s
           /\ \A n \in Nat : Rounds(body, s, n + 1) = body[Rounds(body, s, n)]
  <1> DEFINE c(n) == CHOOSE g : Trace(body, s, n, g)
             F == [n \in Nat |-> c(n)[n]]
             P(f) == f = [k \in Nat |-> IF k = 0 THEN s ELSE body[f[k - 1]]]
             at == CHOOSE f : P(f)
  <1>1. \A n \in Nat : Trace(body, s, n, c(n))
    BY TraceExists
  <1> HIDE DEF c
  <1>2. F[0] = s
    BY <1>1 DEF Trace
  <1>3. ASSUME NEW n \in Nat, n # 0 PROVE F[n] = body[F[n - 1]]
    <2>1. n - 1 \in Nat /\ n \in 1..n /\ n - 1 \in 0..(n-1) /\ n - 1 <= n
      BY <1>3
    <2>2. c(n)[n] = body[c(n)[n - 1]]
      BY <1>1, <2>1 DEF Trace
    <2>3. c(n - 1)[n - 1] = c(n)[n - 1]
      BY <1>1, <2>1, TracesAgree
    <2> QED  BY <2>1, <2>2, <2>3
  <1>4. P(F)
    <2>1. F = [k \in Nat |-> F[k]]
      OBVIOUS
    <2> HIDE DEF F
    <2> QED  BY <1>2, <1>3, <2>1
  <1> HIDE DEF F
  <1>5. P(at)
    <2> HIDE DEF P
    <2> QED BY <1>4
  <1>6. \A n : Rounds(body, s, n) = at[n]
    BY DEF Rounds
  <1> HIDE DEF at
  <1>7. at[0] = s
    BY <1>5
  <1>8. \A n \in Nat : at[n + 1] = body[at[n]]
    BY <1>5
  <1> QED  BY <1>6, <1>7, <1>8

\* J[n] holds the states the loop may be in after n rounds.
LEMMA LoopInvariant ==
    ASSUME NEW body, NEW s, NEW N \in Nat, NEW J, s \in J[0],
           \A n \in 0..(N - 1) : \A x \in J[n] : body[x] \in J[n + 1]
    PROVE  Rounds(body, s, N) \in J[N]
  <1> DEFINE S == {n \in Nat : n <= N => Rounds(body, s, n) \in J[n]}
  <1>1. 0 \in S
    BY RoundsDef
  <1>2. ASSUME NEW n \in S PROVE n + 1 \in S
    <2>1. Rounds(body, s, n + 1) = body[Rounds(body, s, n)]
      BY RoundsDef
    <2>2. n + 1 <= N => body[Rounds(body, s, n)] \in J[n + 1]
      OBVIOUS
    <2> QED  BY <2>1, <2>2
  <1>3. S = Nat
    BY Zenon, <1>1, <1>2, SetInduction
  <1> QED  BY <1>3

-----------------------------------------------------------------------------
(* Heaps.                                                                  *)

\* g has the elements of h in some order.
Rearranged(h, g) ==
    /\ Len(g) = Len(h) /\ (\A x : Holds(g, x) <=> Holds(h, x))
    /\ IsInjective(h) => IsInjective(g)

\* A round of Insert or PercolateDown loses no element and repeats none.
LEMMA SwapRearranges ==
    ASSUME NEW D, NEW h \in Seq(D), NEW i \in 1..Len(h), NEW j \in 1..Len(h)
    PROVE  Swap(h, i, j) \in Seq(D) /\ Rearranged(h, Swap(h, i, j))
  <1> DEFINE g == Swap(h, i, j)
             n == Len(h)
  <1>1. n \in Nat /\ h \in [1..n -> D]
    OBVIOUS
  <1> HIDE DEF n
  <1>2. /\ g \in [1..n -> D]
        /\ \A k \in 1..n : g[k] = IF k = j THEN h[i] ELSE IF k = i THEN h[j] ELSE h[k]
    BY <1>1 DEF n, Swap
  <1> HIDE DEF g
  <1>3. g \in Seq(D) /\ Len(g) = n
    BY <1>1, <1>2
  <1>4. ASSUME NEW k \in 1..n PROVE \E m \in 1..n : g[k] = h[m]
    BY <1>2 DEF n
  <1>5. ASSUME NEW k \in 1..n PROVE \E m \in 1..n : h[k] = g[m]
    <2>1. CASE k = i
      <3>1. h[k] = g[j]
        BY <1>2, <2>1 DEF n
      <3> QED BY <3>1 DEF n
    <2>2. CASE k = j
      <3>1. h[k] = g[i]
        BY <1>2, <2>2 DEF n
      <3> QED BY <3>1 DEF n
    <2>3. CASE k # i /\ k # j
      BY <1>2, <2>3
    <2> QED BY <2>1, <2>2, <2>3
  <1>6. \A x : Holds(g, x) <=> Holds(h, x)
    BY Zenon, <1>3, <1>4, <1>5 DEF Holds, n
  <1>7. IsInjective(h) => IsInjective(g)
    BY <1>1, <1>2 DEF IsInjective, n
  <1> QED  BY <1>3, <1>6, <1>7 DEF Rearranged, g, n

\* Rearranging twice is rearranging.
LEMMA RearrangedTwice ==
    ASSUME NEW f, NEW g, NEW h, Rearranged(f, g), Rearranged(g, h)
    PROVE  Rearranged(f, h)
  BY DEF Rearranged

\* The keys of the elements, by position.
Keys(h, key) == [k \in 1..Len(h) |-> key[h[k]]]

\* Keys gives a number for every position.
LEMMA KeysLemma ==
    ASSUME NEW D, NEW key \in [D -> Nat], NEW h \in Seq(D)
    PROVE  /\ Len(h) \in Nat /\ Keys(h, key) \in [1..Len(h) -> Nat]
           /\ \A k \in 1..Len(h) : Keys(h, key)[k] = key[h[k]]
  BY DEF Keys

\* Exchanging two elements exchanges their keys.
LEMMA SwapKeys ==
    ASSUME NEW D, NEW key \in [D -> Nat], NEW h \in Seq(D),
           NEW i \in 1..Len(h), NEW j \in 1..Len(h)
    PROVE  /\ Keys(h, key) \in [1..Len(h) -> Nat]
           /\ Keys(Swap(h, i, j), key) = Swap(Keys(h, key), i, j)
  <1> DEFINE g == Swap(h, i, j)
  <1>1. g \in Seq(D) /\ Len(g) = Len(h)
    BY SwapRearranges DEF Rearranged
  <1>2. \A k \in 1..Len(h) : g[k] = IF k = j THEN h[i] ELSE IF k = i THEN h[j] ELSE h[k]
    BY DEF Swap
  <1>3. Keys(h, key) \in [1..Len(h) -> Nat]
    BY DEF Keys
  <1> HIDE DEF g
  <1>4. Keys(g, key) = [Keys(h, key) EXCEPT ![i] = Keys(h, key)[j], ![j] = Keys(h, key)[i]]
    BY Zenon, <1>1, <1>2 DEF Keys
  <1> QED BY <1>3, <1>4 DEF Swap, g

-----------------------------------------------------------------------------
(* Insert.                                                                 *)

\* A heap but for the element at p, which may have a smaller key than its
\* parent; its children are in order with its parent.
UpOK(w, n, p) ==
    \A i \in 2..n : /\ i # p => w[i \div 2] <= w[i]
                    /\ i \div 2 = p /\ p > 1 => w[p \div 2] <= w[i]

\* A round of Insert moves the place of the possible disorder to the parent.
LEMMA RiseOrder ==
    ASSUME NEW n \in Nat, NEW w \in [1..n -> Nat], NEW p \in 2..n,
           UpOK(w, n, p), w[p] < w[p \div 2]
    PROVE  UpOK(Swap(w, p, p \div 2), n, p \div 2)
  <1> DEFINE q == p \div 2
             v == Swap(w, p, q)
  <1>1. p \in 1..n /\ q \in 1..n /\ q < p
    OBVIOUS
  <1>2. /\ v \in [1..n -> Nat]
        /\ \A k \in 1..n : v[k] = IF k = q THEN w[p] ELSE IF k = p THEN w[q] ELSE w[k]
    <2> HIDE DEF q
    <2> QED BY <1>1 DEF Swap
  <1> HIDE DEF v
  <1> SUFFICES ASSUME NEW i \in 2..n
               PROVE  /\ i # q => v[i \div 2] <= v[i]
                      /\ i \div 2 = q /\ q > 1 => v[q \div 2] <= v[i]
    BY DEF UpOK, v
  <1>4. i \in 1..n /\ i \div 2 \in 1..n /\ i \div 2 # i
    OBVIOUS
  <1>5. ASSUME i # q PROVE v[i \div 2] <= v[i]
    BY <1>1, <1>2, <1>4, <1>5 DEF UpOK
  <1>6. ASSUME i \div 2 = q, q > 1 PROVE v[q \div 2] <= v[i]
    <2>1. q \in 2..n /\ q \div 2 \in 1..n /\ q \div 2 # q /\ q \div 2 # p /\ q # p
      BY <1>1, <1>6
    <2>2. w[q \div 2] <= w[q] /\ v[q \div 2] = w[q \div 2]
      BY Zenon, <1>2, <2>1 DEF UpOK
    <2>3. CASE i = p
      BY <1>1, <1>2, <2>1, <2>2, <2>3
    <2>4. CASE i # p
      <3>1. w[q] <= w[i] /\ v[i] = w[i]
        BY <1>2, <1>4, <1>6, <2>1, <2>4 DEF UpOK
      <3> QED BY <1>1, <1>4, <2>1, <2>2, <3>1
    <2> QED BY <2>3, <2>4
  <1> QED  BY <1>5, <1>6

\* The loop of Insert has ended.
Risen(h, key, p) == ~(p > 1 /\ key[h[p]] < key[h[p \div 2]])

\* After n rounds: position 1 comes nearer with every round.
RiseInv(a, key, n, x) ==
    /\ Rearranged(a, x[1]) /\ x[2] \in 1..Len(a)
    /\ UpOK(Keys(x[1], key), Len(a), x[2])
    /\ x[2] + n <= Len(a) \/ Risen(x[1], key, x[2])

\* A sequence of some numbers is a sequence of numbers.
LEMMA WiderSeq ==
    ASSUME NEW D, D \subseteq Nat, NEW h \in Seq(D)
    PROVE  h \in Seq(Nat)
  <1>1. Len(h) \in Nat /\ \A i \in 1..Len(h) : h[i] \in Nat
    <2>1. Len(h) \in Nat /\ \A i \in 1..Len(h) : h[i] \in D
      OBVIOUS
    <2> QED BY <2>1
  <1>2. h = [i \in 1..Len(h) |-> h[i]]
    OBVIOUS
  <1>3. [i \in 1..Len(h) |-> h[i]] \in Seq(Nat)
    BY <1>1
  <1> QED BY <1>2, <1>3

\* A round of Insert keeps its loop invariant.
LEMMA RiseStep ==
    ASSUME NEW D, D \subseteq Nat, NEW key \in [D -> Nat], NEW a, Len(a) \in Nat,
           NEW n \in Nat, NEW x \in Seq(D) \X Nat, RiseInv(a, key, n, x)
    PROVE  Rise(key)[x] \in Seq(D) \X Nat /\ RiseInv(a, key, n + 1, Rise(key)[x])
  <1>1. PICK h \in Seq(D), p \in Nat : x = <<h, p>>
    OBVIOUS
  <1>2. /\ Rearranged(a, h) /\ p \in 1..Len(a) /\ UpOK(Keys(h, key), Len(a), p)
        /\ p + n <= Len(a) \/ Risen(h, key, p)
    BY <1>1 DEF RiseInv
  <1>3. Len(h) = Len(a)
    BY <1>2 DEF Rearranged
  <1>4. Rise(key)[x] = IF Risen(h, key, p) THEN x ELSE <<Swap(h, p, p \div 2), p \div 2>>
    <2>1. x \in LoopState
      BY Zenon, <1>1, WiderSeq DEF LoopState
    <2> QED BY Zenon, <1>1, <2>1 DEF Rise, Risen
  <1>5. CASE Risen(h, key, p)
    BY <1>1, <1>2, <1>4, <1>5 DEF RiseInv
  <1>6. CASE ~Risen(h, key, p)
    <2> DEFINE q == p \div 2
               g == Swap(h, p, q)
    <2>1. p \in 2..Len(h) /\ key[h[p]] < key[h[q]]
      BY <1>2, <1>3, <1>6 DEF Risen
    <2>2. p \in 1..Len(h) /\ q \in 1..Len(h) /\ q + 1 <= p
      BY <2>1
    <2>3. g \in Seq(D) /\ Rearranged(h, g)
      BY <2>2, SwapRearranges
    <2>4. Rearranged(a, g)
      BY <1>2, <2>3, RearrangedTwice
    <2>5. /\ Keys(h, key) \in [1..Len(h) -> Nat]
          /\ Keys(g, key) = Swap(Keys(h, key), p, q)
      BY Zenon, <2>2, SwapKeys
    <2>6. Keys(h, key)[p] < Keys(h, key)[q]
      BY <2>1, <2>2 DEF Keys
    <2>7. UpOK(Keys(g, key), Len(a), q)
      BY Zenon, <1>2, <1>3, <2>1, <2>5, <2>6, RiseOrder
    <2>8. q + (n + 1) <= Len(a)
      BY <1>2, <1>6, <2>2
    <2>9. Rise(key)[x] = <<g, q>>
      BY <1>4, <1>6
    <2> HIDE DEF g, q
    <2> QED BY <1>3, <2>2, <2>3, <2>4, <2>7, <2>8, <2>9 DEF RiseInv
  <1> QED  BY <1>5, <1>6

\* Append adds one element at the end.
LEMMA AppendLemma ==
    ASSUME NEW D, NEW h \in Seq(D), NEW e \in D
    PROVE  /\ Append(h, e) \in Seq(D) /\ Len(Append(h, e)) = Len(h) + 1
           /\ \A k \in 1..Len(h) : Append(h, e)[k] = h[k]
           /\ Append(h, e)[Len(h) + 1] = e
  OBVIOUS

\* LLBC_BinaryHeap::Insert adds the element and keeps the order; with a new
\* element none is in the heap twice.
THEOREM InsertKeepsHeap ==
    ASSUME NEW D, D \subseteq Nat, NEW key \in [D -> Nat], NEW h \in Seq(D), NEW e \in D,
           IsHeap(h, key)
    PROVE  LET g == Insert(h, key, e) IN
           /\ g \in Seq(D) /\ IsHeap(g, key)
           /\ \A x : Holds(g, x) <=> Holds(h, x) \/ x = e
           /\ IsInjective(h) /\ ~Holds(h, e) => IsInjective(g)
  <1> DEFINE a == Append(h, e)
             m == Len(h) + 1
             J == [n \in Nat |-> {x \in Seq(D) \X Nat : RiseInv(a, key, n, x)}]
             s == <<a, m>>
             r == Rounds(Rise(key), s, m)
  <1>1. /\ m \in Nat \ {0} /\ a \in Seq(D) /\ Len(a) = m /\ a[m] = e
        /\ \A k \in 1..Len(h) : a[k] = h[k]
    BY AppendLemma
  <1> HIDE DEF a
  <1>2. \A x : Holds(a, x) <=> Holds(h, x) \/ x = e
    BY <1>1 DEF Holds
  <1>3. IsInjective(h) /\ ~Holds(h, e) => IsInjective(a)
    <2> HAVE IsInjective(h) /\ ~Holds(h, e)
    <2>1. \A k \in 1..Len(h), l \in 1..Len(h) : h[k] = h[l] => k = l
      BY DEF IsInjective
    <2>2. \A k \in 1..Len(h) : h[k] # e
      BY DEF Holds
    <2>3. ASSUME NEW k \in 1..m, NEW l \in 1..m, a[k] = a[l] PROVE k = l
      <3>1. k = m \/ k \in 1..Len(h)
        OBVIOUS
      <3>2. l = m \/ l \in 1..Len(h)
        OBVIOUS
      <3> QED  BY <1>1, <2>1, <2>2, <2>3, <3>1, <3>2
    <2>4. DOMAIN a = 1..m
      BY <1>1
    <2> QED  BY <2>3, <2>4 DEF IsInjective
  <1>4. s \in J[0]
    <2>1. Rearranged(a, a)
      BY DEF Rearranged
    <2>2. UpOK(Keys(a, key), m, m)
      <3> SUFFICES ASSUME NEW i \in 2..m
                   PROVE /\ i # m => Keys(a, key)[i \div 2] <= Keys(a, key)[i]
                         /\ ~(i \div 2 = m)
        BY DEF UpOK
      <3>1. i \in 1..m /\ i \div 2 \in 1..m /\ i \div 2 < i
        BY <1>1
      <3>2. ASSUME i # m PROVE key[a[i \div 2]] <= key[a[i]]
        <4>1. i \in 2..Len(h) /\ i \in 1..Len(h) /\ i \div 2 \in 1..Len(h)
          BY <1>1, <3>1, <3>2
        <4>2. a[i] = h[i] /\ a[i \div 2] = h[i \div 2]
          BY <1>1, <4>1
        <4> QED BY <4>1, <4>2 DEF IsHeap
      <3> QED BY <1>1, <3>1, <3>2 DEF Keys
    <2> QED BY <1>1, <2>1, <2>2 DEF RiseInv
  <1>5. ASSUME NEW n \in Nat, NEW x \in J[n] PROVE Rise(key)[x] \in J[n + 1]
    <2>1. x \in Seq(D) \X Nat /\ RiseInv(a, key, n, x) /\ Len(a) \in Nat
      BY <1>1
    <2>2. Rise(key)[x] \in Seq(D) \X Nat /\ RiseInv(a, key, n + 1, Rise(key)[x])
      BY Zenon, <2>1, RiseStep
    <2> QED BY <2>2
  <1>6. r \in J[m]
    <2> HIDE DEF J, s
    <2>1. ASSUME NEW n \in 0..(m - 1), NEW x \in J[n] PROVE Rise(key)[x] \in J[n + 1]
      <3>1. n \in Nat
        BY <1>1
      <3> QED BY <1>5, <3>1
    <2> QED BY <1>1, <1>4, <2>1, LoopInvariant
  <1>7. r \in Seq(D) \X Nat /\ RiseInv(a, key, m, r)
    BY <1>1, <1>6
  <1> HIDE DEF r, J, s
  <1>8. PICK g \in Seq(D), p \in Nat : r = <<g, p>>
    BY <1>7
  <1>9. /\ Rearranged(a, g) /\ p \in 1..m /\ UpOK(Keys(g, key), m, p)
        /\ Risen(g, key, p) /\ Len(g) = m
    BY <1>1, <1>7, <1>8 DEF RiseInv, Rearranged
  <1>10. ASSUME NEW i \in 2..Len(g) PROVE key[g[i \div 2]] <= key[g[i]]
    <2>1. i \in 1..Len(g) /\ i \div 2 \in 1..Len(g) /\ i > 1
      BY <1>1, <1>9
    <2>2. CASE i = p
      <3>1. g[i] \in D /\ g[i \div 2] \in D
        <4> HIDE DEF m
        <4> QED BY <2>1
      <3>2. key[g[i]] \in Nat /\ key[g[i \div 2]] \in Nat
        BY Zenon, <3>1
      <3>3. ~(key[g[i]] < key[g[i \div 2]])
        BY <1>9, <2>1, <2>2 DEF Risen
      <3> QED BY <3>2, <3>3
    <2>3. CASE i # p
      BY Zenon, <1>9, <2>1, <2>3 DEF UpOK, Keys
    <2> QED BY <2>2, <2>3
  <1>11. Insert(h, key, e) = g
    BY <1>8 DEF Insert, PercolateUp, r, s, a
  <1> QED  BY <1>1, <1>2, <1>3, <1>9, <1>10, <1>11 DEF Rearranged, IsHeap

-----------------------------------------------------------------------------
(* PercolateDown and DeleteTop.                                             *)

\* In order from lo on but for the element at p, which may have a larger key
\* than its children; they are in order with its parent.
DownOK(w, n, lo, p) ==
    \A i \in 2..n : /\ i \div 2 >= lo /\ i \div 2 # p => w[i \div 2] <= w[i]
                    /\ i \div 2 = p /\ p \div 2 >= lo => w[p \div 2] <= w[i]

\* A round of PercolateDown moves the place of the possible disorder to the
\* smaller child.
LEMMA SinkOrder ==
    ASSUME NEW n \in Nat, NEW w \in [1..n -> Nat], NEW lo \in Nat \ {0}, NEW p \in lo..n,
           NEW c \in 1..n, c \div 2 = p, DownOK(w, n, lo, p), w[c] < w[p],
           \A i \in 2..n : i \div 2 = p => w[c] <= w[i]
    PROVE  DownOK(Swap(w, p, c), n, lo, c)
  <1> DEFINE v == Swap(w, p, c)
  <1>1. p \in 1..n /\ p < c
    OBVIOUS
  <1>2. /\ v \in [1..n -> Nat]
        /\ \A k \in 1..n : v[k] = IF k = c THEN w[p] ELSE IF k = p THEN w[c] ELSE w[k]
    BY <1>1 DEF Swap
  <1> HIDE DEF v
  <1> SUFFICES ASSUME NEW i \in 2..n
               PROVE  /\ i \div 2 >= lo /\ i \div 2 # c => v[i \div 2] <= v[i]
                      /\ i \div 2 = c => v[p] <= v[i]
    BY Zenon DEF DownOK, v
  <1>3. i \in 1..n /\ i \div 2 \in 1..n /\ i \div 2 < i
    OBVIOUS
  <1>4. ASSUME i \div 2 >= lo, i \div 2 # c PROVE v[i \div 2] <= v[i]
    <2>1. CASE i = c
      BY <1>1, <1>2, <2>1
    <2>2. CASE i # c /\ i \div 2 = p
      <3>1. i # p /\ p # c
        BY <1>1, <1>3, <2>2
      <3>2. v[p] = w[c]
        BY <1>1, <1>2, <3>1
      <3>3. v[i] = w[i]
        BY <1>2, <1>3, <2>2, <3>1
      <3>4. w[c] <= w[i]
        BY <2>2
      <3> QED BY Zenon, <2>2, <3>2, <3>3, <3>4
    <2>3. CASE i = p
      <3>1. p \div 2 \in 1..n /\ p \div 2 # p /\ p \div 2 # c
        BY <1>1, <1>3, <2>3
      <3>2. w[p \div 2] <= w[c]
        BY <1>1, <1>4, <2>3 DEF DownOK
      <3> QED BY Zenon, <1>1, <1>2, <2>3, <3>1, <3>2
    <2>4. CASE i # c /\ i # p /\ i \div 2 # p
      <3>1. w[i \div 2] <= w[i]
        BY <1>4, <2>4 DEF DownOK
      <3> QED BY <1>2, <1>3, <1>4, <2>4, <3>1
    <2> QED BY <2>1, <2>2, <2>3, <2>4
  <1>5. ASSUME i \div 2 = c PROVE v[p] <= v[i]
    <2>1. w[c] <= w[i]
      <3>1. i \div 2 >= lo /\ i \div 2 # p
        BY <1>1, <1>5
      <3>2. w[i \div 2] <= w[i]
        BY <3>1 DEF DownOK
      <3> QED BY Zenon, <1>5, <3>2
    <2>2. i # c /\ i # p
      BY <1>1, <1>3, <1>5
    <2> QED BY <1>1, <1>2, <1>3, <2>1, <2>2
  <1> QED  BY <1>4, <1>5

\* The child PercolateDown takes is the one with the smaller key, also when
\* there is only one.
LEMMA SmallerChildLemma ==
    ASSUME NEW D, NEW key \in [D -> Nat], NEW h \in Seq(D), NEW p \in 1..Len(h),
           2 * p <= Len(h)
    PROVE  LET c == SmallerChild(h, key, p) IN
           /\ c \in 2..Len(h) /\ c \div 2 = p
           /\ \A i \in 2..Len(h) : i \div 2 = p => Keys(h, key)[c] <= Keys(h, key)[i]
  <1> DEFINE n == Len(h)
             w == Keys(h, key)
             c == IF 2 * p # n /\ w[2 * p + 1] < w[2 * p] THEN 2 * p + 1 ELSE 2 * p
  <1>1. n \in Nat /\ w \in [1..n -> Nat] /\ \A k \in 1..n : w[k] = key[h[k]]
    BY DEF Keys
  <1>2. SmallerChild(h, key, p) = c
    BY <1>1 DEF SmallerChild
  <1> HIDE DEF n, w
  <1>3. /\ c \in 2..n /\ c \div 2 = p
        /\ \A i \in 2..n : i \div 2 = p => i = 2 * p \/ i = 2 * p + 1
    BY <1>1 DEF n
  <1>4. ASSUME NEW i \in 2..n, i \div 2 = p PROVE w[c] <= w[i]
    <2>1. CASE i = 2 * p
      <3>1. w[2 * p] \in Nat /\ (2 * p # n => w[2 * p + 1] \in Nat)
        BY <1>1, <2>1
      <3> QED BY <2>1, <3>1
    <2>2. CASE i = 2 * p + 1
      <3>1. w[2 * p + 1] \in Nat /\ w[2 * p] \in Nat /\ 2 * p # n
        BY <1>1, <2>2
      <3> QED BY <2>2, <3>1
    <2> QED BY <1>3, <1>4, <2>1, <2>2
  <1> QED  BY <1>2, <1>3, <1>4 DEF n, w

\* The loop of PercolateDown has ended.
Sunk(h, key, p) ==
    ~(2 * p <= Len(h) /\ key[h[SmallerChild(h, key, p)]] < key[h[p]])

\* After n rounds: the end of the heap comes nearer with every round.
SinkInv(a, key, lo, n, x) ==
    /\ Rearranged(a, x[1]) /\ x[2] \in lo..Len(a)
    /\ DownOK(Keys(x[1], key), Len(a), lo, x[2])
    /\ x[2] >= lo + n \/ Sunk(x[1], key, x[2])

\* A round of PercolateDown keeps its loop invariant.
LEMMA SinkStep ==
    ASSUME NEW D, D \subseteq Nat, NEW key \in [D -> Nat], NEW a, Len(a) \in Nat,
           NEW lo \in Nat \ {0}, NEW n \in Nat, NEW x \in Seq(D) \X Nat,
           SinkInv(a, key, lo, n, x)
    PROVE  Sink(key)[x] \in Seq(D) \X Nat /\ SinkInv(a, key, lo, n + 1, Sink(key)[x])
  <1>1. PICK h \in Seq(D), p \in Nat : x = <<h, p>>
    OBVIOUS
  <1> DEFINE c == SmallerChild(h, key, p)
  <1>2. /\ Rearranged(a, h) /\ p \in lo..Len(a) /\ DownOK(Keys(h, key), Len(a), lo, p)
        /\ p >= lo + n \/ Sunk(h, key, p)
    BY <1>1 DEF SinkInv
  <1>3. Len(h) = Len(a) /\ p \in 1..Len(h) /\ p \in lo..Len(h)
    BY <1>2 DEF Rearranged
  <1>4. Sink(key)[x] = IF Sunk(h, key, p) THEN x ELSE <<Swap(h, p, c), c>>
    <2>1. x \in LoopState
      BY Zenon, <1>1, WiderSeq DEF LoopState
    <2> QED BY Zenon, <1>1, <2>1 DEF Sink, Sunk
  <1>5. CASE Sunk(h, key, p)
    BY <1>1, <1>2, <1>4, <1>5 DEF SinkInv
  <1>6. CASE ~Sunk(h, key, p)
    <2> DEFINE g == Swap(h, p, c)
    <2>1. 2 * p <= Len(h) /\ key[h[c]] < key[h[p]]
      BY <1>6 DEF Sunk
    <2>2. /\ c \in 2..Len(h) /\ c \div 2 = p
          /\ \A i \in 2..Len(h) : i \div 2 = p => Keys(h, key)[c] <= Keys(h, key)[i]
      BY Zenon, <1>3, <2>1, SmallerChildLemma
    <2> HIDE DEF c
    <2>3. c \in 1..Len(h) /\ c >= p + 1 /\ c \in Nat
      BY <1>3, <2>2
    <2>4. g \in Seq(D) /\ Rearranged(h, g)
      BY <1>3, <2>3, SwapRearranges
    <2>5. Rearranged(a, g)
      BY <1>2, <2>4, RearrangedTwice
    <2>6. /\ Keys(h, key) \in [1..Len(h) -> Nat]
          /\ Keys(g, key) = Swap(Keys(h, key), p, c)
      BY Zenon, <1>3, <2>3, SwapKeys
    <2>7. Keys(h, key)[c] < Keys(h, key)[p]
      BY <1>3, <2>1, <2>3 DEF Keys
    <2>8. DownOK(Keys(g, key), Len(a), lo, c)
      <3>1. DownOK(Keys(h, key), Len(h), lo, p) /\ Len(h) \in Nat
        BY <1>2, <1>3
      <3>2. DownOK(Swap(Keys(h, key), p, c), Len(h), lo, c)
        BY Zenon, <1>3, <2>2, <2>3, <2>6, <2>7, <3>1, SinkOrder
      <3> QED BY <1>3, <2>6, <3>2
    <2>9. c >= lo + (n + 1) /\ c \in lo..Len(a)
      BY <1>2, <1>3, <1>6, <2>3
    <2>10. Sink(key)[x] = <<g, c>>
      BY <1>4, <1>6
    <2> HIDE DEF g
    <2> QED BY <2>3, <2>4, <2>5, <2>8, <2>9, <2>10 DEF SinkInv
  <1> QED  BY <1>5, <1>6

\* The elements from lo on are in order with their children.
HeapFrom(h, key, lo) ==
    \A i \in 2..Len(h) : i \div 2 >= lo => key[h[i \div 2]] <= key[h[i]]

\* PercolateDown(lo) orders what is below lo, if all below that is in order.
LEMMA PercolateDownLemma ==
    ASSUME NEW D, D \subseteq Nat, NEW key \in [D -> Nat], NEW h \in Seq(D),
           NEW lo \in 1..Len(h), HeapFrom(h, key, lo + 1)
    PROVE  LET g == PercolateDown(h, key, lo) IN
           g \in Seq(D) /\ Rearranged(h, g) /\ HeapFrom(g, key, lo)
  <1> DEFINE m == Len(h)
             J == [n \in Nat |-> {x \in Seq(D) \X Nat : SinkInv(h, key, lo, n, x)}]
             s == <<h, lo>>
             r == Rounds(Sink(key), s, m)
  <1>1. m \in Nat /\ lo \in Nat \ {0} /\ lo \in 1..m
    OBVIOUS
  <1>2. s \in J[0]
    <2>1. Rearranged(h, h)
      BY DEF Rearranged
    <2>2. DownOK(Keys(h, key), m, lo, lo)
      BY <1>1 DEF DownOK, Keys, HeapFrom
    <2> QED BY <1>1, <2>1, <2>2 DEF SinkInv
  <1>3. ASSUME NEW n \in Nat, NEW x \in J[n] PROVE Sink(key)[x] \in J[n + 1]
    <2>1. x \in Seq(D) \X Nat /\ SinkInv(h, key, lo, n, x)
      OBVIOUS
    <2>2. Sink(key)[x] \in Seq(D) \X Nat /\ SinkInv(h, key, lo, n + 1, Sink(key)[x])
      BY <1>1, <2>1, SinkStep
    <2> QED BY <2>2
  <1>4. r \in J[m]
    <2> HIDE DEF J, s
    <2>1. ASSUME NEW n \in 0..(m - 1), NEW x \in J[n] PROVE Sink(key)[x] \in J[n + 1]
      <3>1. n \in Nat
        BY <1>1
      <3> QED BY <1>3, <3>1
    <2> QED BY <1>1, <1>2, <2>1, LoopInvariant
  <1>5. r \in Seq(D) \X Nat /\ SinkInv(h, key, lo, m, r)
    BY <1>1, <1>4
  <1> HIDE DEF r, J, s
  <1>6. PICK g \in Seq(D), p \in Nat : r = <<g, p>>
    BY <1>5
  <1>7. /\ Rearranged(h, g) /\ p \in lo..m /\ DownOK(Keys(g, key), m, lo, p)
        /\ Sunk(g, key, p) /\ Len(g) = m
    BY <1>1, <1>5, <1>6 DEF SinkInv, Rearranged
  <1> DEFINE w == Keys(g, key)
  <1> HIDE DEF m, w
  <1>11. w \in [1..m -> Nat] /\ \A k \in 1..m : w[k] = key[g[k]]
    <2>1. Keys(g, key) \in [1..Len(g) -> Nat]
      BY Zenon, KeysLemma
    <2>2. \A k \in 1..Len(g) : Keys(g, key)[k] = key[g[k]]
      BY DEF Keys
    <2> QED BY <1>7, <2>1, <2>2 DEF w
  <1>8. ASSUME NEW i \in 2..m, i \div 2 >= lo PROVE key[g[i \div 2]] <= key[g[i]]
    <2>1. i \in 1..m /\ i \div 2 \in 1..m
      BY <1>1
    <2>2. CASE i \div 2 = p
      <3> DEFINE c == SmallerChild(g, key, p)
      <3>1. 2 * p <= Len(g) /\ p \in 1..Len(g)
        BY <1>1, <1>7, <2>2
      <3>2. c \in 2..m /\ w[c] <= w[i]
        BY Zenon, <1>7, <2>2, <3>1, SmallerChildLemma DEF w
      <3>3. ~(key[g[c]] < key[g[p]])
        BY <1>7, <3>1 DEF Sunk
      <3> HIDE DEF c
      <3>4. p \in 1..m /\ c \in 1..m
        BY <1>1, <1>7, <3>1, <3>2
      <3>5. w[c] \in Nat /\ w[p] \in Nat /\ w[i] \in Nat
        BY Zenon, <1>11, <2>1, <3>4
      <3>6. w[p] <= w[c]
        BY <1>11, <3>3, <3>4, <3>5
      <3>7. w[p] <= w[i]
        BY <3>2, <3>5, <3>6
      <3> QED BY Zenon, <1>11, <2>1, <2>2, <3>7
    <2>3. CASE i \div 2 # p
      <3>1. w[i \div 2] <= w[i]
        BY <1>7, <1>8, <2>3 DEF DownOK, w
      <3> QED BY <1>11, <2>1, <3>1
    <2> QED BY <2>2, <2>3
  <1>9. HeapFrom(g, key, lo)
    BY <1>7, <1>8 DEF HeapFrom
  <1>10. PercolateDown(h, key, lo) = g
    BY <1>6 DEF PercolateDown, r, s, m
  <1> QED  BY <1>7, <1>9, <1>10

\* Order from the first position on is the order of a heap.
LEMMA HeapFromOne ==
    ASSUME NEW h, NEW key, Len(h) \in Nat
    PROVE  HeapFrom(h, key, 1) <=> IsHeap(h, key)
  <1>1. \A i \in 2..Len(h) : i \div 2 >= 1
    OBVIOUS
  <1> QED  BY <1>1 DEF HeapFrom, IsHeap

\* The top of a heap has the smallest key: what FindTop gives Update is due
\* before everything else.
LEMMA TopIsLeast ==
    ASSUME NEW D, NEW key \in [D -> Nat], NEW h \in Seq(D), IsHeap(h, key),
           NEW i \in 1..Len(h)
    PROVE  key[h[1]] <= key[h[i]]
  <1> DEFINE w == Keys(h, key)
             n == Len(h)
             B == {k \in 1..n : ~(w[1] <= w[k])}
  <1>1. n \in Nat /\ w \in [1..n -> Nat] /\ \A k \in 1..n : w[k] = key[h[k]]
    BY DEF Keys
  <1>2. \A k \in 2..n : w[k \div 2] <= w[k]
    <2>1. ASSUME NEW k \in 2..n PROVE w[k \div 2] <= w[k]
      <3>1. k \in 1..n /\ k \div 2 \in 1..n
        OBVIOUS
      <3> HIDE DEF w
      <3> QED BY <1>1, <3>1 DEF IsHeap
    <2> QED BY <2>1
  <1> HIDE DEF n, w
  <1>3. ASSUME B # {} PROVE FALSE
    <2>1. PICK x \in B : \A y \in B : x <= y
      <3>1. B \in SUBSET Nat
        BY <1>1
      <3> HIDE DEF B
      <3> QED BY Zenon, <1>3, <3>1, Least
    <2> DEFINE y == x \div 2
    <2>2. x \in 2..n /\ x \in 1..n
      BY <1>1, <2>1
    <2>3. y \in 1..n /\ y < x
      BY <1>1, <2>2
    <2>4. w[y] <= w[x]
      BY <1>2, <2>2
    <2>5. 1 \in 1..n /\ ~(w[1] <= w[x])
      BY <1>1, <2>1, <2>2
    <2> HIDE DEF y
    <2>6. w[1] <= w[y]
      BY <1>1, <2>1, <2>2, <2>3
    <2> QED BY <1>1, <2>2, <2>3, <2>4, <2>5, <2>6
  <1>4. i \in 1..n /\ 1 \in 1..n
    BY <1>1 DEF n
  <1>5. w[1] <= w[i]
    BY <1>3, <1>4
  <1> QED  BY <1>1, <1>4, <1>5

\* The last element written over the first.
LEMMA FirstReplaced ==
    ASSUME NEW D, NEW f \in Seq(D), NEW e \in D
    PROVE  /\ [f EXCEPT ![1] = e] \in Seq(D) /\ Len([f EXCEPT ![1] = e]) = Len(f)
           /\ \A k \in 1..Len(f) : [f EXCEPT ![1] = e][k] = IF k = 1 THEN e ELSE f[k]
  <1> DEFINE b == [f EXCEPT ![1] = e]
             n == Len(f)
  <1>1. n \in Nat /\ f \in [1..n -> D]
    OBVIOUS
  <1> HIDE DEF n
  <1>2. /\ b \in [1..n -> D]
        /\ \A k \in 1..n : b[k] = IF k = 1 THEN e ELSE f[k]
    BY <1>1
  <1> HIDE DEF b
  <1>3. b \in Seq(D) /\ Len(b) = n
    BY <1>1, <1>2
  <1> QED  BY <1>2, <1>3 DEF b, n

\* LLBC_BinaryHeap::DeleteTop removes the top and nothing else, and keeps the
\* order.
THEOREM DeleteTopKeepsHeap ==
    ASSUME NEW D, D \subseteq Nat, NEW key \in [D -> Nat], NEW h \in Seq(D), h # <<>>,
           IsHeap(h, key), IsInjective(h)
    PROVE  LET g == DeleteTop(h, key) IN
           /\ g \in Seq(D) /\ IsHeap(g, key) /\ IsInjective(g)
           /\ \A x : Holds(g, x) <=> Holds(h, x) /\ x # h[1]
  <1> DEFINE n == Len(h)
             f == SubSeq(h, 1, n - 1)
             b == [f EXCEPT ![1] = h[n]]
  <1>1. n \in Nat \ {0} /\ h \in [1..n -> D]
    OBVIOUS
  <1>2. CASE n = 1
    <2>1. DeleteTop(h, key) = <<>>
      BY <1>2 DEF DeleteTop
    <2>2. \A x : Holds(h, x) => x = h[1]
      BY <1>1, <1>2 DEF Holds
    <2>3. <<>> \in Seq(D) /\ Len(<<>>) = 0 /\ DOMAIN <<>> = {}
      OBVIOUS
    <2>4. IsHeap(<<>>, key) /\ IsInjective(<<>>) /\ \A x : ~Holds(<<>>, x)
      BY <2>3 DEF IsHeap, IsInjective, Holds
    <2> QED BY <2>1, <2>2, <2>3, <2>4
  <1>3. CASE n # 1
    <2>1. /\ b \in Seq(D) /\ Len(b) = n - 1 /\ DOMAIN b = 1..(n - 1)
          /\ \A k \in 1..(n - 1) : b[k] = IF k = 1 THEN h[n] ELSE h[k]
      <3>1. f \in Seq(D) /\ Len(f) = n - 1 /\ \A k \in 1..(n - 1) : f[k] = h[k]
        BY <1>1, <1>3
      <3>2. h[n] \in D /\ n - 1 \in Nat
        BY <1>1
      <3>3. /\ b \in Seq(D) /\ Len(b) = Len(f)
            /\ \A k \in 1..Len(f) : b[k] = IF k = 1 THEN h[n] ELSE f[k]
        <4> HIDE DEF n, f
        <4> QED BY <3>1, <3>2, FirstReplaced
      <3> HIDE DEF n, b, f
      <3> QED BY <3>1, <3>2, <3>3
    <2> HIDE DEF b, n
    <2>2. \A k \in 1..n, l \in 1..n : h[k] = h[l] => k = l
      BY <1>1 DEF IsInjective
    <2>3. IsInjective(b)
      BY <1>1, <1>3, <2>1, <2>2 DEF IsInjective
    <2>4. ASSUME NEW x PROVE Holds(b, x) <=> Holds(h, x) /\ x # h[1]
      <3>1. ASSUME NEW k \in 1..(n - 1), b[k] = x PROVE Holds(h, x) /\ x # h[1]
        <4>1. CASE k = 1
          <5>1. x = h[n] /\ n \in 1..n /\ 1 \in 1..n
            BY <1>1, <2>1, <3>1, <4>1
          <5> QED BY <1>3, <2>2, <5>1 DEF Holds, n
        <4>2. CASE k # 1
          <5>1. x = h[k] /\ k \in 1..n /\ 1 \in 1..n
            BY <1>1, <2>1, <3>1, <4>2
          <5> QED BY <2>2, <4>2, <5>1 DEF Holds, n
        <4> QED BY <4>1, <4>2
      <3>2. ASSUME NEW k \in 1..n, h[k] = x, x # h[1] PROVE \E j \in 1..(n - 1) : b[j] = x
        <4>1. CASE k = n
          <5>1. 1 \in 1..(n - 1) /\ b[1] = x
            BY <1>1, <1>3, <2>1, <3>2, <4>1
          <5> QED BY <5>1
        <4>2. CASE k # n
          <5>1. k \in 1..(n - 1) /\ k # 1
            BY <1>1, <3>2, <4>2
          <5> QED BY <2>1, <3>2, <5>1
        <4> QED BY <4>1, <4>2
      <3> QED BY <2>1, <3>1, <3>2 DEF Holds, n
    <2>5. HeapFrom(b, key, 2)
      <3> SUFFICES ASSUME NEW i \in 2..(n - 1), i \div 2 >= 2
                   PROVE  key[b[i \div 2]] <= key[b[i]]
        BY <2>1 DEF HeapFrom
      <3>1. i \in 2..n /\ i \in 1..(n - 1) /\ i \div 2 \in 1..(n - 1) /\ i # 1 /\ i \div 2 # 1
        BY <1>1
      <3> QED BY Zenon, <2>1, <3>1 DEF IsHeap, n
    <2> DEFINE g == PercolateDown(b, key, 1)
    <2>6. g \in Seq(D) /\ Rearranged(b, g) /\ HeapFrom(g, key, 1)
      <3>1. 1 \in 1..Len(b) /\ HeapFrom(b, key, 1 + 1)
        BY <1>1, <1>3, <2>1, <2>5
      <3> QED BY Zenon, <2>1, <3>1, PercolateDownLemma
    <2>7. DeleteTop(h, key) = g
      BY <1>3 DEF DeleteTop, b, n
    <2> HIDE DEF g
    <2>8. IsHeap(g, key)
      BY <2>6, HeapFromOne
    <2> QED BY <2>3, <2>4, <2>6, <2>7, <2>8 DEF Rearranged
  <1> QED  BY <1>2, <1>3

-----------------------------------------------------------------------------
(* BuildHeap and DeleteElem.                                               *)

\* After n rounds the elements behind the position x[2] are in order.
BuildInv(h, key, n, x) ==
    /\ Rearranged(h, x[1]) /\ x[2] + n = Len(h) \div 2 /\ HeapFrom(x[1], key, x[2] + 1)

\* BuildHeap makes a heap of any sequence of elements.
LEMMA BuildHeapLemma ==
    ASSUME NEW D, D \subseteq Nat, NEW key \in [D -> Nat], NEW h \in Seq(D)
    PROVE  LET g == BuildHeap(h, key) IN
           g \in Seq(D) /\ Rearranged(h, g) /\ IsHeap(g, key)
  <1> DEFINE m == Len(h) \div 2
             J == [n \in Nat |-> {x \in Seq(D) \X Nat : BuildInv(h, key, n, x)}]
             s == <<h, m>>
             r == Rounds(Build(key), s, m)
  <1>1. m \in Nat /\ m <= Len(h) /\ Len(h) \in Nat
    OBVIOUS
  <1>2. s \in J[0]
    <2>1. Rearranged(h, h)
      BY DEF Rearranged
    <2>2. HeapFrom(h, key, m + 1)
      BY <1>1 DEF HeapFrom
    <2> QED BY <1>1, <2>1, <2>2 DEF BuildInv
  <1>3. ASSUME NEW n \in 0..(m - 1), NEW x \in J[n] PROVE Build(key)[x] \in J[n + 1]
    <2>1. PICK f \in Seq(D), p \in Nat : x = <<f, p>> /\ BuildInv(h, key, n, x)
      BY <1>1
    <2>2. Rearranged(h, f) /\ p + n = m /\ HeapFrom(f, key, p + 1)
      BY <2>1 DEF BuildInv
    <2> DEFINE g == PercolateDown(f, key, p)
    <2> HIDE DEF J, m
    <2>3. Len(f) = Len(h) /\ p \in 1..Len(f) /\ n \in Nat
      BY <1>1, <2>2 DEF Rearranged
    <2>4. g \in Seq(D) /\ Rearranged(f, g) /\ HeapFrom(g, key, p)
      BY Zenon, <2>2, <2>3, PercolateDownLemma
    <2>5. Build(key)[x] = <<g, p - 1>>
      <3>1. x \in LoopState
        BY Zenon, <2>1, WiderSeq DEF LoopState
      <3> QED BY <2>1, <3>1 DEF Build
    <2> HIDE DEF g
    <2>6. p - 1 \in Nat /\ (p - 1) + (n + 1) = m /\ (p - 1) + 1 = p
      BY <1>1, <2>2, <2>3
    <2>7. Rearranged(h, g)
      BY <2>2, <2>4, RearrangedTwice
    <2>8. BuildInv(h, key, n + 1, <<g, p - 1>>)
      BY <2>4, <2>6, <2>7 DEF BuildInv, m
    <2>9. n + 1 \in Nat /\ <<g, p - 1>> \in Seq(D) \X Nat
      BY <2>3, <2>4, <2>6
    <2> QED BY <2>5, <2>8, <2>9 DEF J
  <1>4. r \in J[m]
    <2> HIDE DEF J, s, m
    <2> QED BY Zenon, <1>1, <1>2, <1>3, LoopInvariant
  <1>5. r \in Seq(D) \X Nat /\ BuildInv(h, key, m, r)
    BY <1>1, <1>4
  <1> HIDE DEF r, J, s
  <1>6. PICK g \in Seq(D), p \in Nat : r = <<g, p>>
    BY <1>5
  <1>7. Rearranged(h, g) /\ p = 0 /\ HeapFrom(g, key, 1)
    BY <1>1, <1>5, <1>6 DEF BuildInv
  <1>8. IsHeap(g, key)
    BY <1>7, HeapFromOne
  <1>9. BuildHeap(h, key) = g
    BY <1>6 DEF BuildHeap, r, s
  <1> QED  BY <1>7, <1>8, <1>9

\* The search of DeleteElem stops at a position that holds the element.
LEMMA FoundAt ==
    ASSUME NEW h, Len(h) \in Nat, NEW e, Holds(h, e)
    PROVE  FirstAt(h, e) \in 1..Len(h) /\ h[FirstAt(h, e)] = e
  <1> DEFINE I == {i \in 1..Len(h) : h[i] = e}
  <1>1. I \in SUBSET Nat /\ I # {}
    BY DEF Holds
  <1> HIDE DEF I
  <1>2. \E x \in I : \A y \in I : x <= y
    BY Zenon, <1>1, Least
  <1>3. \E x \in 1..Len(h) : h[x] = e /\ \A j \in 1..(x - 1) : h[j] # e
    <2>1. PICK x \in I : \A y \in I : x <= y
      BY <1>2
    <2>2. x \in 1..Len(h) /\ h[x] = e
      BY <2>1 DEF I
    <2>3. ASSUME NEW j \in 1..(x - 1), h[j] = e PROVE FALSE
      <3>1. j \in I
        BY <2>2, <2>3 DEF I
      <3> QED  BY <2>1, <2>2, <3>1
    <2> QED  BY <2>2, <2>3
  <1> QED  BY <1>3 DEF FirstAt

\* The elements behind the removed one move up.
LEMMA WithoutLemma ==
    ASSUME NEW D, NEW h \in Seq(D), NEW i \in 1..Len(h)
    PROVE  /\ Without(h, i) \in Seq(D) /\ Len(Without(h, i)) = Len(h) - 1
           /\ \A k \in 1..(Len(h) - 1) :
                Without(h, i)[k] = IF k < i THEN h[k] ELSE h[k + 1]
  <1> DEFINE n == Len(h)
             f == SubSeq(h, 1, i - 1)
             b == SubSeq(h, i + 1, n)
  <1>1. n \in Nat /\ i \in 1..n
    OBVIOUS
  <1>2. f \in Seq(D) /\ Len(f) = i - 1 /\ \A k \in 1..(i - 1) : f[k] = h[k]
    OBVIOUS
  <1>3. b \in Seq(D) /\ Len(b) = n - i /\ \A k \in 1..(n - i) : b[k] = h[k + i]
    OBVIOUS
  <1>4. Without(h, i) = f \o b
    BY DEF Without
  <1> HIDE DEF f, b, n
  <1>5. /\ f \o b \in Seq(D) /\ Len(f \o b) = Len(f) + Len(b)
        /\ \A k \in 1..(Len(f) + Len(b)) :
             (f \o b)[k] = IF k <= Len(f) THEN f[k] ELSE b[k - Len(f)]
    <2>1. f \in Seq(D) /\ b \in Seq(D)
      BY <1>2, <1>3
    <2>2. f \o b \in Seq(D) /\ Len(f \o b) = Len(f) + Len(b)
      BY <2>1
    <2>3. \A k \in 1..(Len(f) + Len(b)) :
             (f \o b)[k] = IF k <= Len(f) THEN f[k] ELSE b[k - Len(f)]
      BY <2>1
    <2> QED BY <2>2, <2>3
  <1>6. Len(f) + Len(b) = n - 1
    BY <1>1, <1>2, <1>3
  <1>7. ASSUME NEW k \in 1..(n - 1)
        PROVE  (f \o b)[k] = IF k < i THEN h[k] ELSE h[k + 1]
    <2>1. CASE k < i
      BY <1>1, <1>2, <1>5, <1>6, <2>1
    <2>2. CASE ~(k < i)
      <3>1. k - Len(f) \in 1..(n - i) /\ (k - Len(f)) + i = k + 1 /\ ~(k <= Len(f))
        BY <1>1, <1>2, <2>2
      <3> QED BY <1>3, <1>5, <1>6, <2>2, <3>1
    <2> QED BY Zenon, <2>1, <2>2
  <1> QED  BY <1>4, <1>5, <1>6, <1>7 DEF n

\* LLBC_BinaryHeap::DeleteElem removes the element and nothing else, wherever
\* it is, and leaves a heap.
THEOREM DeleteElemKeepsHeap ==
    ASSUME NEW D, D \subseteq Nat, NEW key \in [D -> Nat], NEW h \in Seq(D),
           IsInjective(h), NEW e, Holds(h, e)
    PROVE  LET g == DeleteElem(h, key, e) IN
           /\ g \in Seq(D) /\ IsHeap(g, key) /\ IsInjective(g)
           /\ \A x : Holds(g, x) <=> Holds(h, x) /\ x # e
  <1> DEFINE n == Len(h)
             i == FirstAt(h, e)
             b == Without(h, i)
             g == BuildHeap(b, key)
  <1>1. n \in Nat /\ i \in 1..n /\ h[i] = e
    <2>1. n \in Nat
      OBVIOUS
    <2> QED BY <2>1, FoundAt
  <1> HIDE DEF i
  <1>2. /\ b \in Seq(D) /\ Len(b) = n - 1 /\ DOMAIN b = 1..(n - 1)
        /\ \A k \in 1..(n - 1) : b[k] = IF k < i THEN h[k] ELSE h[k + 1]
    BY <1>1, WithoutLemma
  <1>3. \A k \in 1..n, l \in 1..n : h[k] = h[l] => k = l
    BY <1>1 DEF IsInjective
  <1> HIDE DEF n, b
  <1>4. IsInjective(b)
    <2>1. ASSUME NEW k \in 1..(n - 1), NEW l \in 1..(n - 1), b[k] = b[l] PROVE k = l
      <3> DEFINE at(j) == IF j < i THEN j ELSE j + 1
      <3>1. at(k) \in 1..n /\ at(l) \in 1..n
        BY <1>1
      <3>2. h[at(k)] = h[at(l)]
        BY <1>2, <2>1
      <3>3. at(k) = at(l)
        BY Zenon, <1>3, <3>1, <3>2
      <3> QED BY <1>1, <3>3
    <2> QED BY <1>2, <2>1 DEF IsInjective
  <1>5. ASSUME NEW x PROVE Holds(b, x) <=> Holds(h, x) /\ x # e
    <2>1. ASSUME NEW k \in 1..(n - 1), b[k] = x PROVE Holds(h, x) /\ x # e
      <3>1. \E l \in 1..n : l # i /\ h[l] = x
        BY <1>1, <1>2, <2>1
      <3> QED BY <1>1, <1>3, <3>1 DEF Holds, n
    <2>2. ASSUME NEW k \in 1..n, h[k] = x, x # e PROVE \E j \in 1..(n - 1) : b[j] = x
      <3>1. CASE k < i
        <4>1. k \in 1..(n - 1) /\ b[k] = x
          BY <1>1, <1>2, <2>2, <3>1
        <4> QED BY <4>1
      <3>2. CASE ~(k < i)
        <4>1. k # i
          BY <1>1, <2>2
        <4>2. k - 1 \in 1..(n - 1) /\ ~(k - 1 < i) /\ (k - 1) + 1 = k
          BY <1>1, <3>2, <4>1
        <4> QED BY <1>2, <2>2, <4>2
      <3> QED BY <3>1, <3>2
    <2> QED BY Zenon, <1>2, <2>1, <2>2 DEF Holds, n
  <1>6. g \in Seq(D) /\ Rearranged(b, g) /\ IsHeap(g, key)
    BY Zenon, <1>2, BuildHeapLemma
  <1>7. DeleteElem(h, key, e) = g
    BY DEF DeleteElem, i, b
  <1> HIDE DEF g
  <1> QED  BY <1>4, <1>5, <1>6, <1>7 DEF Rearranged
=============================================================================
