------------------------- MODULE DatastoreHeapProofs -------------------------
(***************************************************************************)
(* Map and slice agree, Index is safe, TopK is right and the heap is a     *)
(* registry, for any number of datastores and any loads.                   *)
(*                                                                         *)
(* The loops are recursive functions of the turn: such a function exists   *)
(* (RecursionExists), and what every turn keeps, the loop keeps (one rule  *)
(* for each loop).  Inside, every operation only shuffles the slice, up to *)
(* an element that Pop takes or Push adds (Shuffled).  TopK also needs the *)
(* order: heap.down repairs a heap that is right but at one position       *)
(* (Settling), so heap.Init makes one of any slice, whose root is best.    *)
(***************************************************************************)
EXTENDS DatastoreHeap, FiniteSetTheorems, WellFoundedInduction, TLAPS

-----------------------------------------------------------------------------
(* Loops.                                                                  *)

\* Induction over the naturals, for a set of them: a smallest number that
\* is not in T would have a predecessor in T.
LEMMA NatSetInduction ==
    ASSUME NEW T, 0 \in T, \A n \in Nat : n \in T => n + 1 \in T
    PROVE  \A n \in Nat : n \in T
<1> DEFINE less == OpToRel(<, Nat)
           left == {n \in Nat : n \notin T}
<1>1. SUFFICES ASSUME left # {} PROVE FALSE
  OBVIOUS
<1>2. PICK m \in left : \A k \in left : <<k, m>> \notin less
  <2> HIDE DEF less
  <2>1. IsWellFoundedOn(less, Nat)
    BY NatLessThanWellFounded DEF less
  <2>2. left \subseteq Nat
    OBVIOUS
  <2> HIDE DEF left
  <2> QED BY <1>1, <2>1, <2>2, WFMin
<1>3. m \in Nat /\ m # 0 /\ m \notin T
  OBVIOUS
<1> DEFINE k == m - 1
<1>4. k \in Nat /\ k + 1 = m /\ <<k, m>> \in less
  BY <1>3 DEF OpToRel
<1>5. k \in T
  BY <1>2, <1>4
<1> QED BY <1>3, <1>4, <1>5

\* g starts at x and makes one step of f after the other.
Iterates(g, f, x) == g[0] = x /\ \A k \in Nat : g[k + 1] = f[g[k]]

\* A function from S to S can be iterated: its runs of length n agree as far
\* as they go, so they are the prefixes of one function.
LEMMA IterationExists ==
    ASSUME NEW S, NEW f \in [S -> S], NEW x \in S
    PROVE  \E g \in [Nat -> S] : Iterates(g, f, x)
<1> DEFINE Runs(n) == {r \in [0 .. n -> S] : /\ r[0] = x
                                             /\ \A k \in 0 .. n - 1 : r[k + 1] = f[r[k]]}
           long == {n \in Nat : Runs(n) # {}}
<1>1. \A n \in Nat : n \in long
  <2>1. 0 \in long
    <3>1. [k \in 0 .. 0 |-> x] \in Runs(0)
      OBVIOUS
    <3> QED BY <3>1
  <2>2. ASSUME NEW n \in Nat, n \in long PROVE n + 1 \in long
    <3>1. PICK r : r \in Runs(n)
      BY <2>2
    <3> DEFINE s == [k \in 0 .. n + 1 |-> IF k = n + 1 THEN f[r[n]] ELSE r[k]]
    <3>2. s \in [0 .. n + 1 -> S]
      BY <3>1
    <3>3. s[0] = x
      BY <3>1
    <3>4. ASSUME NEW k \in 0 .. (n + 1) - 1 PROVE s[k + 1] = f[s[k]]
      <4>1. CASE k = n
        BY <4>1, <3>1
      <4>2. CASE k \in 0 .. n - 1
        BY <4>2, <3>1
      <4> QED BY <4>1, <4>2
    <3>5. s \in Runs(n + 1)
      BY <3>2, <3>3, <3>4
    <3> HIDE DEF Runs, s
    <3>6. Runs(n + 1) # {} /\ n + 1 \in Nat
      BY <3>5
    <3> QED BY <3>6
  <2> HIDE DEF long
  <2> QED BY <2>1, <2>2, NatSetInduction
<1>2. ASSUME NEW n \in Nat, NEW m \in Nat, NEW r \in Runs(n), NEW s \in Runs(m)
      PROVE  \A k \in Nat : k <= n /\ k <= m => r[k] = s[k]
  <2> DEFINE same == {k \in Nat : k <= n /\ k <= m => r[k] = s[k]}
  <2>1. 0 \in same
    OBVIOUS
  <2>2. ASSUME NEW k \in Nat, k \in same PROVE k + 1 \in same
    <3>1. SUFFICES ASSUME k + 1 <= n, k + 1 <= m PROVE r[k + 1] = s[k + 1]
      OBVIOUS
    <3>2. k \in 0 .. n - 1 /\ k \in 0 .. m - 1 /\ r[k] = s[k]
      BY <3>1, <2>2
    <3> QED BY <3>2
  <2> HIDE DEF same
  <2>3. \A k \in Nat : k \in same
    BY <2>1, <2>2, NatSetInduction
  <2> QED BY <2>3 DEF same
<1> DEFINE run == [n \in Nat |-> CHOOSE r : r \in Runs(n)]
           g == [n \in Nat |-> run[n][n]]
<1>3. \A n \in Nat : run[n] \in Runs(n)
  BY <1>1
<1> HIDE DEF run
<1>4. g \in [Nat -> S]
  BY <1>3
<1>5. g[0] = x
  BY <1>3
<1>6. ASSUME NEW k \in Nat PROVE g[k + 1] = f[g[k]]
  <2>1. run[k] \in Runs(k) /\ run[k + 1] \in Runs(k + 1)
    BY <1>3
  <2>2. run[k + 1][k] = run[k][k]
    <3>1. k + 1 \in Nat /\ k <= k + 1 /\ k <= k
      OBVIOUS
    <3> HIDE DEF Runs
    <3> QED BY <2>1, <3>1, <1>2
  <2>3. run[k + 1][k + 1] = f[run[k + 1][k]]
    BY <2>1
  <2> QED BY <2>2, <2>3
<1> QED BY <1>4, <1>5, <1>6 DEF Iterates

\* g is what a recursive definition by f defines.
Recursive(g, f, x) == g = [k \in Nat |-> IF k = 0 THEN x ELSE f[g[k - 1]]]

\* Such a definition has a solution, which stays in S.
LEMMA RecursionExists ==
    ASSUME NEW S, NEW f \in [S -> S], NEW x \in S
    PROVE  \E g : Recursive(g, f, x) /\ \A k \in Nat : g[k] \in S
<1>1. PICK g \in [Nat -> S] : Iterates(g, f, x)
  BY IterationExists
<1>2. ASSUME NEW k \in Nat PROVE g[k] = IF k = 0 THEN x ELSE f[g[k - 1]]
  <2>1. CASE k = 0
    BY <1>1, <2>1 DEF Iterates
  <2>2. CASE k # 0
    <3> DEFINE j == k - 1
    <3>1. j \in Nat /\ j + 1 = k
      BY <2>2
    <3>2. g[j + 1] = f[g[j]]
      BY <1>1, <3>1 DEF Iterates
    <3> QED BY <3>1, <3>2, <2>2
  <2> QED BY <2>1, <2>2
<1>3. g = [k \in Nat |-> g[k]]
  OBVIOUS
<1>4. [k \in Nat |-> g[k]] = [k \in Nat |-> IF k = 0 THEN x ELSE f[g[k - 1]]]
  BY <1>2
<1>5. Recursive(g, f, x)
  BY <1>3, <1>4 DEF Recursive
<1> QED BY <1>5

\* What holds at first, and after every step if it held before, holds always.
LEMMA KeptForever ==
    ASSUME NEW I, NEW g, g[0] \in I[0], \A k \in Nat : g[k] \in I[k] => g[k + 1] \in I[k + 1]
    PROVE  \A k \in Nat : g[k] \in I[k]
<1> DEFINE kept == {k \in Nat : g[k] \in I[k]}
<1>1. 0 \in kept /\ \A k \in Nat : k \in kept => k + 1 \in kept
  OBVIOUS
<1>2. \A k \in Nat : k \in kept
  <2> HIDE DEF kept
  <2> QED BY <1>1, NatSetInduction
<1> QED BY <1>2

\* The loop rule of heap.down: when I[k] holds what may be true after k
\* turns and every turn leads from I[k] to I[k + 1], the loop ends in the
\* set of its last turn.  The rules of the other loops read the same.
LEMMA DownLoop ==
    ASSUME NEW I, NEW h, NEW i, NEW n \in Nat,
           [heap |-> h, at |-> i] \in I[0],
           \A k \in Nat : \A s \in I[k] : DownTurn(s, n) \in I[k + 1]
    PROVE  Down(h, i, n) \in I[n \div 2]
<1> DEFINE x == [heap |-> h, at |-> i]
           S == UNION {I[k] : k \in Nat}
           T(s) == DownTurn(s, n)
           f == [s \in S |-> T(s)]
           Run(a) == a = [k \in Nat |-> IF k = 0 THEN x ELSE T(a[k - 1])]
           after == CHOOSE a : Run(a)
<1>1. Down(h, i, n) = after[n \div 2]
  BY DEF Down, Repeat
<1>2. x \in I[0] /\ \A k \in Nat : \A s \in I[k] : T(s) \in I[k + 1]
  OBVIOUS
<1> HIDE DEF T, x
<1>3. \E a : Run(a)
  <2>1. f \in [S -> S] /\ x \in S
    BY <1>2
  <2> HIDE DEF S, f
  <2>2. PICK a : Recursive(a, f, x) /\ \A k \in Nat : a[k] \in S
    BY <2>1, RecursionExists
  <2>3. ASSUME NEW k \in Nat, k # 0 PROVE f[a[k - 1]] = T(a[k - 1])
    <3>1. k - 1 \in Nat
      BY <2>3
    <3>2. a[k - 1] \in S
      BY <2>2, <3>1
    <3> QED BY <3>2 DEF f
  <2>4. [k \in Nat |-> IF k = 0 THEN x ELSE f[a[k - 1]]]
          = [k \in Nat |-> IF k = 0 THEN x ELSE T(a[k - 1])]
    BY <2>3
  <2>5. Run(a)
    BY <2>2, <2>4 DEF Recursive
  <2> HIDE DEF Run
  <2> QED BY <2>5
<1>4. Run(after)
  <2> HIDE DEF Run
  <2> QED BY <1>3
<1> HIDE DEF after
<1>5. after[0] = x /\ \A k \in Nat : after[k + 1] = T(after[k])
  BY <1>4
<1>6. \A k \in Nat : after[k] \in I[k]
  BY <1>2, <1>5, KeptForever
<1> QED BY <1>1, <1>6

\* The loop rule of heap.up.
LEMMA UpLoop ==
    ASSUME NEW I, NEW h, NEW j \in Nat,
           [heap |-> h, at |-> j] \in I[0],
           \A k \in Nat : \A s \in I[k] : UpTurn(s) \in I[k + 1]
    PROVE  Up(h, j) \in I[j \div 2]
<1> DEFINE x == [heap |-> h, at |-> j]
           S == UNION {I[k] : k \in Nat}
           T(s) == UpTurn(s)
           f == [s \in S |-> T(s)]
           Run(a) == a = [k \in Nat |-> IF k = 0 THEN x ELSE T(a[k - 1])]
           after == CHOOSE a : Run(a)
<1>1. Up(h, j) = after[j \div 2]
  BY DEF Up, Repeat
<1>2. x \in I[0] /\ \A k \in Nat : \A s \in I[k] : T(s) \in I[k + 1]
  OBVIOUS
<1> HIDE DEF T, x
<1>3. \E a : Run(a)
  <2>1. f \in [S -> S] /\ x \in S
    BY <1>2
  <2> HIDE DEF S, f
  <2>2. PICK a : Recursive(a, f, x) /\ \A k \in Nat : a[k] \in S
    BY <2>1, RecursionExists
  <2>3. ASSUME NEW k \in Nat, k # 0 PROVE f[a[k - 1]] = T(a[k - 1])
    <3>1. k - 1 \in Nat
      BY <2>3
    <3>2. a[k - 1] \in S
      BY <2>2, <3>1
    <3> QED BY <3>2 DEF f
  <2>4. [k \in Nat |-> IF k = 0 THEN x ELSE f[a[k - 1]]]
          = [k \in Nat |-> IF k = 0 THEN x ELSE T(a[k - 1])]
    BY <2>3
  <2>5. Run(a)
    BY <2>2, <2>4 DEF Recursive
  <2> HIDE DEF Run
  <2> QED BY <2>5
<1>4. Run(after)
  <2> HIDE DEF Run
  <2> QED BY <1>3
<1> HIDE DEF after
<1>5. after[0] = x /\ \A k \in Nat : after[k + 1] = T(after[k])
  BY <1>4
<1>6. \A k \in Nat : after[k] \in I[k]
  BY <1>2, <1>5, KeptForever
<1> QED BY <1>1, <1>6

\* The loop rule of heap.Init.
LEMMA HeapifyLoop ==
    ASSUME NEW I, NEW h, NEW inner \in Nat, inner = Len(h.internalData) \div 2,
           [heap |-> h, at |-> inner] \in I[0],
           \A k \in Nat : \A s \in I[k] : HeapifyTurn(s) \in I[k + 1]
    PROVE  \E s \in I[inner] : Heapify(h) = s.heap
<1> DEFINE x == [heap |-> h, at |-> inner]
           S == UNION {I[k] : k \in Nat}
           T(s) == HeapifyTurn(s)
           f == [s \in S |-> T(s)]
           Run(a) == a = [k \in Nat |-> IF k = 0 THEN x ELSE T(a[k - 1])]
           after == CHOOSE a : Run(a)
<1>1. Heapify(h) = after[inner].heap
  BY DEF Heapify, Repeat
<1>2. x \in I[0] /\ \A k \in Nat : \A s \in I[k] : T(s) \in I[k + 1]
  OBVIOUS
<1> HIDE DEF T, x
<1>3. \E a : Run(a)
  <2>1. f \in [S -> S] /\ x \in S
    BY <1>2
  <2> HIDE DEF S, f
  <2>2. PICK a : Recursive(a, f, x) /\ \A k \in Nat : a[k] \in S
    BY <2>1, RecursionExists
  <2>3. ASSUME NEW k \in Nat, k # 0 PROVE f[a[k - 1]] = T(a[k - 1])
    <3>1. k - 1 \in Nat
      BY <2>3
    <3>2. a[k - 1] \in S
      BY <2>2, <3>1
    <3> QED BY <3>2 DEF f
  <2>4. [k \in Nat |-> IF k = 0 THEN x ELSE f[a[k - 1]]]
          = [k \in Nat |-> IF k = 0 THEN x ELSE T(a[k - 1])]
    BY <2>3
  <2>5. Run(a)
    BY <2>2, <2>4 DEF Recursive
  <2> HIDE DEF Run
  <2> QED BY <2>5
<1>4. Run(after)
  <2> HIDE DEF Run
  <2> QED BY <1>3
<1> HIDE DEF after
<1>5. after[0] = x /\ \A k \in Nat : after[k + 1] = T(after[k])
  BY <1>4
<1>6. \A k \in Nat : after[k] \in I[k]
  BY <1>2, <1>5, KeptForever
<1> QED BY <1>1, <1>6

\* The loop rule of the pops of TopK.
LEMMA PopLoop ==
    ASSUME NEW I, NEW h,
           [heap |-> h, top |-> <<>>] \in I[0],
           \A k \in Nat : \A s \in I[k] : PopTurn(s) \in I[k + 1]
    PROVE  PopK(h) \in I[K]
<1> DEFINE x == [heap |-> h, top |-> <<>>]
           S == UNION {I[k] : k \in Nat}
           T(s) == PopTurn(s)
           f == [s \in S |-> T(s)]
           Run(a) == a = [k \in Nat |-> IF k = 0 THEN x ELSE T(a[k - 1])]
           after == CHOOSE a : Run(a)
<1>1. PopK(h) = after[K]
  BY DEF PopK, Repeat
<1>2. x \in I[0] /\ \A k \in Nat : \A s \in I[k] : T(s) \in I[k + 1]
  OBVIOUS
<1> HIDE DEF T, x
<1>3. \E a : Run(a)
  <2>1. f \in [S -> S] /\ x \in S
    BY <1>2
  <2> HIDE DEF S, f
  <2>2. PICK a : Recursive(a, f, x) /\ \A k \in Nat : a[k] \in S
    BY <2>1, RecursionExists
  <2>3. ASSUME NEW k \in Nat, k # 0 PROVE f[a[k - 1]] = T(a[k - 1])
    <3>1. k - 1 \in Nat
      BY <2>3
    <3>2. a[k - 1] \in S
      BY <2>2, <3>1
    <3> QED BY <3>2 DEF f
  <2>4. [k \in Nat |-> IF k = 0 THEN x ELSE f[a[k - 1]]]
          = [k \in Nat |-> IF k = 0 THEN x ELSE T(a[k - 1])]
    BY <2>3
  <2>5. Run(a)
    BY <2>2, <2>4 DEF Recursive
  <2> HIDE DEF Run
  <2> QED BY <2>5
<1>4. Run(after)
  <2> HIDE DEF Run
  <2> QED BY <1>3
<1> HIDE DEF after
<1>5. after[0] = x /\ \A k \in Nat : after[k + 1] = T(after[k])
  BY <1>4
<1>6. \A k \in Nat : after[k] \in I[k]
  BY <1>2, <1>5, KeptForever
<1> QED BY <1>1, <1>6, HeapAssumption

\* The loop rule of RemoveDead.
LEMMA SweepLoop ==
    ASSUME NEW I, NEW h, NEW late, NEW n \in Nat, n = Len(h.internalData),
           [heap |-> h, at |-> 1] \in I[0],
           \A k \in Nat : \A s \in I[k] : SweepTurn(s, late) \in I[k + 1]
    PROVE  Sweep(h, late) \in I[n]
<1> DEFINE x == [heap |-> h, at |-> 1]
           S == UNION {I[k] : k \in Nat}
           T(s) == SweepTurn(s, late)
           f == [s \in S |-> T(s)]
           Run(a) == a = [k \in Nat |-> IF k = 0 THEN x ELSE T(a[k - 1])]
           after == CHOOSE a : Run(a)
<1>1. Sweep(h, late) = after[n]
  BY DEF Sweep, Repeat
<1>2. x \in I[0] /\ \A k \in Nat : \A s \in I[k] : T(s) \in I[k + 1]
  OBVIOUS
<1> HIDE DEF T, x
<1>3. \E a : Run(a)
  <2>1. f \in [S -> S] /\ x \in S
    BY <1>2
  <2> HIDE DEF S, f
  <2>2. PICK a : Recursive(a, f, x) /\ \A k \in Nat : a[k] \in S
    BY <2>1, RecursionExists
  <2>3. ASSUME NEW k \in Nat, k # 0 PROVE f[a[k - 1]] = T(a[k - 1])
    <3>1. k - 1 \in Nat
      BY <2>3
    <3>2. a[k - 1] \in S
      BY <2>2, <3>1
    <3> QED BY <3>2 DEF f
  <2>4. [k \in Nat |-> IF k = 0 THEN x ELSE f[a[k - 1]]]
          = [k \in Nat |-> IF k = 0 THEN x ELSE T(a[k - 1])]
    BY <2>3
  <2>5. Run(a)
    BY <2>2, <2>4 DEF Recursive
  <2> HIDE DEF Run
  <2> QED BY <2>5
<1>4. Run(after)
  <2> HIDE DEF Run
  <2> QED BY <1>3
<1> HIDE DEF after
<1>5. after[0] = x /\ \A k \in Nat : after[k + 1] = T(after[k])
  BY <1>4
<1>6. \A k \in Nat : after[k] \in I[k]
  BY <1>2, <1>5, KeptForever
<1> QED BY <1>1, <1>6

-----------------------------------------------------------------------------
(* Heaps of datastores, and what swapping elements does to them.           *)

\* The values that a DatastoreHeap has also inside a sweep, where CheckTTL
\* has counted a missed heartbeat too many.
Heaps == [internalData : Seq(Datastores),
          internalMap  : SUBSET Datastores,
          index  : [Datastores -> 0 .. Cardinality(Datastores)],
          missed : [Datastores -> 0 .. MaxMissed + 1],
          status : [Datastores -> Statuses]]

Size(h) == Len(h.internalData)

Elems(h) == {h.internalData[i] : i \in DOMAIN h.internalData}

\* No datastore is in the heap twice.
Distinct(h) == \A i, j \in 1 .. Size(h) : h.internalData[i] = h.internalData[j] => i = j

\* The slice is a function on the positions.
LEMMA HeapShape ==
    ASSUME NEW h \in Heaps
    PROVE  /\ Size(h) \in Nat
           /\ h.internalData \in [1 .. Size(h) -> Datastores]
           /\ DOMAIN h.internalData = 1 .. Size(h)
           /\ h.internalMap \subseteq Datastores
           /\ h.index \in [Datastores -> 0 .. Cardinality(Datastores)]
           /\ h.missed \in [Datastores -> 0 .. MaxMissed + 1]
           /\ h.status \in [Datastores -> Statuses]
           /\ Elems(h) \subseteq Datastores
           /\ Elems(h) = {h.internalData[i] : i \in 1 .. Size(h)}
<1> DEFINE d == h.internalData
<1>1. /\ d \in Seq(Datastores) /\ h.internalMap \subseteq Datastores
      /\ h.index \in [Datastores -> 0 .. Cardinality(Datastores)]
      /\ h.missed \in [Datastores -> 0 .. MaxMissed + 1]
      /\ h.status \in [Datastores -> Statuses]
  BY DEF Heaps
<1>2. /\ Size(h) \in Nat /\ d \in [1 .. Size(h) -> Datastores]
      /\ DOMAIN d = 1 .. Size(h)
  <2> HIDE DEF d
  <2> QED BY <1>1 DEF Size, d
<1>3. Elems(h) = {h.internalData[i] : i \in 1 .. Size(h)}
  BY <1>2 DEF Elems
<1> QED BY <1>1, <1>2, <1>3

\* The datastores in a heap are as many as its positions exactly when none
\* is in it twice, and then they are positions that Index can hold.
LEMMA SizeBound ==
    ASSUME NEW h \in Heaps
    PROVE  /\ Distinct(h) <=> Cardinality(Elems(h)) = Size(h)
           /\ Distinct(h) => Size(h) \in 0 .. Cardinality(Datastores)
<1> DEFINE n == Size(h)
           f == h.internalData
<1>1. n \in Nat /\ f \in [1 .. n -> Datastores] /\ Elems(h) = {f[i] : i \in 1 .. n}
      /\ Elems(h) \subseteq Datastores
  BY HeapShape
<1>2. IsFiniteSet(1 .. n) /\ Cardinality(1 .. n) = n
  BY <1>1, FS_Interval
<1>3. f \in Surjection(1 .. n, Elems(h))
  <2> HIDE DEF f, n
  <2> QED BY <1>1 DEF Surjection
<1>4. Cardinality(Elems(h)) = n <=> f \in Injection(1 .. n, Elems(h))
  <2> HIDE DEF f, n
  <2> QED BY <1>2, <1>3, FS_Surjection
<1>5. f \in Injection(1 .. n, Elems(h)) <=> Distinct(h)
  BY <1>1, <1>3 DEF Injection, IsInjective, Surjection, Distinct
<1>6. Cardinality(Elems(h)) <= Cardinality(Datastores) /\ Cardinality(Datastores) \in Nat
  BY <1>1, HeapAssumption, FS_Subset, FS_CardinalityType
<1> QED BY <1>1, <1>4, <1>5, <1>6

\* What Swap does, field by field.
LEMMA SwapFields ==
    ASSUME NEW h \in Heaps, Distinct(h), NEW i \in 1 .. Size(h), NEW j \in 1 .. Size(h)
    PROVE  LET g == Swap(h, i, j)
               d == h.internalData
           IN  /\ g \in Heaps /\ Size(g) = Size(h)
               /\ \A p \in 1 .. Size(h) :
                     g.internalData[p] = IF p = j THEN d[i] ELSE IF p = i THEN d[j] ELSE d[p]
               /\ g.internalMap = h.internalMap \cup {d[i], d[j]}
               /\ \A e \in Datastores :
                     g.index[e] = IF e = d[i] THEN j ELSE IF e = d[j] THEN i ELSE h.index[e]
               /\ g.missed = h.missed /\ g.status = h.status
<1> DEFINE d == h.internalData
           data == [d EXCEPT ![i] = d[j], ![j] = d[i]]
           index == [[h.index EXCEPT ![d[j]] = i] EXCEPT ![d[i]] = j]
           map == h.internalMap \cup {d[i], d[j]}
           g == Swap(h, i, j)
<1>1. /\ Size(h) \in Nat /\ d \in [1 .. Size(h) -> Datastores] /\ d \in Seq(Datastores)
      /\ h.index \in [Datastores -> 0 .. Cardinality(Datastores)]
      /\ h.internalMap \subseteq Datastores
  BY HeapShape DEF Heaps
<1>2. i \in 0 .. Cardinality(Datastores) /\ j \in 0 .. Cardinality(Datastores)
  BY SizeBound, <1>1, HeapAssumption, FS_CardinalityType
<1>3. /\ g.internalData = data /\ g.internalMap = map /\ g.index = index
      /\ g.missed = h.missed /\ g.status = h.status
  <2>1. g.internalData = data
    BY DEF Swap, Heaps
  <2>2. g.internalMap = map
    BY DEF Swap, Heaps
  <2>3. g.index = index
    BY DEF Swap, Heaps
  <2>4. g.missed = h.missed /\ g.status = h.status
    BY DEF Swap, Heaps
  <2> QED BY <2>1, <2>2, <2>3, <2>4
<1>4. /\ data \in Seq(Datastores) /\ Len(data) = Size(h)
      /\ \A p \in 1 .. Size(h) :
            data[p] = IF p = j THEN d[i] ELSE IF p = i THEN d[j] ELSE d[p]
  BY <1>1 DEF Size
<1>5. /\ index \in [Datastores -> 0 .. Cardinality(Datastores)]
      /\ \A e \in Datastores :
            index[e] = IF e = d[i] THEN j ELSE IF e = d[j] THEN i ELSE h.index[e]
  BY <1>1, <1>2
<1>6. map \subseteq Datastores
  BY <1>1
<1>7. g \in Heaps
  <2>1. g = [h EXCEPT !.internalData = data, !.index = index, !.internalMap = map]
    BY DEF Swap
  <2> HIDE DEF data, index, map, g
  <2> QED BY <2>1, <1>4, <1>5, <1>6 DEF Heaps
<1> HIDE DEF data, index, map, g
<1> QED BY <1>3, <1>4, <1>5, <1>7 DEF Size, map, d, g

\* g is h after swaps among its first n positions: the same datastores, all
\* known to the map if the map of h knew them, and the Index of each is its
\* position or, where it has not moved, what it was.
Shuffled(h, g, n) ==
    /\ g \in Heaps /\ Size(g) = Size(h) /\ Distinct(g) /\ Elems(g) = Elems(h)
    /\ \A p \in n + 1 .. Size(h) : g.internalData[p] = h.internalData[p]
    /\ h.internalMap \subseteq g.internalMap
    /\ g.internalMap \subseteq h.internalMap \cup Elems(h)
    /\ \A p \in 1 .. Size(h) :
          \/ g.index[g.internalData[p]] = p
          \/ /\ g.internalData[p] = h.internalData[p]
             /\ g.index[g.internalData[p]] = h.index[g.internalData[p]]
    /\ \A e \in Datastores \ Elems(h) : g.index[e] = h.index[e]
    /\ g.missed = h.missed /\ g.status = h.status

\* No swap is a way to shuffle.
LEMMA ShuffledItself ==
    ASSUME NEW h \in Heaps, Distinct(h), NEW n
    PROVE  Shuffled(h, h, n)
BY HeapShape DEF Shuffled

\* One more swap is a way to shuffle.
LEMMA SwapShuffles ==
    ASSUME NEW h \in Heaps, NEW n \in 0 .. Size(h), NEW g, Shuffled(h, g, n),
           NEW i \in 1 .. n, NEW j \in 1 .. n
    PROVE  Shuffled(h, Swap(g, i, j), n)
<1> DEFINE d == g.internalData
           s == Swap(g, i, j)
           N == Size(h)
           at(p) == IF p = j THEN i ELSE IF p = i THEN j ELSE p
<1>1. g \in Heaps /\ Distinct(g) /\ Size(g) = N /\ N \in Nat /\ i \in 1 .. N /\ j \in 1 .. N
  BY HeapShape DEF Shuffled
<1>2. /\ s \in Heaps /\ Size(s) = N
      /\ \A p \in 1 .. N : s.internalData[p] = d[at(p)]
      /\ s.internalMap = g.internalMap \cup {d[i], d[j]}
      /\ \A e \in Datastores :
            s.index[e] = IF e = d[i] THEN j ELSE IF e = d[j] THEN i ELSE g.index[e]
      /\ s.missed = g.missed /\ s.status = g.status
  <2>1. \A p \in 1 .. N : s.internalData[p] = IF p = j THEN d[i] ELSE IF p = i THEN d[j] ELSE d[p]
    BY <1>1, SwapFields
  <2>2. \A p \in 1 .. N : s.internalData[p] = d[at(p)]
    BY <2>1
  <2> QED BY <1>1, <2>2, SwapFields
<1> HIDE DEF s
<1>3. /\ \A p \in 1 .. N : d[p] \in Datastores /\ d[p] \in Elems(h)
      /\ Elems(h) = {d[p] : p \in 1 .. N}
      /\ \A p, q \in 1 .. N : d[p] = d[q] => p = q
  BY <1>1, HeapShape DEF Shuffled, Distinct
<1>4. /\ \A p \in 1 .. N : at(p) \in 1 .. N /\ at(at(p)) = p
      /\ \A p \in n + 1 .. N : at(p) = p
  BY <1>1
<1>5. Distinct(s)
  BY <1>1, <1>2, <1>3, <1>4 DEF Distinct
<1>6. Elems(s) = Elems(h)
  <2>1. Elems(s) = {s.internalData[p] : p \in 1 .. N}
    BY <1>2, HeapShape
  <2>2. \A p \in 1 .. N : s.internalData[at(p)] = d[p]
    BY <1>2, <1>4
  <2> HIDE DEF d, at, N
  <2> QED BY <2>1, <2>2, <1>2, <1>3, <1>4
<1>7. \A p \in n + 1 .. N : s.internalData[p] = h.internalData[p]
  BY <1>1, <1>2, <1>4 DEF Shuffled
<1>8. h.internalMap \subseteq s.internalMap /\ s.internalMap \subseteq h.internalMap \cup Elems(h)
  BY <1>1, <1>2, <1>3 DEF Shuffled
<1>9. ASSUME NEW p \in 1 .. N
      PROVE  \/ s.index[s.internalData[p]] = p
             \/ /\ s.internalData[p] = h.internalData[p]
                /\ s.index[s.internalData[p]] = h.index[s.internalData[p]]
  <2>1. CASE p = i
    BY <2>1, <1>1, <1>2, <1>3, <1>4
  <2>2. CASE p = j
    BY <2>2, <1>1, <1>2, <1>3, <1>4
  <2>3. CASE p # i /\ p # j
    <3>1. s.internalData[p] = d[p] /\ d[p] # d[i] /\ d[p] # d[j]
      BY <2>3, <1>1, <1>2, <1>3
    <3>2. s.index[d[p]] = g.index[d[p]]
      BY <3>1, <1>2, <1>3
    <3> QED BY <3>1, <3>2 DEF Shuffled
  <2> QED BY <2>1, <2>2, <2>3
<1>10. \A e \in Datastores \ Elems(h) : s.index[e] = h.index[e]
  BY <1>1, <1>2, <1>3 DEF Shuffled
<1>11. s.missed = h.missed /\ s.status = h.status
  BY <1>2 DEF Shuffled
<1> QED BY <1>2, <1>5, <1>6, <1>7, <1>8, <1>9, <1>10, <1>11 DEF Shuffled, s

\* heap.down only shuffles, and has ended after the turns it is given: each
\* moves on by one position at least.
LEMMA DownShuffles ==
    ASSUME NEW h \in Heaps, NEW m \in 0 .. Size(h), NEW g, Shuffled(h, g, m),
           NEW n \in 0 .. m, NEW i \in Nat
    PROVE  LET r == Down(g, i, n) IN Shuffled(h, r.heap, m) /\ DownTurn(r, n) = r
<1> DEFINE X(k) == {s \in [heap : Heaps, at : Nat] :
                      Shuffled(h, s.heap, m) /\ (DownTurn(s, n) = s \/ s.at > k)}
           I == [k \in Nat |-> X(k)]
           start == [heap |-> g, at |-> i]
<1>1. n \in Nat /\ m \in Nat /\ n \div 2 \in Nat
  BY HeapShape
<1>2. start \in I[0]
  <2>1. start \in [heap : Heaps, at : Nat] /\ Shuffled(h, start.heap, m)
    BY DEF Shuffled
  <2>2. i = 0 => DownTurn(start, n) = start
    BY <1>1 DEF DownTurn
  <2> QED BY <2>1, <2>2
<1>3. ASSUME NEW k \in Nat, NEW s \in I[k] PROVE DownTurn(s, n) \in I[k + 1]
  <2>1. s \in X(k) /\ s.at \in Nat /\ Shuffled(h, s.heap, m)
    OBVIOUS
  <2>2. CASE DownTurn(s, n) = s
    BY <2>1, <2>2
  <2>3. CASE /\ s.at > k
             /\ \E b \in 1 .. n : /\ s.at \in 1 .. n /\ b > s.at
                                  /\ DownTurn(s, n) = [heap |-> Swap(s.heap, s.at, b), at |-> b]
    <3>1. PICK b \in 1 .. n : /\ s.at \in 1 .. n /\ b > s.at
                              /\ DownTurn(s, n) = [heap |-> Swap(s.heap, s.at, b), at |-> b]
      BY <2>3
    <3>2. Shuffled(h, Swap(s.heap, s.at, b), m)
      BY <1>1, <2>1, <3>1, SwapShuffles
    <3>3. Swap(s.heap, s.at, b) \in Heaps /\ b \in Nat /\ b > k + 1
      BY <1>1, <2>1, <2>3, <3>1, <3>2 DEF Shuffled
    <3> QED BY <3>1, <3>2, <3>3
  <2>4. \/ DownTurn(s, n) = s
        \/ \E b \in 1 .. n : /\ s.at \in 1 .. n /\ b > s.at
                             /\ DownTurn(s, n) = [heap |-> Swap(s.heap, s.at, b), at |-> b]
    BY <1>1, <2>1 DEF DownTurn
  <2> QED BY <2>1, <2>2, <2>3, <2>4
<1> DEFINE r == Down(g, i, n)
<1> HIDE DEF I
<1>4. r \in I[n \div 2]
  BY <1>1, <1>2, <1>3, DownLoop
<1>5. r \in X(n \div 2)
  BY <1>1, <1>4 DEF I
<1> HIDE DEF r
<1>6. r.at > n \div 2 => DownTurn(r, n) = r
  <2>1. r.at \in Nat /\ (r.at > n \div 2 => 2 * r.at > n)
    BY <1>1, <1>5
  <2> QED BY <1>1, <2>1 DEF DownTurn
<1> QED BY <1>5, <1>6 DEF r

\* So does heap.up, each turn of which halves the position.
LEMMA UpShuffles ==
    ASSUME NEW h \in Heaps, NEW m \in 0 .. Size(h), NEW g, Shuffled(h, g, m),
           NEW j \in 0 .. m
    PROVE  LET r == Up(g, j) IN Shuffled(h, r.heap, m) /\ UpTurn(r) = r
<1> DEFINE X(k) == {s \in [heap : Heaps, at : 0 .. m] :
                      /\ Shuffled(h, s.heap, m)
                      /\ UpTurn(s) = s \/ s.at <= 1 \/ s.at <= j - 2 * k}
           I == [k \in Nat |-> X(k)]
           start == [heap |-> g, at |-> j]
<1>1. m \in Nat /\ j \in Nat /\ j \div 2 \in Nat
  BY HeapShape
<1>2. start \in I[0]
  BY <1>1 DEF Shuffled
<1>3. ASSUME NEW k \in Nat, NEW s \in I[k] PROVE UpTurn(s) \in I[k + 1]
  <2>1. s \in X(k) /\ s.at \in 0 .. m /\ Shuffled(h, s.heap, m)
    OBVIOUS
  <2>2. CASE UpTurn(s) = s
    BY <2>1, <2>2
  <2>3. CASE /\ s.at > 1 /\ s.at <= j - 2 * k
             /\ UpTurn(s) = [heap |-> Swap(s.heap, s.at \div 2, s.at), at |-> s.at \div 2]
    <3> DEFINE b == s.at \div 2
    <3>1. b \in 1 .. m /\ s.at \in 1 .. m
      BY <1>1, <2>1, <2>3
    <3>4. b <= 1 \/ b <= j - 2 * (k + 1)
      BY <1>1, <2>1, <2>3
    <3> HIDE DEF b
    <3>2. Shuffled(h, Swap(s.heap, b, s.at), m)
      BY <1>1, <2>1, <3>1, SwapShuffles
    <3>3. Swap(s.heap, b, s.at) \in Heaps
      BY <3>2 DEF Shuffled
    <3>5. UpTurn(s) = [heap |-> Swap(s.heap, b, s.at), at |-> b]
      BY <2>3 DEF b
    <3> QED BY <1>1, <3>1, <3>2, <3>3, <3>4, <3>5
  <2>4. \/ UpTurn(s) = s
        \/ /\ s.at > 1
           /\ UpTurn(s) = [heap |-> Swap(s.heap, s.at \div 2, s.at), at |-> s.at \div 2]
    BY DEF UpTurn
  <2> QED BY <1>1, <2>1, <2>2, <2>3, <2>4
<1> DEFINE r == Up(g, j)
<1> HIDE DEF I
<1>4. r \in I[j \div 2]
  BY <1>1, <1>2, <1>3, UpLoop
<1>5. r \in X(j \div 2)
  BY <1>1, <1>4 DEF I
<1> HIDE DEF r
<1>6. r.at <= 1 => UpTurn(r) = r
  BY <1>5 DEF UpTurn
<1>7. r.at <= j - 2 * (j \div 2) => r.at <= 1
  BY <1>1, <1>5
<1> QED BY <1>5, <1>6, <1>7 DEF r

\* And heap.Fix, which is one or the other.
LEMMA FixShuffles ==
    ASSUME NEW h \in Heaps, NEW m \in 0 .. Size(h), NEW g, Shuffled(h, g, m),
           NEW n \in 0 .. m, NEW i \in 0 .. n
    PROVE  Shuffled(h, Fix(g, i, n), m)
<1>1. Shuffled(h, Down(g, i, n).heap, m)
  BY DownShuffles
<1>2. i \in 0 .. m
  BY HeapShape
<1>3. Shuffled(h, Up(g, i).heap, m)
  BY <1>2, UpShuffles
<1> QED BY <1>1, <1>3 DEF Fix

-----------------------------------------------------------------------------
(* Push, Pop and Remove.                                                   *)

\* Every Index is the position of its element, or that of a popped one.
IndexFits(h) == \A p \in 1 .. Size(h) : h.index[h.internalData[p]] \in {0, p}

\* Shuffling keeps it so.
LEMMA ShuffledFits ==
    ASSUME NEW h, NEW g, NEW n, Shuffled(h, g, n), IndexFits(h)
    PROVE  IndexFits(g)
BY DEF Shuffled, IndexFits

\* Pop takes the last element out of the slice and out of the map.
LEMMA PopTakesLast ==
    ASSUME NEW h \in Heaps, Distinct(h), Size(h) # 0
    PROVE  LET r == Pop(h)
               n == Size(h)
               d == h.internalData[n]
           IN  /\ r \in Heaps /\ Distinct(r) /\ Size(r) = n - 1
               /\ \A p \in 1 .. n - 1 : r.internalData[p] = h.internalData[p]
               /\ Elems(r) = Elems(h) \ {d}
               /\ r.internalMap = h.internalMap \ {d}
               /\ \A e \in Datastores : r.index[e] = IF e = d THEN 0 ELSE h.index[e]
               /\ r.missed = h.missed /\ r.status = h.status
<1> DEFINE r == Pop(h)
           n == Size(h)
           d == h.internalData[n]
           data == SubSeq(h.internalData, 1, n - 1)
           index == [h.index EXCEPT ![d] = 0]
           map == h.internalMap \ {d}
<1>1. /\ n \in Nat /\ n - 1 \in Nat /\ n \in 1 .. n
      /\ h.internalData \in [1 .. n -> Datastores] /\ h.internalData \in Seq(Datastores)
      /\ h.index \in [Datastores -> 0 .. Cardinality(Datastores)]
      /\ h.internalMap \subseteq Datastores
      /\ Elems(h) = {h.internalData[p] : p \in 1 .. n}
  <2>1. h.internalData \in Seq(Datastores)
    BY DEF Heaps
  <2>2. n \in Nat /\ n # 0
    BY HeapShape
  <2> QED BY <2>1, <2>2, HeapShape
<1>2. /\ r.internalData = data /\ r.internalMap = map /\ r.index = index
      /\ r.missed = h.missed /\ r.status = h.status
  <2>1. r.internalData = data
    BY DEF Pop, Heaps, Size
  <2>2. r.internalMap = map
    BY DEF Pop, Heaps, Size
  <2>3. r.index = index
    BY DEF Pop, Heaps, Size
  <2>4. r.missed = h.missed /\ r.status = h.status
    BY DEF Pop, Heaps, Size
  <2> QED BY <2>1, <2>2, <2>3, <2>4
<1>3. /\ data \in Seq(Datastores) /\ Len(data) = n - 1
      /\ \A p \in 1 .. n - 1 : data[p] = h.internalData[p]
  <2> DEFINE q == h.internalData
  <2> HIDE DEF q
  <2>1. q \in Seq(Datastores) /\ Len(q) = n
    BY <1>1 DEF q, Size
  <2> HIDE DEF n
  <2> QED BY <1>1, <2>1 DEF q
<1>4. /\ index \in [Datastores -> 0 .. Cardinality(Datastores)]
      /\ \A e \in Datastores : index[e] = IF e = d THEN 0 ELSE h.index[e]
  BY <1>1, HeapAssumption, FS_CardinalityType
<1>5. r \in Heaps
  <2>1. r = [h EXCEPT !.internalData = data, !.internalMap = map, !.index = index]
    BY DEF Pop, Size
  <2>2. map \subseteq Datastores
    BY <1>1
  <2> HIDE DEF data, index, map, r
  <2> QED BY <2>1, <2>2, <1>3, <1>4 DEF Heaps
<1> HIDE DEF data, index, map, r
<1>6. Size(r) = n - 1 /\ \A p \in 1 .. n - 1 : r.internalData[p] = h.internalData[p]
  BY <1>2, <1>3 DEF Size
<1>7. Distinct(r)
  BY <1>1, <1>6 DEF Distinct
<1>8. Elems(r) = Elems(h) \ {d}
  <2>1. Elems(r) = {r.internalData[p] : p \in 1 .. n - 1}
    BY <1>5, <1>6, HeapShape
  <2>2. \A p \in 1 .. n : h.internalData[p] # d <=> p \in 1 .. n - 1
    BY <1>1 DEF Distinct
  <2>3. \A p \in 1 .. n - 1 : p \in 1 .. n
    BY <1>1
  <2> HIDE DEF d, n
  <2>4. \A e : e \in Elems(r) => e \in Elems(h) /\ e # d
    BY <1>1, <1>6, <2>1, <2>2, <2>3
  <2>5. \A e : e \in Elems(h) /\ e # d => e \in Elems(r)
    BY <1>1, <1>6, <2>1, <2>2, <2>3
  <2> QED BY <2>4, <2>5
<1> QED BY <1>2, <1>4, <1>5, <1>6, <1>7, <1>8 DEF map, r

\* heap.Remove takes the element at i out, wherever it is, and leaves the
\* map right although the swaps may put the removed element back into it.
LEMMA RemoveTakesOut ==
    ASSUME NEW h \in Heaps, Distinct(h), NEW i \in 1 .. Size(h),
           Elems(h) \ {h.internalData[i]} \subseteq h.internalMap,
           h.internalMap \subseteq Elems(h)
    PROVE  LET r == Remove(h, i)
           IN  /\ r \in Heaps /\ Distinct(r) /\ Size(r) = Size(h) - 1
               /\ Elems(r) = Elems(h) \ {h.internalData[i]}
               /\ r.internalMap = Elems(r)
               /\ r.missed = h.missed /\ r.status = h.status
               /\ IndexFits(h) => IndexFits(r)
<1> DEFINE n == Size(h)
           d == h.internalData[i]
           g == IF i = n THEN h ELSE Fix(Swap(h, i, n), i, n - 1)
           r == Remove(h, i)
<1>1. n \in Nat /\ n # 0 /\ n \in 1 .. n /\ n \in 0 .. n /\ i \in 1 .. n
  BY HeapShape
<1>2. r = Pop(g)
  BY DEF Remove, Size
<1>3. Shuffled(h, g, n) /\ g.internalData[n] = d
  <2>1. CASE i = n
    BY <2>1, ShuffledItself
  <2>2. CASE i # n
    <3> DEFINE s == Swap(h, i, n)
    <3>1. n - 1 \in 0 .. n /\ n - 1 \in Nat /\ i \in 0 .. n - 1
      BY <1>1, <2>2
    <3>2. Shuffled(h, s, n)
      BY <1>1, ShuffledItself, SwapShuffles
    <3>3. s \in Heaps /\ Distinct(s) /\ Size(s) = n /\ s.internalData[n] = d
      BY <1>1, SwapFields, <3>2 DEF Shuffled
    <3> HIDE DEF s, n
    <3>4. Shuffled(h, Fix(s, i, n - 1), n)
      BY <1>1, <3>1, <3>2, FixShuffles DEF n
    <3>5. Shuffled(s, Fix(s, i, n - 1), n - 1)
      <4>1. Shuffled(s, s, n - 1)
        BY <3>3, ShuffledItself
      <4>2. n - 1 \in 0 .. Size(s) /\ n - 1 \in 0 .. n - 1
        BY <3>1, <3>3
      <4> QED BY <4>1, <4>2, <3>1, <3>3, FixShuffles
    <3>6. Fix(s, i, n - 1).internalData[n] = d
      <4>1. n \in (n - 1) + 1 .. Size(s)
        BY <1>1, <3>3
      <4> QED BY <4>1, <3>3, <3>5 DEF Shuffled
    <3> QED BY <2>2, <3>4, <3>6 DEF s, n
  <2> QED BY <2>1, <2>2
<1> HIDE DEF g
<1>4. /\ g \in Heaps /\ Distinct(g) /\ Size(g) = n /\ Elems(g) = Elems(h)
      /\ g.internalMap \subseteq Elems(h) /\ h.internalMap \subseteq g.internalMap
      /\ g.missed = h.missed /\ g.status = h.status
  BY <1>3 DEF Shuffled
<1>5. /\ r \in Heaps /\ Distinct(r) /\ Size(r) = n - 1
      /\ \A p \in 1 .. n - 1 : r.internalData[p] = g.internalData[p]
      /\ Elems(r) = Elems(g) \ {d}
      /\ r.internalMap = g.internalMap \ {d}
      /\ \A e \in Datastores : r.index[e] = IF e = d THEN 0 ELSE g.index[e]
      /\ r.missed = g.missed /\ r.status = g.status
  BY <1>1, <1>2, <1>3, <1>4, PopTakesLast
<1>6. r.internalMap = Elems(r)
  BY <1>4, <1>5
<1>7. ASSUME IndexFits(h) PROVE IndexFits(r)
  <2>1. IndexFits(g)
    BY <1>3, <1>7, ShuffledFits
  <2>2. \A p \in 1 .. n - 1 : p \in 1 .. n /\ g.internalData[p] \in Datastores
    BY <1>1, <1>4, HeapShape
  <2> HIDE DEF n, d, r
  <2> QED BY <1>4, <1>5, <2>1, <2>2 DEF IndexFits
<1> QED BY <1>4, <1>5, <1>6, <1>7

\* heap.Push adds a datastore that the heap does not hold yet, and tells the
\* map.
LEMMA PushAdds ==
    ASSUME NEW h \in Heaps, Distinct(h), h.internalMap = Elems(h),
           NEW d \in Datastores, d \notin Elems(h)
    PROVE  LET r == Push(h, d)
           IN  /\ r \in Heaps /\ Distinct(r)
               /\ Elems(r) = Elems(h) \cup {d}
               /\ r.internalMap = Elems(r)
               /\ r.missed = [h.missed EXCEPT ![d] = 0] /\ r.status = h.status
               /\ IndexFits(h) => IndexFits(r)
<1> DEFINE n == Size(h) + 1
           data == Append(h.internalData, d)
           index == [h.index EXCEPT ![d] = n]
           map == h.internalMap \cup {d}
           missed == [h.missed EXCEPT ![d] = 0]
           g == [h EXCEPT !.internalData = data, !.internalMap = map,
                          !.index = index, !.missed = missed]
           r == Push(h, d)
<1>1. /\ Size(h) \in Nat /\ n \in Nat /\ n \in 1 .. n
      /\ h.internalData \in [1 .. Size(h) -> Datastores]
      /\ h.index \in [Datastores -> 0 .. Cardinality(Datastores)]
      /\ h.internalMap \subseteq Datastores
      /\ h.missed \in [Datastores -> 0 .. MaxMissed + 1]
      /\ Elems(h) = {h.internalData[p] : p \in 1 .. Size(h)}
  BY HeapShape
<1>2. /\ data \in Seq(Datastores) /\ Len(data) = n
      /\ \A p \in 1 .. n : data[p] = IF p = n THEN d ELSE h.internalData[p]
  <2> DEFINE q == h.internalData
  <2>1. q \in Seq(Datastores) /\ Len(q) = Size(h)
    BY DEF Heaps, Size
  <2> HIDE DEF q
  <2> QED BY <1>1, <2>1 DEF q
<1>3. /\ g.internalData = data /\ g.internalMap = map /\ g.index = index
      /\ g.missed = missed /\ g.status = h.status
  <2> HIDE DEF data, map, index, missed
  <2> QED BY DEF Heaps
<1>4. n \in 0 .. Cardinality(Datastores)
  <2> DEFINE f == [h EXCEPT !.internalData = data]
  <2>1. f \in Heaps /\ f.internalData = data
    <3> HIDE DEF data
    <3> QED BY <1>2 DEF Heaps
  <2> HIDE DEF f
  <2>2. Size(f) = n
    BY <1>2, <2>1 DEF Size
  <2>3. Distinct(f)
    BY <1>1, <1>2, <2>1, <2>2 DEF Distinct
  <2> QED BY <2>1, <2>2, <2>3, SizeBound
<1>5. /\ index \in [Datastores -> 0 .. Cardinality(Datastores)]
      /\ \A e \in Datastores : index[e] = IF e = d THEN n ELSE h.index[e]
  <2> HIDE DEF n
  <2> QED BY <1>1, <1>4
<1>6. map \subseteq Datastores /\ missed \in [Datastores -> 0 .. MaxMissed + 1]
  BY <1>1, HeapAssumption
<1>7. g \in Heaps
  <2> HIDE DEF data, map, index, missed
  <2> QED BY <1>2, <1>5, <1>6 DEF Heaps
<1>8. r = Up(g, n).heap
  BY DEF Push, Size
<1> HIDE DEF g, data, map, index, missed, r
<1>9. Size(g) = n /\ Distinct(g)
  <2>1. Size(g) = n
    BY <1>2, <1>3 DEF Size
  <2>2. \A p \in 1 .. n : p # n => p \in 1 .. Size(h)
    BY <1>1
  <2>3. \A p \in 1 .. Size(h) : h.internalData[p] # d
    BY <1>1
  <2>4. \A p \in 1 .. n : g.internalData[p] = IF p = n THEN d ELSE h.internalData[p]
    BY <1>2, <1>3
  <2> HIDE DEF n
  <2> QED BY <2>1, <2>2, <2>3, <2>4 DEF Distinct
<1>10. Elems(g) = Elems(h) \cup {d}
  <2>1. Elems(g) = {g.internalData[p] : p \in 1 .. n}
    BY <1>7, <1>9, HeapShape
  <2>2. /\ \A p \in 1 .. n : p = n \/ p \in 1 .. Size(h)
        /\ \A p \in 1 .. Size(h) : p \in 1 .. n /\ p # n
    BY <1>1
  <2>3. \A p \in 1 .. n : g.internalData[p] = IF p = n THEN d ELSE h.internalData[p]
    BY <1>2, <1>3
  <2> HIDE DEF n
  <2>4. \A e : e \in Elems(g) => e \in Elems(h) \cup {d}
    BY <1>1, <2>1, <2>2, <2>3
  <2>5. \A e : e \in Elems(h) \cup {d} => e \in Elems(g)
    BY <1>1, <2>1, <2>2, <2>3
  <2> QED BY <2>4, <2>5
<1>11. Shuffled(g, r, n)
  <2>1. n \in 0 .. Size(g) /\ n \in 0 .. n
    BY <1>1, <1>9
  <2> HIDE DEF n
  <2> QED BY <1>7, <1>8, <1>9, <2>1, ShuffledItself, UpShuffles
<1>12. r.internalMap = Elems(r)
  BY <1>3, <1>10, <1>11 DEF Shuffled, map
<1>13. ASSUME IndexFits(h) PROVE IndexFits(r)
  <2>1. ASSUME NEW p \in 1 .. n PROVE g.index[g.internalData[p]] \in {0, p}
    <3>1. CASE p = n
      BY <3>1, <1>2, <1>3, <1>5
    <3>2. CASE p # n
      <4>1. p \in 1 .. Size(h) /\ h.internalData[p] # d /\ h.internalData[p] \in Datastores
        BY <1>1, <3>2
      <4>2. g.internalData[p] = h.internalData[p]
        BY <3>2, <1>2, <1>3
      <4>3. g.index[h.internalData[p]] = h.index[h.internalData[p]]
        BY <4>1, <1>3, <1>5
      <4> QED BY <1>13, <4>1, <4>2, <4>3 DEF IndexFits
    <3> QED BY <3>1, <3>2
  <2>2. IndexFits(g)
    BY <1>9, <2>1 DEF IndexFits
  <2> QED BY <1>11, <2>2, ShuffledFits
<1> QED BY <1>3, <1>10, <1>11, <1>12, <1>13 DEF Shuffled, missed, r

-----------------------------------------------------------------------------
(* The sweep.                                                              *)

\* What holds between two turns of a sweep of h.
Swept(h, late, g) ==
    /\ g \in Heaps /\ Distinct(g) /\ g.internalMap = Elems(g)
    /\ Elems(g) \subseteq Elems(h) /\ Elems(h) \ late \subseteq Elems(g)
    /\ \A e \in Elems(g) : g.missed[e] <= MaxMissed
    /\ IndexFits(h) => IndexFits(g)

\* CheckTTL changes the missed heartbeats of one datastore and nothing else.
LEMMA CheckTTLCounts ==
    ASSUME NEW g \in Heaps, NEW d \in Datastores, NEW late, g.missed[d] <= MaxMissed
    PROVE  LET c == CheckTTL(g, d, late)
           IN  /\ c \in Heaps
               /\ c.internalData = g.internalData /\ c.internalMap = g.internalMap
               /\ c.index = g.index /\ c.status = g.status
               /\ \A e \in Datastores \ {d} : c.missed[e] = g.missed[e]
               /\ c.missed[d] = IF d \in late THEN g.missed[d] + 1 ELSE 0
<1> DEFINE c == CheckTTL(g, d, late)
           missed == [g.missed EXCEPT ![d] = IF d \in late THEN @ + 1 ELSE 0]
<1>1. g.missed \in [Datastores -> 0 .. MaxMissed + 1] /\ MaxMissed \in Nat
  BY HeapShape, HeapAssumption
<1>2. /\ missed \in [Datastores -> 0 .. MaxMissed + 1]
      /\ \A e \in Datastores \ {d} : missed[e] = g.missed[e]
      /\ missed[d] = IF d \in late THEN g.missed[d] + 1 ELSE 0
  BY <1>1
<1>3. c = [g EXCEPT !.missed = missed]
  BY DEF CheckTTL
<1> HIDE DEF missed, c
<1>4. c \in Heaps
  BY <1>2, <1>3 DEF Heaps
<1>5. /\ c.internalData = g.internalData /\ c.internalMap = g.internalMap
      /\ c.index = g.index /\ c.status = g.status /\ c.missed = missed
  BY <1>3 DEF Heaps
<1> QED BY <1>2, <1>4, <1>5 DEF c

\* A check of d, which leaves it with its count or out of the heap.
Checked(g, d, late, r) ==
    /\ d \in Elems(g)
    /\ r.missed = CheckTTL(g, d, late).missed
    /\ Elems(r) = Elems(g) \/ (Elems(r) = Elems(g) \ {d} /\ r.missed[d] > MaxMissed)

\* A turn of the sweep keeps or removes the element it looks at, which it
\* removes only when it is late, and has one element less left to look at.
LEMMA SweepTurnKeeps ==
    ASSUME NEW h \in Heaps, NEW late,
           NEW s \in [heap : Heaps, at : Nat \ {0}], Swept(h, late, s.heap)
    PROVE  /\ SweepTurn(s, late) \in [heap : Heaps, at : Nat \ {0}]
           /\ Swept(h, late, SweepTurn(s, late).heap)
           /\ s.at <= Size(s.heap) =>
                /\ SweepTurn(s, late).at - Size(SweepTurn(s, late).heap) = s.at - Size(s.heap) + 1
                /\ Checked(s.heap, s.heap.internalData[s.at], late, SweepTurn(s, late).heap)
<1> DEFINE g == s.heap
           i == s.at
           n == Size(g)
           d == g.internalData[i]
           c == CheckTTL(g, d, late)
           f == [c EXCEPT !.internalMap = @ \ {d}]
           t == SweepTurn(s, late)
<1>1. g \in Heaps /\ i \in Nat /\ i # 0 /\ n \in Nat /\ Swept(h, late, g)
  BY HeapShape
<1>2. CASE i > n
  <2>1. t = s
    BY <1>2 DEF SweepTurn, Size
  <2>2. ~(s.at <= Size(s.heap))
    BY <1>1, <1>2
  <2> HIDE DEF t
  <2> QED BY <1>1, <2>1, <2>2 DEF t
<1>3. CASE ~(i > n)
  <2>1. i \in 1 .. n /\ i \in 0 .. n /\ n \in 0 .. n
    BY <1>1, <1>3
  <2>2. d \in Datastores /\ d \in Elems(g) /\ g.missed[d] <= MaxMissed
    BY <1>1, <2>1, HeapShape DEF Swept
  <2>3. /\ c \in Heaps
        /\ c.internalData = g.internalData /\ c.internalMap = g.internalMap
        /\ c.index = g.index /\ c.status = g.status
        /\ \A e \in Datastores \ {d} : c.missed[e] = g.missed[e]
        /\ c.missed[d] = IF d \in late THEN g.missed[d] + 1 ELSE 0
    BY <1>1, <2>2, CheckTTLCounts
  <2>4. t = IF Healthy(c, d)
            THEN [heap |-> Fix(c, i, Size(c)), at |-> i + 1]
            ELSE [s EXCEPT !.heap = Remove(f, i)]
    BY <1>3 DEF SweepTurn, Size
  <2> HIDE DEF t, c, d
  <2>5. Size(c) = n /\ Elems(c) = Elems(g) /\ Distinct(c) /\ (IndexFits(g) => IndexFits(c))
    BY <1>1, <2>3 DEF Size, Elems, Distinct, IndexFits, Swept
  <2>6. CASE Healthy(c, d)
    <3> DEFINE r == Fix(c, i, n)
    <3>1. Shuffled(c, r, n)
      BY <2>1, <2>3, <2>5, ShuffledItself, FixShuffles
    <3>2. t = [heap |-> r, at |-> i + 1]
      BY <2>4, <2>5, <2>6
    <3> HIDE DEF r
    <3>3. /\ r \in Heaps /\ Distinct(r) /\ Elems(r) = Elems(g) /\ r.internalMap = Elems(r)
          /\ r.missed = c.missed /\ Size(r) = n
      <4>1. /\ r \in Heaps /\ Distinct(r) /\ Elems(r) = Elems(c) /\ r.missed = c.missed
            /\ Size(r) = Size(c)
            /\ c.internalMap \subseteq r.internalMap
            /\ r.internalMap \subseteq c.internalMap \cup Elems(c)
        BY <3>1 DEF Shuffled
      <4>2. c.internalMap = Elems(c) /\ Elems(c) = Elems(g)
        BY <1>1, <2>3, <2>5 DEF Swept
      <4> QED BY <2>5, <4>1, <4>2
    <3>4. IndexFits(g) => IndexFits(r)
      BY <2>5, <3>1, ShuffledFits
    <3>5. \A e \in Elems(r) : r.missed[e] <= MaxMissed
      <4>1. \A e \in Elems(r) : e \in Datastores /\ (e # d => g.missed[e] <= MaxMissed)
        BY <1>1, <3>3, HeapShape DEF Swept
      <4> QED BY <4>1, <2>3, <2>6, <3>3 DEF Healthy
    <3>6. Swept(h, late, r)
      BY <1>1, <3>3, <3>4, <3>5 DEF Swept
    <3>7. i + 1 - n = i - n + 1
      BY <1>1
    <3>8. Checked(g, d, late, r)
      BY <2>2, <3>3 DEF Checked, c
    <3>9. /\ t \in [heap : Heaps, at : Nat \ {0}] /\ Swept(h, late, t.heap)
          /\ t.at - Size(t.heap) = i - n + 1 /\ Checked(g, d, late, t.heap)
      <4> HIDE DEF n
      <4> QED BY <1>1, <3>2, <3>3, <3>6, <3>7, <3>8
    <3> QED BY <3>9 DEF t, d
  <2>7. CASE ~Healthy(c, d)
    <3> DEFINE r == Remove(f, i)
    <3>1. d \in late
      BY <2>3, <2>7, HeapAssumption DEF Healthy
    <3>2. /\ f \in Heaps /\ f.internalData = c.internalData /\ f.index = c.index
          /\ f.missed = c.missed /\ f.internalMap = c.internalMap \ {d}
      BY <2>3 DEF Heaps
    <3> HIDE DEF f
    <3>3. Size(f) = n /\ Elems(f) = Elems(g) /\ Distinct(f) /\ (IndexFits(g) => IndexFits(f))
      <4>1. Size(f) = Size(c) /\ Elems(f) = Elems(c)
        BY <3>2 DEF Size, Elems
      <4>2. (Distinct(c) => Distinct(f)) /\ (IndexFits(c) => IndexFits(f))
        BY <3>2, <4>1 DEF Distinct, IndexFits
      <4> QED BY <2>5, <4>1, <4>2
    <3>4. f.internalData[i] = d /\ f.internalMap = Elems(f) \ {d}
      BY <1>1, <2>3, <3>2, <3>3 DEF Swept, d
    <3>5. /\ r \in Heaps /\ Distinct(r) /\ Elems(r) = Elems(f) \ {d}
          /\ r.internalMap = Elems(r) /\ r.missed = f.missed /\ Size(r) = Size(f) - 1
          /\ (IndexFits(f) => IndexFits(r))
      <4>1. i \in 1 .. Size(f)
        BY <2>1, <3>3
      <4>2. Elems(f) \ {f.internalData[i]} \subseteq f.internalMap /\ f.internalMap \subseteq Elems(f)
        BY <3>4
      <4> HIDE DEF i, n
      <4> QED BY <4>1, <4>2, <3>2, <3>3, <3>4, RemoveTakesOut
    <3>6. t = [s EXCEPT !.heap = r]
      BY <2>4, <2>7
    <3> HIDE DEF r
    <3>7. \A e \in Elems(r) : r.missed[e] <= MaxMissed
      <4>1. \A e \in Elems(r) : e \in Datastores /\ e # d /\ g.missed[e] <= MaxMissed
        BY <1>1, <3>3, <3>5, HeapShape DEF Swept
      <4> QED BY <4>1, <2>3, <3>2, <3>5
    <3>8. Swept(h, late, r)
      BY <1>1, <3>1, <3>3, <3>5, <3>7 DEF Swept
    <3>9. Size(r) = n - 1 /\ i - (n - 1) = i - n + 1
      BY <1>1, <3>3, <3>5
    <3>10. Checked(g, d, late, r)
      <4>1. r.missed = c.missed /\ c.missed[d] \in Nat
        BY <2>2, <2>3, <3>2, <3>5, HeapShape
      <4>2. Elems(r) = Elems(g) \ {d}
        BY <3>3, <3>5
      <4>3. c.missed[d] > MaxMissed
        BY <4>1, <2>7, HeapAssumption DEF Healthy
      <4> QED BY <2>2, <4>1, <4>2, <4>3 DEF Checked, c
    <3>11. /\ t \in [heap : Heaps, at : Nat \ {0}] /\ Swept(h, late, t.heap)
           /\ t.at - Size(t.heap) = i - n + 1 /\ Checked(g, d, late, t.heap)
      <4> HIDE DEF n
      <4> QED BY <1>1, <3>5, <3>6, <3>8, <3>9, <3>10
    <3> QED BY <3>11 DEF t, d
  <2> QED BY <2>6, <2>7
<1> QED BY <1>2, <1>3

\* What has become of the misses of h after at most k checks of each.
CountedSoFar(h, late, g, k) ==
    \A e \in Elems(h) :
       \E checks \in 0 .. k :
          LET count == Counted(h.missed[e], checks, e \in late)
          IN  /\ e \in Elems(g) => g.missed[e] = count
              /\ e \notin Elems(g) => count > MaxMissed

\* A check adds one to those of the datastore checked.
LEMMA CheckedOnce ==
    ASSUME NEW h \in Heaps, NEW g \in Heaps, NEW late, NEW d \in Datastores,
           NEW r, NEW k \in Nat, g.missed[d] <= MaxMissed,
           CountedSoFar(h, late, g, k), Checked(g, d, late, r)
    PROVE  CountedSoFar(h, late, r, k + 1)
<1>1. /\ \A e \in Datastores \ {d} : r.missed[e] = g.missed[e]
      /\ r.missed[d] = IF d \in late THEN g.missed[d] + 1 ELSE 0
  BY CheckTTLCounts DEF Checked
<1>2. SUFFICES ASSUME NEW e \in Elems(h)
               PROVE  \E checks \in 0 .. k + 1 :
                         LET count == Counted(h.missed[e], checks, e \in late)
                         IN  /\ e \in Elems(r) => r.missed[e] = count
                             /\ e \notin Elems(r) => count > MaxMissed
  BY DEF CountedSoFar
<1>3. PICK checks \in 0 .. k :
         LET count == Counted(h.missed[e], checks, e \in late)
         IN  /\ e \in Elems(g) => g.missed[e] = count
             /\ e \notin Elems(g) => count > MaxMissed
  BY DEF CountedSoFar
<1>4. e \in Datastores /\ h.missed[e] \in Nat
  BY HeapShape
<1>5. CASE e # d
  <2>1. (e \in Elems(r) <=> e \in Elems(g)) /\ r.missed[e] = g.missed[e]
    BY <1>1, <1>4, <1>5 DEF Checked
  <2>2. checks \in 0 .. k + 1
    OBVIOUS
  <2> QED BY <1>3, <2>1, <2>2
<1>6. CASE e = d
  <2>1. e \in Elems(g) /\ (e \notin Elems(r) => r.missed[e] > MaxMissed)
    BY <1>6 DEF Checked
  <2>2. checks + 1 \in 0 .. k + 1
    OBVIOUS
  <2>3. r.missed[e] = Counted(h.missed[e], checks + 1, e \in late)
    BY <1>1, <1>3, <1>4, <1>6, <2>1 DEF Counted
  <2> QED BY <2>1, <2>2, <2>3
<1> QED BY <1>5, <1>6

\* A sweep loses no datastore that is not late, counts each of its checks, and
\* has ended after as many turns as there were elements.
LEMMA SweepKeeps ==
    ASSUME NEW h \in Heaps, NEW late, Swept(h, late, h)
    PROVE  LET r == Sweep(h, late)
           IN  /\ Swept(h, late, r.heap) /\ r.at > Size(r.heap)
               /\ CountedSoFar(h, late, r.heap, Len(h.internalData))
<1> DEFINE n == Len(h.internalData)
           X(k) == {s \in [heap : Heaps, at : Nat \ {0}] :
                      /\ Swept(h, late, s.heap) /\ CountedSoFar(h, late, s.heap, k)
                      /\ s.at > Size(s.heap) \/ s.at - Size(s.heap) = 1 - n + k}
           I == [k \in Nat |-> X(k)]
           start == [heap |-> h, at |-> 1]
<1>1. n \in Nat /\ n = Size(h)
  BY HeapShape DEF Size
<1>2. start \in I[0]
  <2>1. CountedSoFar(h, late, h, 0)
    <3>1. \A e \in Elems(h) : h.missed[e] = Counted(h.missed[e], 0, e \in late)
      BY DEF Counted
    <3> QED BY <3>1 DEF CountedSoFar
  <2> QED BY <1>1, <2>1
<1>3. ASSUME NEW k \in Nat, NEW s \in I[k] PROVE SweepTurn(s, late) \in I[k + 1]
  <2> DEFINE t == SweepTurn(s, late)
  <2>1. s \in X(k) /\ s.at \in Nat /\ s.heap \in Heaps /\ Size(s.heap) \in Nat
    BY HeapShape
  <2>2. /\ t \in [heap : Heaps, at : Nat \ {0}] /\ Swept(h, late, t.heap)
        /\ s.at <= Size(s.heap) =>
              /\ t.at - Size(t.heap) = s.at - Size(s.heap) + 1
              /\ Checked(s.heap, s.heap.internalData[s.at], late, t.heap)
    BY <2>1, SweepTurnKeeps
  <2>3. s.at > Size(s.heap) => t = s
    BY DEF SweepTurn, Size
  <2> HIDE DEF t, n
  <2>4. t.at > Size(t.heap) \/ t.at - Size(t.heap) = 1 - n + (k + 1)
    <3>1. CASE s.at > Size(s.heap)
      BY <3>1, <2>3
    <3>2. CASE ~(s.at > Size(s.heap))
      BY <3>2, <1>1, <2>1, <2>2
    <3> QED BY <3>1, <3>2
  <2>5. CountedSoFar(h, late, t.heap, k + 1)
    <3>1. CASE s.at > Size(s.heap)
      BY <3>1, <2>1, <2>3 DEF CountedSoFar
    <3>2. CASE ~(s.at > Size(s.heap))
      <4> DEFINE d == s.heap.internalData[s.at]
      <4>1. s.at \in 1 .. Size(s.heap)
        BY <3>2, <2>1
      <4>2. d \in Datastores /\ d \in Elems(s.heap)
        BY <2>1, <4>1, HeapShape
      <4>3. s.heap.missed[d] <= MaxMissed
        BY <2>1, <4>2 DEF Swept
      <4>4. Checked(s.heap, d, late, t.heap)
        BY <3>2, <2>1, <2>2
      <4>5. CountedSoFar(h, late, s.heap, k)
        BY <2>1
      <4> HIDE DEF d
      <4> QED BY <2>1, <4>2, <4>3, <4>4, <4>5, CheckedOnce
    <3> QED BY <3>1, <3>2
  <2> QED BY <2>2, <2>4, <2>5 DEF t
<1> DEFINE r == Sweep(h, late)
<1> HIDE DEF I, n
<1>4. r \in I[n]
  BY <1>1, <1>2, <1>3, SweepLoop DEF n
<1>5. r \in X(n)
  BY <1>1, <1>4 DEF I
<1> HIDE DEF r
<1>6. r.at \in Nat /\ Size(r.heap) \in Nat /\ 1 - n + n = 1
  BY <1>1, <1>5, HeapShape
<1> QED BY <1>5, <1>6 DEF r, n

-----------------------------------------------------------------------------
(* The order of the heap.                                                  *)

\* Scores are numbers, and depend on nothing that a swap touches.
LEMMA ScoreIsNumber ==
    ASSUME NEW h \in Heaps, NEW d \in Datastores
    PROVE  Score(h, d) \in Int
<1> DEFINE s == h.status[d]
           m == h.missed[d]
<1>1. s \in Statuses /\ m \in 0 .. MaxMissed + 1
  BY HeapShape
<1>2. s.ram \in Nat /\ s.space \in Nat /\ s.db \in Nat /\ m \in Int /\ ScoreModulus \in Nat \ {0}
  BY <1>1, HeapAssumption
<1> HIDE DEF s, m
<1>3. 5 * s.ram + 5 * s.space - 50 * s.db - 10 * m \in Int
  BY <1>2
<1>4. (5 * s.ram + 5 * s.space - 50 * s.db - 10 * m) % ScoreModulus \in Int
  BY <1>2, <1>3
<1> QED BY <1>4 DEF Score, s, m

\* The positions of the children of p.
Children(p) == {2 * p, 2 * p + 1}

\* Position p is at least as good as its children among the first n.
Leads(h, p, n) ==
    \A c \in Children(p) : c <= n => Score(h, h.internalData[p]) >= Score(h, h.internalData[c])

\* So are all positions from lo on.
Ordered(h, lo, n) == \A p \in lo .. n : Leads(h, p, n)

\* So are all but a, and the parent of a leads the children of a as well.
Settling(h, lo, a, n) ==
    /\ \A p \in (lo .. n) \ {a} : Leads(h, p, n)
    /\ \A p \in lo .. n : a \in Children(p) =>
          \A c \in Children(a) : c <= n => Score(h, h.internalData[p]) >= Score(h, h.internalData[c])

\* A swap of a with the better of its children moves the only position that
\* may be out of order down to that child.
LEMMA SwapSettles ==
    ASSUME NEW h \in Heaps, Distinct(h), NEW n \in 0 .. Size(h), NEW lo \in 1 .. n,
           NEW a \in lo .. n, NEW b \in Children(a), b <= n,
           Score(h, h.internalData[b]) > Score(h, h.internalData[a]),
           \A c \in Children(a) : c <= n =>
              Score(h, h.internalData[b]) >= Score(h, h.internalData[c]),
           Settling(h, lo, a, n)
    PROVE  Settling(Swap(h, a, b), lo, b, n)
<1> DEFINE g == Swap(h, a, b)
           N == Size(h)
           sc == [p \in 1 .. N |-> Score(h, h.internalData[p])]
           at(p) == IF p = b THEN a ELSE IF p = a THEN b ELSE p
<1>1. /\ N \in Nat /\ n \in Nat /\ n <= N /\ lo \in Nat /\ lo >= 1
      /\ a \in Nat /\ a >= lo /\ a <= n /\ b \in Nat /\ b > a
      /\ a \in 1 .. N /\ b \in 1 .. N /\ a \in 1 .. n /\ b \in 1 .. n
  BY HeapShape DEF Children
<1>2. sc \in [1 .. N -> Int]
  BY HeapShape, ScoreIsNumber
<1>3. \A p \in 1 .. N : Score(g, g.internalData[p]) = sc[at(p)]
  <2>1. \A p \in 1 .. N : g.internalData[p] = h.internalData[at(p)] /\ at(p) \in 1 .. N
    BY <1>1, SwapFields
  <2>2. g.missed = h.missed /\ g.status = h.status
    BY <1>1, SwapFields
  <2>3. \A d : Score(g, d) = Score(h, d)
    BY <2>2 DEF Score
  <2> HIDE DEF g, at, N
  <2> QED BY <2>1, <2>3
<1>4. \A p \in 1 .. n : p \in 1 .. N /\ sc[p] = Score(h, h.internalData[p])
  BY <1>1
<1>5. /\ \A p \in lo .. n : \A c \in Children(p) : p # a /\ c <= n => sc[p] >= sc[c]
      /\ \A p \in lo .. n : \A c \in Children(a) : a \in Children(p) /\ c <= n => sc[p] >= sc[c]
      /\ \A c \in Children(a) : c <= n => sc[b] >= sc[c]
      /\ sc[b] > sc[a]
  <2>1. \A p \in lo .. n : \A c \in Children(p) : c <= n => p \in 1 .. n /\ c \in 1 .. n
    BY <1>1 DEF Children
  <2> HIDE DEF sc, N
  <2> QED BY <1>1, <1>4, <2>1 DEF Settling, Leads
<1> HIDE DEF sc, N, g
<1>6. ASSUME NEW p \in (lo .. n) \ {b} PROVE Leads(g, p, n)
  <2>1. SUFFICES ASSUME NEW c \in Children(p), c <= n
                 PROVE  sc[at(p)] >= sc[at(c)]
    <3>1. \A c \in Children(p) : c <= n => c \in 1 .. N /\ p \in 1 .. N
      BY <1>1 DEF Children
    <3> HIDE DEF at
    <3> QED BY <1>3, <2>1, <3>1 DEF Leads
  <2>2. c \in Nat /\ p \in Nat /\ c > p /\ c \in 1 .. n /\ p \in 1 .. N /\ c \in 1 .. N
    BY <1>1, <2>1 DEF Children
  <2>3. CASE p = a
    <3>1. at(p) = b /\ (c = b => at(c) = a) /\ (c # b => at(c) = c)
      BY <2>2, <2>3
    <3> QED BY <1>1, <1>2, <1>5, <2>1, <2>2, <2>3, <3>1
  <2>4. CASE p # a /\ c = a
    <3>1. at(p) = p /\ at(c) = b
      BY <2>4
    <3> QED BY <1>1, <1>5, <2>1, <2>4, <3>1
  <2>5. CASE p # a /\ c # a
    <3>1. c # b
      BY <1>1, <2>1, <2>2, <2>5 DEF Children
    <3>2. at(p) = p /\ at(c) = c
      BY <2>5, <3>1
    <3> QED BY <1>5, <2>1, <2>5, <3>2
  <2> QED BY <2>3, <2>4, <2>5
<1>7. ASSUME NEW p \in lo .. n, b \in Children(p), NEW c \in Children(b), c <= n
      PROVE  Score(g, g.internalData[p]) >= Score(g, g.internalData[c])
  <2>1. p = a
    BY <1>1, <1>7 DEF Children
  <2>2. c \in Nat /\ c > b /\ c \in 1 .. N /\ b \in lo .. n
    BY <1>1, <1>7 DEF Children
  <2>3. at(p) = b /\ at(c) = c
    BY <1>1, <2>1, <2>2
  <2>4. sc[b] >= sc[c]
    BY <1>1, <1>5, <1>7, <2>2
  <2> HIDE DEF at
  <2> QED BY <1>1, <1>3, <2>1, <2>2, <2>3, <2>4
<1> QED BY <1>6, <1>7 DEF Settling, g

\* A turn of heap.down finds the position in order, or swaps it with the
\* better of its children.
LEMMA DownTurnIs ==
    ASSUME NEW g \in Heaps, NEW n \in 0 .. Size(g), NEW a \in 1 .. n
    PROVE  LET s == [heap |-> g, at |-> a]
               sc(p) == Score(g, g.internalData[p])
           IN  \/ DownTurn(s, n) = s /\ Leads(g, a, n)
               \/ \E b \in Children(a) :
                     /\ b <= n /\ sc(b) > sc(a)
                     /\ \A c \in Children(a) : c <= n => sc(b) >= sc(c)
                     /\ DownTurn(s, n) = [heap |-> Swap(g, a, b), at |-> b]
<1> DEFINE s == [heap |-> g, at |-> a]
           left == 2 * a
           sc == [p \in 1 .. Size(g) |-> Score(g, g.internalData[p])]
           child == IF left + 1 <= n /\ Less(g, left + 1, left) THEN left + 1 ELSE left
<1>1. /\ Size(g) \in Nat /\ n \in Nat /\ n <= Size(g) /\ a \in Nat /\ a >= 1 /\ a <= n
      /\ left \in Nat /\ left >= 1
  BY HeapShape
<1>2. sc \in [1 .. Size(g) -> Int]
  BY HeapShape, ScoreIsNumber
<1>3. \A p \in 1 .. n : sc[p] = Score(g, g.internalData[p]) /\ sc[p] \in Int
  BY <1>1, <1>2
<1>4. \A p, q \in 1 .. n : Less(g, p, q) <=> sc[p] > sc[q]
  BY <1>3 DEF Less
<1>5. DownTurn(s, n) = IF left \in 1 .. n /\ Less(g, child, a)
                       THEN [heap |-> Swap(g, a, child), at |-> child]
                       ELSE s
  BY DEF DownTurn
<1> HIDE DEF sc
<1>6. CASE left > n
  <2>1. DownTurn(s, n) = s
    BY <1>1, <1>5, <1>6
  <2>2. Leads(g, a, n)
    BY <1>1, <1>6 DEF Leads, Children
  <2> QED BY <2>1, <2>2
<1>7. CASE ~(left > n)
  <2>1. left \in 1 .. n /\ (left + 1 <= n => left + 1 \in 1 .. n) /\ a \in 1 .. n
    BY <1>1, <1>7
  <2>2. /\ child \in Children(a) /\ child \in 1 .. n
        /\ \A c \in Children(a) : c <= n => c \in 1 .. n /\ sc[child] >= sc[c]
    BY <1>1, <1>3, <1>4, <2>1 DEF Children
  <2> HIDE DEF child
  <2>3. CASE Less(g, child, a)
    <3>1. DownTurn(s, n) = [heap |-> Swap(g, a, child), at |-> child]
      BY <1>5, <2>1, <2>3
    <3>2. sc[child] > sc[a] /\ child <= n
      BY <1>4, <2>1, <2>2, <2>3
    <3> HIDE DEF left, s
    <3> QED BY <1>3, <2>1, <2>2, <3>1, <3>2 DEF s
  <2>4. CASE ~Less(g, child, a)
    <3>1. DownTurn(s, n) = s
      BY <1>5, <2>4
    <3>2. sc[a] >= sc[child]
      BY <1>3, <1>4, <2>1, <2>2, <2>4
    <3>3. ASSUME NEW c \in Children(a), c <= n PROVE c \in 1 .. n /\ sc[a] >= sc[c]
      <4>1. c \in 1 .. n /\ sc[child] >= sc[c]
        BY <2>2, <3>3
      <4>2. sc[a] \in Int /\ sc[child] \in Int /\ sc[c] \in Int
        BY <1>3, <2>1, <2>2, <4>1
      <4> QED BY <3>2, <4>1, <4>2
    <3>4. Leads(g, a, n)
      BY <1>3, <2>1, <3>3 DEF Leads
    <3> QED BY <3>1, <3>4
  <2> QED BY <2>3, <2>4
<1> QED BY <1>6, <1>7

\* heap.down puts its position in order when all further down are.
LEMMA DownOrders ==
    ASSUME NEW h \in Heaps, Distinct(h), NEW n \in 0 .. Size(h), NEW i \in 1 .. n,
           Ordered(h, i + 1, n)
    PROVE  Ordered(Down(h, i, n).heap, i, n)
<1> DEFINE J(k) == {s \in [heap : Heaps, at : i .. n] :
                      /\ Shuffled(h, s.heap, n)
                      /\ Settling(s.heap, i, s.at, n)
                      /\ s.at > k \/ Leads(s.heap, s.at, n)}
           I == [k \in Nat |-> J(k)]
           start == [heap |-> h, at |-> i]
<1>1. n \in Nat /\ i \in Nat /\ i >= 1 /\ i <= n /\ n \div 2 \in Nat /\ 2 * (n \div 2) + 2 > n
      /\ i \in 1 .. Size(h)
  BY HeapShape
<1>2. start \in J(0)
  <2>1. Shuffled(h, h, n)
    BY ShuffledItself
  <2>2. \A p \in (i .. n) \ {i} : p \in i + 1 .. n
    BY <1>1
  <2>3. \A p \in i .. n : i \notin Children(p)
    BY <1>1 DEF Children
  <2>4. Settling(h, i, i, n)
    BY <2>2, <2>3 DEF Settling, Ordered
  <2> QED BY <1>1, <2>1, <2>4
<1>3. ASSUME NEW k \in Nat, NEW s \in J(k) PROVE DownTurn(s, n) \in J(k + 1)
  <2> DEFINE g == s.heap
             a == s.at
             t == DownTurn(s, n)
  <2>1. /\ g \in Heaps /\ a \in i .. n /\ s = [heap |-> g, at |-> a]
        /\ Shuffled(h, g, n) /\ Settling(g, i, a, n) /\ (a > k \/ Leads(g, a, n))
    OBVIOUS
  <2>2. a \in 1 .. n /\ a \in Nat /\ n \in 0 .. Size(g) /\ Distinct(g)
    BY <1>1, <2>1 DEF Shuffled
  <2>3. CASE t = s /\ Leads(g, a, n)
    BY <2>1, <2>3
  <2>4. CASE \E b \in Children(a) :
               /\ b <= n /\ Score(g, g.internalData[b]) > Score(g, g.internalData[a])
               /\ \A c \in Children(a) :
                     c <= n => Score(g, g.internalData[b]) >= Score(g, g.internalData[c])
               /\ t = [heap |-> Swap(g, a, b), at |-> b]
    <3>1. PICK b \in Children(a) :
               /\ b <= n /\ Score(g, g.internalData[b]) > Score(g, g.internalData[a])
               /\ \A c \in Children(a) :
                     c <= n => Score(g, g.internalData[b]) >= Score(g, g.internalData[c])
               /\ t = [heap |-> Swap(g, a, b), at |-> b]
      BY <2>4
    <3> HIDE DEF g, a, t
    <3>2. b \in 1 .. n /\ b \in i .. n /\ (a > k => b > k + 1)
      BY <1>1, <2>1, <2>2, <3>1 DEF Children
    <3>3. a > k
      <4>1. Score(g, g.internalData[a]) \in Int /\ Score(g, g.internalData[b]) \in Int
        BY <2>1, <2>2, <3>2, HeapShape, ScoreIsNumber
      <4> QED BY <2>1, <3>1, <4>1 DEF Leads
    <3>4. Shuffled(h, Swap(g, a, b), n)
      BY <1>1, <2>1, <2>2, <3>2, SwapShuffles
    <3>5. Settling(Swap(g, a, b), i, b, n)
      BY <1>1, <2>1, <2>2, <3>1, SwapSettles
    <3>6. Swap(g, a, b) \in Heaps
      BY <3>4 DEF Shuffled
    <3>7. t \in J(k + 1)
      BY <3>1, <3>2, <3>3, <3>4, <3>5, <3>6
    <3> QED BY <3>7 DEF t
  <2> HIDE DEF g, a, J
  <2> QED BY <2>1, <2>2, <2>3, <2>4, DownTurnIs
<1> HIDE DEF J
<1>4. start \in I[0] /\ \A k \in Nat : \A s \in I[k] : DownTurn(s, n) \in I[k + 1]
  BY <1>2, <1>3
<1> HIDE DEF I
<1>5. Down(h, i, n) \in I[n \div 2]
  BY <1>1, <1>4, DownLoop
<1> DEFINE r == Down(h, i, n).heap
           z == Down(h, i, n).at
<1>6. /\ z \in i .. n /\ Settling(r, i, z, n) /\ (z > n \div 2 \/ Leads(r, z, n))
  BY <1>1, <1>5 DEF I, J
<1> HIDE DEF r, z
<1>7. Leads(r, z, n)
  <2>1. CASE z > n \div 2
    <3>1. \A c \in Children(z) : ~(c <= n)
      BY <1>1, <1>6, <2>1 DEF Children
    <3> QED BY <3>1 DEF Leads
  <2> QED BY <1>6, <2>1
<1>8. Ordered(r, i, n)
  BY <1>6, <1>7 DEF Settling, Ordered
<1> QED BY <1>8 DEF r

\* heap.Init only shuffles, and puts all positions in order.
LEMMA HeapifyOrders ==
    ASSUME NEW h \in Heaps, Distinct(h)
    PROVE  Shuffled(h, Heapify(h), Size(h)) /\ Ordered(Heapify(h), 1, Size(h))
<1> DEFINE n == Size(h)
           inner == n \div 2
           J(k) == {s \in [heap : Heaps, at : 0 .. inner] :
                      /\ Shuffled(h, s.heap, n) /\ Ordered(s.heap, s.at + 1, n)
                      /\ s.at + k <= inner \/ s.at = 0}
           I == [k \in Nat |-> J(k)]
           start == [heap |-> h, at |-> inner]
<1>1. n \in Nat /\ inner \in Nat /\ 2 * inner + 2 > n /\ inner <= n
  BY HeapShape
<1>2. start \in J(0)
  <2>1. \A p \in inner + 1 .. n : \A c \in Children(p) : ~(c <= n)
    BY <1>1 DEF Children
  <2>2. Ordered(h, inner + 1, n)
    BY <2>1 DEF Ordered, Leads
  <2> HIDE DEF n, inner
  <2> QED BY <1>1, <2>2, ShuffledItself
<1>3. ASSUME NEW k \in Nat, NEW s \in J(k) PROVE HeapifyTurn(s) \in J(k + 1)
  <2> DEFINE g == s.heap
             a == s.at
             r == Down(g, a, n).heap
  <2>1. /\ g \in Heaps /\ a \in 0 .. inner /\ s = [heap |-> g, at |-> a]
        /\ Shuffled(h, g, n) /\ Ordered(g, a + 1, n) /\ (a + k <= inner \/ a = 0)
    OBVIOUS
  <2>2. HeapifyTurn(s) = IF a = 0 THEN s ELSE [heap |-> r, at |-> a - 1]
    BY <2>1 DEF HeapifyTurn, Shuffled, Size
  <2> HIDE DEF g, a
  <2>3. CASE a = 0
    BY <2>1, <2>2, <2>3
  <2>4. CASE a # 0
    <3>1. a \in 1 .. n /\ a \in Nat /\ n \in 0 .. Size(g) /\ n \in 0 .. n /\ n \in 0 .. Size(h)
      BY <1>1, <2>1, <2>4 DEF Shuffled
    <3>2. Distinct(g)
      BY <2>1 DEF Shuffled
    <3> HIDE DEF n, inner
    <3>3. Shuffled(h, r, n)
      BY <2>1, <3>1, DownShuffles
    <3>4. Ordered(r, a, n)
      BY <2>1, <3>1, <3>2, DownOrders
    <3> HIDE DEF r
    <3>5. r \in Heaps /\ a - 1 \in 0 .. inner /\ (a - 1) + 1 = a /\ a - 1 + (k + 1) = a + k
      BY <1>1, <2>1, <3>1, <3>3 DEF Shuffled
    <3> QED BY <2>1, <2>2, <2>4, <3>3, <3>4, <3>5
  <2> QED BY <2>3, <2>4
<1> HIDE DEF J, n
<1>4. inner = Len(h.internalData) \div 2
  BY DEF n, Size
<1> HIDE DEF inner
<1>5. start \in I[0] /\ \A k \in Nat : \A s \in I[k] : HeapifyTurn(s) \in I[k + 1]
  BY <1>2, <1>3
<1> HIDE DEF I
<1>6. \E s \in I[inner] : Heapify(h) = s.heap
  BY <1>1, <1>4, <1>5, HeapifyLoop
<1>7. PICK s \in J(inner) : Heapify(h) = s.heap
  BY <1>1, <1>6 DEF I
<1>8. s.at = 0 /\ Shuffled(h, s.heap, n) /\ Ordered(s.heap, s.at + 1, n)
  BY <1>1 DEF J
<1>9. s.at + 1 = 1
  BY <1>8
<1> QED BY <1>7, <1>8, <1>9 DEF n

\* In an ordered heap no element is better than the root.
LEMMA RootIsBest ==
    ASSUME NEW h \in Heaps, NEW n \in 1 .. Size(h), Ordered(h, 1, n)
    PROVE  \A p \in 1 .. n : Score(h, h.internalData[1]) >= Score(h, h.internalData[p])
<1> DEFINE sc == [p \in 1 .. n |-> Score(h, h.internalData[p])]
           T == {k \in Nat : \A p \in 1 .. n : p <= k => sc[1] >= sc[p]}
<1>1. n \in Nat /\ 1 \in 1 .. n /\ \A p \in 1 .. n : p \in 1 .. Size(h)
  BY HeapShape
<1>2. sc \in [1 .. n -> Int]
  BY <1>1, HeapShape, ScoreIsNumber
<1>3. \A p, c \in 1 .. n : c \in Children(p) => sc[p] >= sc[c]
  BY <1>1 DEF Ordered, Leads
<1> HIDE DEF sc
<1>4. 0 \in T
  OBVIOUS
<1>5. ASSUME NEW k \in Nat, k \in T PROVE k + 1 \in T
  <2> DEFINE c == k + 1
             q == c \div 2
  <2>1. SUFFICES ASSUME c \in 1 .. n PROVE sc[1] >= sc[c]
    <3>1. \A p \in 1 .. n : p <= c => p <= k \/ p = c
      OBVIOUS
    <3> QED BY <1>5, <2>1, <3>1
  <2>2. CASE k = 0
    BY <1>1, <1>2, <2>2
  <2>3. CASE k # 0
    <3>1. q \in 1 .. n /\ q <= k /\ c \in Children(q)
      BY <1>1, <2>1, <2>3 DEF Children
    <3> HIDE DEF q, c
    <3>2. sc[1] >= sc[q] /\ sc[q] >= sc[c]
      BY <1>3, <1>5, <2>1, <3>1
    <3>3. sc[1] \in Int /\ sc[q] \in Int /\ sc[c] \in Int
      BY <1>1, <1>2, <2>1, <3>1
    <3> QED BY <3>2, <3>3
  <2> QED BY <2>2, <2>3
<1> HIDE DEF T
<1>6. \A k \in Nat : k \in T
  BY <1>4, <1>5, NatSetInduction
<1>7. n \in T
  BY <1>1, <1>6
<1> QED BY <1>1, <1>7 DEF T, sc

-----------------------------------------------------------------------------
(* The pops of TopK.                                                       *)

\* One heap.Pop of an ordered heap takes out its best element and leaves an
\* ordered heap of the others.
LEMMA PopRoot ==
    ASSUME NEW h \in Heaps, Distinct(h), Size(h) # 0, Ordered(h, 1, Size(h))
    PROVE  LET n == Size(h)
               d == h.internalData[1]
               r == Pop(Down(Swap(h, 1, n), 1, n - 1).heap)
           IN  /\ r \in Heaps /\ Distinct(r) /\ Size(r) = n - 1 /\ Ordered(r, 1, n - 1)
               /\ d \in Elems(h) /\ Elems(r) = Elems(h) \ {d}
               /\ r.missed = h.missed /\ r.status = h.status
               /\ r.index[d] = 0
               /\ \A e \in Datastores \ Elems(h) : r.index[e] = h.index[e]
               /\ \A e \in Elems(h) : Score(h, d) >= Score(h, e)
<1> DEFINE n == Size(h)
           d == h.internalData[1]
           s == Swap(h, 1, n)
           g == Down(s, 1, n - 1).heap
           r == Pop(g)
<1>1. /\ n \in Nat /\ n - 1 \in Nat /\ 1 \in 1 .. n /\ n \in 1 .. n /\ n \in 0 .. n
      /\ n - 1 \in 0 .. n /\ n - 1 \in 0 .. n - 1 /\ n \in (n - 1) + 1 .. n
  BY HeapShape
<1>2. /\ d \in Datastores /\ d \in Elems(h)
      /\ Elems(h) = {h.internalData[p] : p \in 1 .. n}
  BY <1>1, HeapShape
<1>3. \A e \in Elems(h) : Score(h, d) >= Score(h, e)
  BY <1>1, <1>2, RootIsBest
<1>4. /\ s \in Heaps /\ Size(s) = n /\ s.internalData[n] = d
      /\ \A p \in 2 .. n - 1 : s.internalData[p] = h.internalData[p]
      /\ s.missed = h.missed /\ s.status = h.status
  <2>1. \A p \in 2 .. n - 1 : p \in 1 .. n /\ p # 1 /\ p # n
    BY <1>1
  <2> QED BY <1>1, <2>1, SwapFields
<1>5. Shuffled(h, s, n) /\ Distinct(s)
  <2>1. Shuffled(h, h, n)
    BY ShuffledItself
  <2>2. Shuffled(h, s, n)
    BY <1>1, <2>1, SwapShuffles
  <2> QED BY <2>2 DEF Shuffled
<1>6. Ordered(s, 2, n - 1)
  <2>1. ASSUME NEW p \in 2 .. n - 1, NEW c \in Children(p), c <= n - 1
        PROVE  Score(s, s.internalData[p]) >= Score(s, s.internalData[c])
    <3>1. c \in 2 .. n - 1 /\ p \in 1 .. n /\ c <= n
      BY <1>1, <2>1 DEF Children
    <3>2. Score(h, h.internalData[p]) >= Score(h, h.internalData[c])
      BY <3>1 DEF Ordered, Leads
    <3>3. \A e : Score(s, e) = Score(h, e)
      BY <1>4 DEF Score
    <3> HIDE DEF s, n
    <3> QED BY <1>4, <2>1, <3>1, <3>2, <3>3
  <2> QED BY <2>1 DEF Ordered, Leads
<1> HIDE DEF s, n, d
<1>7. Shuffled(h, g, n)
  BY <1>1, <1>5, DownShuffles DEF n
<1>8. Shuffled(s, g, n - 1)
  <2>1. Shuffled(s, s, n - 1) /\ n - 1 \in 0 .. Size(s)
    BY <1>1, <1>4, <1>5, ShuffledItself
  <2> QED BY <1>1, <1>4, <2>1, DownShuffles
<1>9. Ordered(g, 1, n - 1)
  <2>1. CASE 1 \in 1 .. n - 1
    <3>1. n - 1 \in 0 .. Size(s) /\ Ordered(s, 1 + 1, n - 1)
      BY <1>1, <1>4, <1>6
    <3> QED BY <1>4, <1>5, <2>1, <3>1, DownOrders
  <2>2. CASE 1 \notin 1 .. n - 1
    <3>1. \A p \in 1 .. n - 1 : FALSE
      BY <1>1, <2>2
    <3> QED BY <3>1 DEF Ordered
  <2> QED BY <2>1, <2>2
<1> HIDE DEF g
<1>10. /\ g \in Heaps /\ Distinct(g) /\ Size(g) = n /\ Elems(g) = Elems(h)
       /\ g.missed = h.missed /\ g.status = h.status /\ g.internalData[n] = d
       /\ \A e \in Datastores \ Elems(h) : g.index[e] = h.index[e]
  <2>1. /\ g \in Heaps /\ Distinct(g) /\ Size(g) = n /\ Elems(g) = Elems(h)
        /\ g.missed = h.missed /\ g.status = h.status
        /\ \A e \in Datastores \ Elems(h) : g.index[e] = h.index[e]
    BY <1>7 DEF Shuffled, n
  <2>2. g.internalData[n] = d
    BY <1>1, <1>4, <1>8 DEF Shuffled
  <2> QED BY <2>1, <2>2
<1>11. /\ r \in Heaps /\ Distinct(r) /\ Size(r) = n - 1
       /\ \A p \in 1 .. n - 1 : r.internalData[p] = g.internalData[p]
       /\ Elems(r) = Elems(g) \ {d}
       /\ \A e \in Datastores : r.index[e] = IF e = d THEN 0 ELSE g.index[e]
       /\ r.missed = g.missed /\ r.status = g.status
  <2>1. Size(g) # 0
    BY <1>1, <1>10
  <2> QED BY <1>10, <2>1, PopTakesLast
<1> HIDE DEF r
<1>12. Ordered(r, 1, n - 1)
  <2>1. ASSUME NEW p \in 1 .. n - 1, NEW c \in Children(p), c <= n - 1
        PROVE  Score(r, r.internalData[p]) >= Score(r, r.internalData[c])
    <3>1. c \in 1 .. n - 1
      BY <1>1, <2>1 DEF Children
    <3>2. Score(g, g.internalData[p]) >= Score(g, g.internalData[c])
      BY <1>9, <2>1 DEF Ordered, Leads
    <3>3. \A e : Score(r, e) = Score(g, e)
      BY <1>11 DEF Score
    <3> QED BY <1>11, <2>1, <3>1, <3>2, <3>3
  <2> QED BY <2>1 DEF Ordered, Leads
<1> QED BY <1>2, <1>3, <1>10, <1>11, <1>12 DEF r, g, s, n, d

\* What holds after k turns of the pops from a heap h: what was popped is
\* best first, at least as good as what is left, and has the Index of a
\* popped element.
Popped(h, k, s) ==
    /\ s \in [heap : Heaps, top : Seq(Datastores)]
    /\ Distinct(s.heap) /\ Ordered(s.heap, 1, Size(s.heap))
    /\ s.heap.missed = h.missed /\ s.heap.status = h.status
    /\ Len(s.top) + Size(s.heap) = Size(h)
    /\ Len(s.top) <= k /\ (Len(s.top) = k \/ Size(s.heap) = 0)
    /\ Elems(s.heap) \cup {s.top[i] : i \in 1 .. Len(s.top)} = Elems(h)
    /\ \A i \in 1 .. Len(s.top) :
          /\ s.top[i] \notin Elems(s.heap) /\ s.heap.index[s.top[i]] = 0
          /\ \A e \in Elems(s.heap) : Score(h, s.top[i]) >= Score(h, e)
    /\ \A i, j \in 1 .. Len(s.top) : s.top[i] = s.top[j] => i = j
    /\ \A i \in 2 .. Len(s.top) : Score(h, s.top[i - 1]) >= Score(h, s.top[i])
    /\ \A e \in Datastores \ Elems(h) : s.heap.index[e] = h.index[e]

\* A turn pops the next best.
LEMMA PopTurnPops ==
    ASSUME NEW h \in Heaps, NEW k \in Nat, NEW s, Popped(h, k, s)
    PROVE  Popped(h, k + 1, PopTurn(s))
<1> DEFINE g == s.heap
           n == Size(g)
           d == g.internalData[1]
           m == Len(s.top)
           r == Pop(Down(Swap(g, 1, n), 1, n - 1).heap)
           top == Append(s.top, d)
           t == PopTurn(s)
<1>1. /\ g \in Heaps /\ n \in Nat /\ s.top \in Seq(Datastores) /\ m \in Nat
      /\ s.top \in [1 .. m -> Datastores]
      /\ Distinct(g) /\ Ordered(g, 1, n) /\ Elems(g) \subseteq Datastores
      /\ Size(h) \in Nat /\ g.missed = h.missed /\ g.status = h.status
  BY HeapShape DEF Popped
<1>2. CASE n = 0
  <2>1. t = s
    BY <1>2 DEF PopTurn, Size
  <2> QED BY <1>1, <1>2, <2>1 DEF Popped
<1>3. CASE n # 0
  <2>1. t = [heap |-> r, top |-> top]
    BY <1>3 DEF PopTurn, Size
  <2>2. /\ r \in Heaps /\ Distinct(r) /\ Size(r) = n - 1 /\ Ordered(r, 1, n - 1)
        /\ d \in Elems(g) /\ Elems(r) = Elems(g) \ {d}
        /\ r.missed = g.missed /\ r.status = g.status
        /\ r.index[d] = 0
        /\ \A e \in Datastores \ Elems(g) : r.index[e] = g.index[e]
        /\ \A e \in Elems(g) : Score(g, d) >= Score(g, e)
    BY <1>1, <1>3, PopRoot
  <2> HIDE DEF r, d
  <2>3. /\ top \in Seq(Datastores) /\ Len(top) = m + 1
        /\ top[m + 1] = d /\ \A i \in 1 .. m : top[i] = s.top[i]
        /\ \A i \in 1 .. m + 1 : i # m + 1 => i \in 1 .. m
    BY <1>1, <2>2
  <2>4. \A e : Score(g, e) = Score(h, e)
    BY <1>1 DEF Score
  <2> HIDE DEF top, t
  <2>5. /\ m + n = Size(h) /\ m <= k /\ m = k
        /\ Elems(g) \cup {s.top[i] : i \in 1 .. m} = Elems(h)
    BY <1>3 DEF Popped
  <2> HIDE DEF n, m
  <2>6. t \in [heap : Heaps, top : Seq(Datastores)] /\ t.heap = r /\ t.top = top
    BY <2>1, <2>2, <2>3
  <2>7. Len(top) + Size(r) = Size(h) /\ Len(top) <= k + 1 /\ Len(top) = k + 1
    BY <1>1, <2>2, <2>3, <2>5
  <2>8. Elems(r) \cup {top[i] : i \in 1 .. Len(top)} = Elems(h)
    <3>1. \A i \in 1 .. m : i \in 1 .. m + 1
      BY <1>1
    <3>2. m + 1 \in 1 .. m + 1
      BY <1>1
    <3>3. \A e : e \in {top[i] : i \in 1 .. m + 1} => e = d \/ e \in {s.top[i] : i \in 1 .. m}
      BY <2>3
    <3>4. \A e : e = d \/ e \in {s.top[i] : i \in 1 .. m} => e \in {top[i] : i \in 1 .. m + 1}
      BY <2>3, <3>1, <3>2
    <3> QED BY <2>2, <2>3, <2>5, <3>3, <3>4
  <2>9. ASSUME NEW i \in 1 .. Len(top)
        PROVE  /\ top[i] \notin Elems(r) /\ r.index[top[i]] = 0
               /\ \A e \in Elems(r) : Score(h, top[i]) >= Score(h, e)
    <3>1. CASE i = m + 1
      BY <2>2, <2>3, <2>4, <3>1
    <3>2. CASE i # m + 1
      <4>1. i \in 1 .. m /\ top[i] = s.top[i] /\ s.top[i] \in Datastores
        BY <1>1, <2>3, <3>2
      <4>2. /\ s.top[i] \notin Elems(g) /\ g.index[s.top[i]] = 0
            /\ \A e \in Elems(g) : Score(h, s.top[i]) >= Score(h, e)
        BY <4>1 DEF Popped, m
      <4> QED BY <2>2, <4>1, <4>2
    <3> QED BY <3>1, <3>2
  <2>10. \A i, j \in 1 .. Len(top) : top[i] = top[j] => i = j
    <3>1. \A i \in 1 .. m : s.top[i] # d
      BY <2>2 DEF Popped, m
    <3>2. \A i, j \in 1 .. m : s.top[i] = s.top[j] => i = j
      BY DEF Popped, m
    <3> QED BY <2>3, <3>1, <3>2
  <2>11. ASSUME NEW i \in 2 .. Len(top) PROVE Score(h, top[i - 1]) >= Score(h, top[i])
    <3>1. i \in 1 .. m + 1 /\ i - 1 \in 1 .. m
      BY <1>1, <2>3
    <3>2. CASE i = m + 1
      <4>1. Score(h, s.top[i - 1]) >= Score(h, d)
        BY <2>2, <3>1 DEF Popped, m
      <4> QED BY <2>3, <3>1, <3>2, <4>1
    <3>3. CASE i # m + 1
      <4>1. i \in 1 .. m /\ i \in 2 .. m
        BY <1>1, <3>1, <3>3
      <4>2. Score(h, s.top[i - 1]) >= Score(h, s.top[i])
        BY <4>1 DEF Popped, m
      <4> QED BY <2>3, <3>1, <4>1, <4>2
    <3> QED BY <3>2, <3>3
  <2>12. \A e \in Datastores \ Elems(h) : r.index[e] = h.index[e]
    <3>1. \A e \in Datastores \ Elems(h) : e \notin Elems(g) /\ g.index[e] = h.index[e]
      BY <2>5 DEF Popped
    <3> QED BY <2>2, <3>1
  <2>13. Distinct(r) /\ Ordered(r, 1, Size(r)) /\ r.missed = h.missed /\ r.status = h.status
    BY <1>1, <2>2
  <2>14. Popped(h, k + 1, t)
    BY <2>6, <2>7, <2>8, <2>9, <2>10, <2>11, <2>12, <2>13 DEF Popped
  <2> QED BY <2>14 DEF t
<1> QED BY <1>2, <1>3

\* TopK pops the K best datastores, or all of them, and leaves the Index of
\* popped elements and of no others changed to 0 or to a position.
LEMMA TopKPops ==
    ASSUME NEW h \in Heaps, Distinct(h)
    PROVE  \E g \in Heaps :
              /\ Elems(g) = Elems(h) /\ Size(g) = Size(h)
              /\ g.missed = h.missed /\ g.status = h.status
              /\ \A e \in Datastores \ Elems(h) : g.index[e] = h.index[e]
              /\ Popped(g, K, TopK(h))
<1> DEFINE n == Size(h)
           f == [h EXCEPT !.internalMap = {}]
           g == Heapify(f)
           start == [heap |-> g, top |-> <<>>]
           I == [k \in Nat |-> {s \in [heap : Heaps, top : Seq(Datastores)] : Popped(g, k, s)}]
<1>1. /\ f \in Heaps /\ f.internalData = h.internalData /\ f.index = h.index
      /\ f.missed = h.missed /\ f.status = h.status
  BY DEF Heaps
<1> HIDE DEF f
<1>2. Size(f) = n /\ Elems(f) = Elems(h) /\ Distinct(f)
  BY <1>1 DEF Size, Elems, Distinct
<1>3. Shuffled(f, g, n) /\ Ordered(g, 1, n)
  BY <1>1, <1>2, HeapifyOrders
<1>4. /\ g \in Heaps /\ Size(g) = n /\ Distinct(g) /\ Elems(g) = Elems(h)
      /\ g.missed = h.missed /\ g.status = h.status
      /\ \A e \in Datastores \ Elems(h) : g.index[e] = h.index[e]
  BY <1>1, <1>2, <1>3 DEF Shuffled
<1>5. TopK(h) = PopK(g)
  BY DEF TopK, f
<1> HIDE DEF g, n
<1>6. start \in I[0]
  <2>1. start \in [heap : Heaps, top : Seq(Datastores)] /\ Len(start.top) = 0 /\ start.heap = g
        /\ n \in Nat
    BY <1>4, HeapShape
  <2>2. Popped(g, 0, start)
    <3> HIDE DEF start
    <3>1. \A i \in 1 .. Len(start.top) : FALSE
      BY <2>1
    <3>2. \A i \in 2 .. Len(start.top) : FALSE
      BY <2>1
    <3>3. Elems(g) \cup {start.top[i] : i \in 1 .. Len(start.top)} = Elems(g)
      BY <3>1
    <3>4. Len(start.top) + Size(g) = Size(g) /\ Len(start.top) <= 0
      BY <1>4, <2>1
    <3> QED BY <1>3, <1>4, <2>1, <3>1, <3>2, <3>3, <3>4 DEF Popped
  <2> QED BY <2>1, <2>2
<1>7. ASSUME NEW k \in Nat, NEW s \in I[k] PROVE PopTurn(s) \in I[k + 1]
  <2>1. Popped(g, k + 1, PopTurn(s))
    BY <1>4, <1>7, PopTurnPops
  <2> QED BY <2>1 DEF Popped
<1> HIDE DEF I
<1>8. PopK(g) \in I[K]
  BY <1>6, <1>7, PopLoop
<1>9. K \in Nat
  BY HeapAssumption
<1>10. Popped(g, K, PopK(g))
  BY <1>8, <1>9 DEF I
<1>11. Size(g) = Size(h) /\ Popped(g, K, TopK(h))
  BY <1>4, <1>5, <1>10 DEF n
<1> QED BY <1>4, <1>11

-----------------------------------------------------------------------------
(* The invariant: what the operations keep, seen from one heap.            *)

\* The heap between two operations.
GoodHeap(h) ==
    /\ h \in Heaps /\ Distinct(h) /\ h.internalMap = Elems(h)
    /\ \A e \in Datastores : h.missed[e] <= MaxMissed

\* This is what TypeOK and MapMatchesHeap say of it.
LEMMA GoodHeapIs ==
    ASSUME NEW h
    PROVE  GoodHeap(h) <=> /\ h \in [internalData : Seq(Datastores),
                                     internalMap  : SUBSET Datastores,
                                     index  : [Datastores -> 0 .. Cardinality(Datastores)],
                                     missed : [Datastores -> 0 .. MaxMissed],
                                     status : [Datastores -> Statuses]]
                           /\ h.internalMap = Elems(h)
                           /\ Cardinality(Elems(h)) = Len(h.internalData)
<1> DEFINE Typed == h \in [internalData : Seq(Datastores),
                           internalMap  : SUBSET Datastores,
                           index  : [Datastores -> 0 .. Cardinality(Datastores)],
                           missed : [Datastores -> 0 .. MaxMissed],
                           status : [Datastores -> Statuses]]
<1>1. Typed <=> h \in Heaps /\ \A e \in Datastores : h.missed[e] <= MaxMissed
  <2>1. \A m : m \in [Datastores -> 0 .. MaxMissed] <=>
            /\ m \in [Datastores -> 0 .. MaxMissed + 1]
            /\ \A e \in Datastores : m[e] <= MaxMissed
    BY HeapAssumption
  <2> QED BY <2>1 DEF Heaps
<1>2. h \in Heaps => (Distinct(h) <=> Cardinality(Elems(h)) = Len(h.internalData))
  BY SizeBound DEF Size
<1> QED BY <1>1, <1>2 DEF GoodHeap

\* An update of a status and heap.Fix at any position.
LEMMA UpdateIsGood ==
    ASSUME NEW h, GoodHeap(h), NEW d \in Datastores, NEW s \in Statuses,
           NEW i \in 0 .. Size(h)
    PROVE  LET r == Fix([h EXCEPT !.status[d] = s], i, Len(h.internalData))
           IN  GoodHeap(r) /\ Elems(r) = Elems(h) /\ (IndexFits(h) => IndexFits(r))
<1> DEFINE status == [h.status EXCEPT ![d] = s]
           g == [h EXCEPT !.status = status]
           n == Size(h)
           r == Fix(g, i, n)
<1>1. h \in Heaps /\ n \in Nat /\ n \in 0 .. n /\ status \in [Datastores -> Statuses]
  BY HeapShape DEF GoodHeap
<1> HIDE DEF status
<1>2. /\ g \in Heaps /\ g.internalData = h.internalData /\ g.internalMap = h.internalMap
      /\ g.index = h.index /\ g.missed = h.missed
  BY <1>1 DEF Heaps
<1> HIDE DEF g
<1>3. Size(g) = n /\ Elems(g) = Elems(h)
  BY <1>2 DEF Size, Elems
<1>4. Distinct(g) /\ (IndexFits(h) => IndexFits(g))
  BY <1>2, <1>3 DEF Distinct, IndexFits, GoodHeap
<1>5. Shuffled(g, r, n)
  BY <1>1, <1>2, <1>3, <1>4, ShuffledItself, FixShuffles
<1>6. Fix([h EXCEPT !.status[d] = s], i, Len(h.internalData)) = r
  BY DEF Size, g, status
<1> HIDE DEF r, n
<1>7. GoodHeap(r) /\ Elems(r) = Elems(h)
  BY <1>2, <1>3, <1>5 DEF GoodHeap, Shuffled
<1>8. IndexFits(h) => IndexFits(r)
  BY <1>4, <1>5, ShuffledFits
<1> QED BY <1>6, <1>7, <1>8

\* The first heartbeat of a datastore.
LEMMA AddIsGood ==
    ASSUME NEW h, GoodHeap(h), NEW d \in Datastores, NEW s \in Statuses,
           d \notin Elems(h)
    PROVE  LET r == Push([h EXCEPT !.status[d] = s], d)
           IN  GoodHeap(r) /\ Elems(r) = Elems(h) \cup {d} /\ (IndexFits(h) => IndexFits(r))
<1> DEFINE status == [h.status EXCEPT ![d] = s]
           g == [h EXCEPT !.status = status]
           r == Push(g, d)
<1>1. /\ h \in Heaps /\ status \in [Datastores -> Statuses]
      /\ h.missed \in [Datastores -> 0 .. MaxMissed + 1]
  BY HeapShape DEF GoodHeap
<1> HIDE DEF status
<1>2. /\ g \in Heaps /\ g.internalData = h.internalData /\ g.internalMap = h.internalMap
      /\ g.index = h.index /\ g.missed = h.missed
  BY <1>1 DEF Heaps
<1> HIDE DEF g
<1>3. Size(g) = Size(h) /\ Elems(g) = Elems(h)
  BY <1>2 DEF Size, Elems
<1>4. Distinct(g) /\ (IndexFits(h) => IndexFits(g)) /\ g.internalMap = Elems(g)
  BY <1>2, <1>3 DEF Distinct, IndexFits, GoodHeap
<1>5. /\ r \in Heaps /\ Distinct(r)
      /\ Elems(r) = Elems(g) \cup {d}
      /\ r.internalMap = Elems(r)
      /\ r.missed = [g.missed EXCEPT ![d] = 0]
      /\ (IndexFits(g) => IndexFits(r))
  BY <1>2, <1>3, <1>4, PushAdds
<1> HIDE DEF r
<1>6. \A e \in Datastores : r.missed[e] <= MaxMissed
  BY <1>1, <1>2, <1>5, HeapAssumption DEF GoodHeap
<1> QED BY <1>3, <1>4, <1>5, <1>6 DEF GoodHeap, r, g, status

\* A sweep, and the collection of what it removed.
LEMMA SweepIsGood ==
    ASSUME NEW h, GoodHeap(h), NEW late
    PROVE  LET r == Collected(Sweep(h, late).heap)
           IN  /\ GoodHeap(r) /\ (IndexFits(h) => IndexFits(r))
               /\ Elems(r) \subseteq Elems(h) /\ Elems(h) \ late \subseteq Elems(r)
               /\ CountedSoFar(h, late, r, Len(h.internalData))
<1> DEFINE g == Sweep(h, late).heap
           missed == [e \in Datastores |-> IF e \in Elems(g) THEN g.missed[e] ELSE 0]
           status == [e \in Datastores |-> IF e \in Elems(g) THEN g.status[e] ELSE NoStatus]
           r == Collected(g)
<1>1. Swept(h, late, h)
  BY HeapShape DEF Swept, GoodHeap
<1>2. Swept(h, late, g) /\ CountedSoFar(h, late, g, Len(h.internalData))
  BY <1>1, SweepKeeps DEF GoodHeap
<1> HIDE DEF g
<1>3. NoStatus \in Statuses
  BY HeapAssumption DEF NoStatus
<1>4. /\ g \in Heaps /\ g.missed \in [Datastores -> 0 .. MaxMissed + 1]
      /\ g.status \in [Datastores -> Statuses]
      /\ \A e \in Elems(g) : g.missed[e] <= MaxMissed
  BY <1>2, HeapShape DEF Swept
<1>5. /\ missed \in [Datastores -> 0 .. MaxMissed + 1]
      /\ \A e \in Datastores : missed[e] <= MaxMissed
      /\ status \in [Datastores -> Statuses]
  BY <1>3, <1>4, HeapAssumption
<1>6. r = [g EXCEPT !.missed = missed, !.status = status]
  BY DEF Collected, Elems
<1> HIDE DEF missed, status, r
<1>7. /\ r \in Heaps /\ r.internalData = g.internalData /\ r.internalMap = g.internalMap
      /\ r.index = g.index /\ r.missed = missed
  BY <1>4, <1>5, <1>6 DEF Heaps
<1>8. Size(r) = Size(g) /\ Elems(r) = Elems(g)
  BY <1>7 DEF Size, Elems
<1>9. (Distinct(g) => Distinct(r)) /\ (IndexFits(g) => IndexFits(r))
  BY <1>7, <1>8 DEF Distinct, IndexFits
<1>10. CountedSoFar(h, late, r, Len(h.internalData))
  <2>1. \A e \in Elems(h) : e \in Elems(r) => r.missed[e] = g.missed[e]
    <3>1. Elems(h) \subseteq Datastores
      BY HeapShape DEF GoodHeap
    <3> QED BY <3>1, <1>7, <1>8 DEF missed
  <2> QED BY <1>2, <1>8, <2>1 DEF CountedSoFar
<1> QED BY <1>2, <1>5, <1>7, <1>8, <1>9, <1>10 DEF GoodHeap, Swept, r, g

\* TopK writes Index values and nothing else; when it pops all datastores,
\* it writes that of a popped one into all of them.
LEMMA TopKIsGood ==
    ASSUME NEW h, GoodHeap(h)
    PROVE  LET r == [h EXCEPT !.index = TopK(h).heap.index]
           IN  /\ GoodHeap(r) /\ Elems(r) = Elems(h)
               /\ K >= Cardinality(Datastores) => IndexFits(r)
<1> DEFINE s == TopK(h)
           r == [h EXCEPT !.index = s.heap.index]
<1>1. h \in Heaps /\ Distinct(h)
  BY DEF GoodHeap
<1>2. PICK g \in Heaps : Elems(g) = Elems(h) /\ Size(g) = Size(h) /\ Popped(g, K, s)
  BY <1>1, TopKPops
<1> HIDE DEF s
<1>3. s.heap \in Heaps /\ s.heap.index \in [Datastores -> 0 .. Cardinality(Datastores)]
  BY <1>2, HeapShape DEF Popped
<1>4. /\ r \in Heaps /\ r.internalData = h.internalData /\ r.internalMap = h.internalMap
      /\ r.index = s.heap.index /\ r.missed = h.missed
  BY <1>1, <1>3 DEF Heaps
<1> HIDE DEF r
<1>5. Size(r) = Size(h) /\ Elems(r) = Elems(h)
  BY <1>4 DEF Size, Elems
<1>6. GoodHeap(r)
  BY <1>1, <1>4, <1>5 DEF GoodHeap, Distinct
<1>7. ASSUME K >= Cardinality(Datastores) PROVE IndexFits(r)
  <2>1. /\ Size(h) \in 0 .. Cardinality(Datastores) /\ Cardinality(Datastores) \in Nat
        /\ Size(s.heap) \in Nat /\ K \in Nat /\ Len(s.top) \in Nat
    BY <1>1, <1>2, <1>3, SizeBound, HeapShape, HeapAssumption, FS_CardinalityType DEF Popped
  <2>2. Size(s.heap) = 0
    BY <1>2, <1>7, <2>1 DEF Popped
  <2>3. Elems(s.heap) = {}
    BY <1>3, <2>2, HeapShape
  <2>4. \A e \in Elems(h) : s.heap.index[e] = 0
    BY <1>2, <2>3 DEF Popped
  <2>5. \A p \in 1 .. Size(h) : h.internalData[p] \in Elems(h)
    BY <1>1, HeapShape
  <2> QED BY <1>4, <1>5, <2>4, <2>5 DEF IndexFits
<1> QED BY <1>5, <1>6, <1>7 DEF r, s

-----------------------------------------------------------------------------
(* The bounds on the turns.                                                *)

\* The loops of DatastoreHeap.tla are given as many turns as they need: one
\* more would change nothing.  So heap.down, heap.up and RemoveDead, which go
\* on until they are through, compute what the model says, for heaps of any
\* size.
THEOREM LoopsEnd ==
    /\ \A h \in Heaps : Distinct(h) =>
          /\ \A i \in Nat, n \in 0 .. Size(h) : DownTurn(Down(h, i, n), n) = Down(h, i, n)
          /\ \A j \in 0 .. Size(h) : UpTurn(Up(h, j)) = Up(h, j)
    /\ \A h \in Heaps, late \in SUBSET Datastores : GoodHeap(h) =>
          Sweep(h, late).at > Size(Sweep(h, late).heap)
<1>1. ASSUME NEW h \in Heaps, Distinct(h)
      PROVE  /\ \A i \in Nat, n \in 0 .. Size(h) : DownTurn(Down(h, i, n), n) = Down(h, i, n)
             /\ \A j \in 0 .. Size(h) : UpTurn(Up(h, j)) = Up(h, j)
  <2> DEFINE m == Size(h)
  <2>1. m \in 0 .. Size(h) /\ Shuffled(h, h, m)
    BY <1>1, HeapShape, ShuffledItself
  <2> HIDE DEF m
  <2>2. ASSUME NEW i \in Nat, NEW n \in 0 .. m PROVE DownTurn(Down(h, i, n), n) = Down(h, i, n)
    BY <2>1, DownShuffles
  <2>3. ASSUME NEW j \in 0 .. m PROVE UpTurn(Up(h, j)) = Up(h, j)
    BY <2>1, UpShuffles
  <2> QED BY <2>2, <2>3 DEF m
<1>2. ASSUME NEW h \in Heaps, NEW late \in SUBSET Datastores, GoodHeap(h)
      PROVE  Sweep(h, late).at > Size(Sweep(h, late).heap)
  <2>1. Swept(h, late, h)
    BY <1>2, HeapShape DEF Swept, GoodHeap
  <2> QED BY <2>1, SweepKeeps
<1> QED BY <1>1, <1>2

-----------------------------------------------------------------------------
(* The theorems.                                                           *)

\* TypeOK and MapMatchesHeap are inductive together.
HeapInv == TypeOK /\ MapMatchesHeap

\* In terms of the heap alone.
LEMMA HeapInvIs ==
    /\ HeapInv <=> /\ GoodHeap(heap) /\ silent \in [Datastores -> 0 .. MaxSilent]
                   /\ crashed \in BOOLEAN
    /\ HeapInv' <=> /\ GoodHeap(heap') /\ silent' \in [Datastores -> 0 .. MaxSilent]
                    /\ crashed' \in BOOLEAN
    /\ Registered = Elems(heap) /\ Registered' = Elems(heap')
<1>1. Registered = Elems(heap) /\ Registered' = Elems(heap')
  BY DEF Registered, Elems
<1>2. HeapInv <=> /\ GoodHeap(heap) /\ silent \in [Datastores -> 0 .. MaxSilent]
                  /\ crashed \in BOOLEAN
  BY <1>1, GoodHeapIs DEF HeapInv, TypeOK, MapMatchesHeap
<1>3. HeapInv' <=> /\ GoodHeap(heap') /\ silent' \in [Datastores -> 0 .. MaxSilent]
                   /\ crashed' \in BOOLEAN
  BY <1>1, GoodHeapIs DEF HeapInv, TypeOK, MapMatchesHeap
<1> QED BY <1>1, <1>2, <1>3

\* An empty heap is in order.
LEMMA NewHeapIsGood ==
    GoodHeap(NewDatastoreHeap) /\ Elems(NewDatastoreHeap) = {} /\ IndexFits(NewDatastoreHeap)
<1> DEFINE h == NewDatastoreHeap
<1>1. NoStatus \in Statuses
  BY HeapAssumption DEF NoStatus
<1>2. h \in Heaps /\ h.internalMap = {} /\ \A e \in Datastores : h.missed[e] <= MaxMissed
  BY <1>1, HeapAssumption, FS_CardinalityType DEF NewDatastoreHeap, Heaps
<1>3. Size(h) = 0
  BY DEF NewDatastoreHeap, Size
<1> HIDE DEF h
<1>4. Elems(h) = {} /\ Distinct(h) /\ IndexFits(h)
  BY <1>2, <1>3, HeapShape DEF Distinct, IndexFits
<1> QED BY <1>2, <1>4 DEF GoodHeap, h

\* The invariant holds at first.
LEMMA InitHeapInv == Init => HeapInv
<1>1. ASSUME Init
      PROVE  GoodHeap(heap) /\ silent \in [Datastores -> 0 .. MaxSilent] /\ crashed \in BOOLEAN
  <2>1. GoodHeap(heap)
    BY <1>1, NewHeapIsGood DEF Init
  <2>2. silent \in [Datastores -> 0 .. MaxSilent]
    BY <1>1, HeapAssumption DEF Init
  <2> QED BY <1>1, <2>1, <2>2 DEF Init
<1> QED BY <1>1, HeapInvIs

\* Every step keeps it.
LEMMA NextHeapInv ==
    ASSUME HeapInv, [Next]_vars
    PROVE  HeapInv'
<1>1. GoodHeap(heap) /\ silent \in [Datastores -> 0 .. MaxSilent] /\ crashed \in BOOLEAN
      /\ Registered = Elems(heap) /\ Size(heap) \in Nat
      /\ 0 \in 0 .. MaxSilent
  BY HeapInvIs, HeapShape, HeapAssumption DEF GoodHeap
<1>2. SUFFICES GoodHeap(heap') /\ silent' \in [Datastores -> 0 .. MaxSilent] /\ crashed' \in BOOLEAN
  BY HeapInvIs
<1>3. ASSUME NEW d \in Datastores, NEW s \in Statuses, UpdateDatastore(d, s)
      PROVE  GoodHeap(heap') /\ silent' \in [Datastores -> 0 .. MaxSilent] /\ crashed' \in BOOLEAN
  <2>1. CASE heap.index[d] > Len(heap.internalData)
    BY <1>1, <1>3, <2>1 DEF UpdateDatastore
  <2>2. CASE ~(heap.index[d] > Len(heap.internalData))
    <3>1. heap.index[d] \in 0 .. Size(heap)
      <4>1. heap.index[d] \in 0 .. Cardinality(Datastores)
        BY <1>1, HeapShape DEF GoodHeap
      <4> QED BY <4>1, <1>1, <2>2, HeapAssumption, FS_CardinalityType DEF Size
    <3>2. heap' = Fix([heap EXCEPT !.status[d] = s], heap.index[d], Len(heap.internalData))
      BY <1>3, <2>2 DEF UpdateDatastore
    <3>3. d \in heap.internalMap /\ heap.internalMap = Elems(heap)
      BY <1>1, <1>3 DEF UpdateDatastore, GoodHeap
    <3>4. GoodHeap(heap')
      BY <1>1, <3>1, <3>2, <3>3, UpdateIsGood
    <3> QED BY <1>1, <1>3, <2>2, <3>4 DEF UpdateDatastore
  <2> QED BY <2>1, <2>2
<1>4. ASSUME NEW d \in Datastores, NEW s \in Statuses, AddDatastore(d, s)
      PROVE  GoodHeap(heap') /\ silent' \in [Datastores -> 0 .. MaxSilent] /\ crashed' \in BOOLEAN
  <2>1. d \notin Elems(heap)
    BY <1>1, <1>4 DEF AddDatastore, GoodHeap
  <2>2. GoodHeap(heap')
    BY <1>1, <1>4, <2>1, AddIsGood DEF AddDatastore
  <2> QED BY <1>1, <1>4, <2>2 DEF AddDatastore
<1>5. ASSUME RemoveDead
      PROVE  GoodHeap(heap') /\ silent' \in [Datastores -> 0 .. MaxSilent] /\ crashed' \in BOOLEAN
  <2>1. GoodHeap(heap')
    BY <1>1, <1>5, SweepIsGood DEF RemoveDead
  <2>2. silent' \in [Datastores -> 0 .. MaxSilent]
    <3>1. \A e \in Datastores : silent[e] \in 0 .. MaxSilent
      BY <1>1
    <3> QED BY <1>1, <1>5, <3>1, HeapAssumption DEF RemoveDead
  <2> QED BY <1>1, <1>5, <2>1, <2>2 DEF RemoveDead
<1>6. ASSUME GetTopK
      PROVE  GoodHeap(heap') /\ silent' \in [Datastores -> 0 .. MaxSilent] /\ crashed' \in BOOLEAN
  BY <1>1, <1>6, TopKIsGood DEF GetTopK
<1>7. ASSUME Restart
      PROVE  GoodHeap(heap') /\ silent' \in [Datastores -> 0 .. MaxSilent] /\ crashed' \in BOOLEAN
  BY <1>1, <1>7, NewHeapIsGood DEF Restart
<1>8. ASSUME UNCHANGED vars
      PROVE  GoodHeap(heap') /\ silent' \in [Datastores -> 0 .. MaxSilent] /\ crashed' \in BOOLEAN
  BY <1>1, <1>8 DEF vars
<1> QED BY <1>3, <1>4, <1>5, <1>6, <1>7, <1>8 DEF Next

\* The inductive invariant.
LEMMA HeapInvHolds == Spec => []HeapInv
<1>1. HeapInv /\ [Next]_vars => HeapInv'
  BY NextHeapInv
<1> QED BY InitHeapInv, <1>1, PTL DEF Spec

\* The fields of the heap and the bookkeeping about it have their types: no
\* MissedCount above DEFAULT_MAX_MISSED outlives the sweep that counted it,
\* and no Index leaves the positions that the heap can have.
THEOREM HeapTypeOK == Spec => []TypeOK
<1>1. HeapInv => TypeOK
  BY DEF HeapInv
<1> QED BY HeapInvHolds, <1>1, PTL

\* The internalMap that heartbeats look datastores up in and the
\* internalData that sweeps and TopK read hold the same datastores, each
\* once, whatever heap.Fix, heap.Push and heap.Remove do inside.
THEOREM MapAlwaysMatches == Spec => []MapMatchesHeap
<1>1. HeapInv => MapMatchesHeap
  BY DEF HeapInv
<1> QED BY HeapInvHolds, <1>1, PTL

\* As long as TopK pops all datastores, every step leaves Index fitting, and
\* no heartbeat finds one that does not.
LEMMA StepsFit ==
    ASSUME HeapInv, K >= Cardinality(Datastores), IndexFits(heap) /\ ~crashed, [Next]_vars
    PROVE  IndexFits(heap') /\ ~crashed'
<1>1. GoodHeap(heap) /\ heap \in Heaps /\ heap.internalMap = Elems(heap)
      /\ Size(heap) \in Nat /\ Elems(heap) = {heap.internalData[p] : p \in 1 .. Size(heap)}
  BY HeapInvIs, HeapShape DEF GoodHeap
<1>2. ASSUME NEW d \in Datastores, NEW s \in Statuses, UpdateDatastore(d, s)
      PROVE  IndexFits(heap') /\ ~crashed'
  <2>1. d \in Elems(heap)
    BY <1>1, <1>2 DEF UpdateDatastore
  <2>2. heap.index[d] \in 0 .. Size(heap)
    BY <1>1, <2>1 DEF IndexFits
  <2>3. ~(heap.index[d] > Len(heap.internalData))
    BY <1>1, <2>2 DEF Size
  <2>4. /\ heap' = Fix([heap EXCEPT !.status[d] = s], heap.index[d], Len(heap.internalData))
        /\ crashed' = crashed
    BY <1>2, <2>3 DEF UpdateDatastore
  <2> QED BY <1>1, <2>2, <2>4, UpdateIsGood
<1>3. ASSUME NEW d \in Datastores, NEW s \in Statuses, AddDatastore(d, s)
      PROVE  IndexFits(heap') /\ ~crashed'
  BY <1>1, <1>3, AddIsGood DEF AddDatastore
<1>4. ASSUME RemoveDead PROVE IndexFits(heap') /\ ~crashed'
  BY <1>1, <1>4, SweepIsGood DEF RemoveDead
<1>5. ASSUME GetTopK PROVE IndexFits(heap') /\ ~crashed'
  BY <1>1, <1>5, TopKIsGood DEF GetTopK
<1>6. ASSUME Restart PROVE IndexFits(heap') /\ ~crashed'
  BY <1>6, NewHeapIsGood DEF Restart
<1>7. ASSUME UNCHANGED vars PROVE IndexFits(heap') /\ ~crashed'
  BY <1>7 DEF vars
<1> QED BY <1>2, <1>3, <1>4, <1>5, <1>6, <1>7 DEF Next

\* As long as GetTopKDatastores requests ask for at least as many datastores
\* as there are, which pops all of them from its copy of the heap, every
\* Index is a position of its own element or that of a popped one, and no
\* heartbeat makes heap.Fix panic.
THEOREM IndexAlwaysSafe ==
    ASSUME K >= Cardinality(Datastores)
    PROVE  Spec => []IndexIsSafe
<1> DEFINE Fits == IndexFits(heap) /\ ~crashed
<1>1. Init => Fits
  BY NewHeapIsGood DEF Init
<1>2. HeapInv /\ Fits /\ [Next]_vars => Fits'
  BY StepsFit
<1>3. HeapInv /\ Fits => IndexIsSafe
  <2>1. ASSUME HeapInv PROVE DOMAIN heap.internalData = 1 .. Size(heap)
    BY <2>1, HeapInvIs, HeapShape DEF GoodHeap
  <2> QED BY <2>1 DEF IndexFits, IndexIsSafe
<1> HIDE DEF Fits
<1>4. Spec => []Fits
  BY <1>1, <1>2, HeapInvHolds, PTL DEF Spec
<1> QED BY <1>3, <1>4, HeapInvHolds, PTL

\* GetTopKDatastores answers with the best datastores by score, best first,
\* each once, and with all of them when there are fewer than k: heap.Init
\* puts the copy of the heap in order, whatever order updates at a wrong
\* Index and sweeps have left it in, and every heap.Pop takes the best of
\* what is left.
THEOREM TopKAlwaysBest == Spec => []TopKIsBest
<1>1. ASSUME HeapInv PROVE TopKIsBest
  <2> DEFINE top == TopK(heap).top
             m == Len(top)
             chosen == {top[i] : i \in DOMAIN top}
  <2>1. GoodHeap(heap) /\ heap \in Heaps /\ Distinct(heap) /\ Registered = Elems(heap)
    BY <1>1, HeapInvIs DEF GoodHeap
  <2>2. PICK g \in Heaps : /\ Elems(g) = Elems(heap) /\ Size(g) = Size(heap)
                           /\ g.missed = heap.missed /\ g.status = heap.status
                           /\ Popped(g, K, TopK(heap))
    BY <2>1, TopKPops
  <2>3. \A e : Score(g, e) = Score(heap, e)
    BY <2>2 DEF Score
  <2> DEFINE rest == TopK(heap).heap
  <2>4. /\ top \in Seq(Datastores) /\ rest \in Heaps
        /\ m + Size(rest) = Size(heap) /\ m <= K /\ (m = K \/ Size(rest) = 0)
        /\ Elems(rest) \cup {top[i] : i \in 1 .. m} = Elems(heap)
        /\ \A i \in 1 .. m : \A e \in Elems(rest) : Score(heap, top[i]) >= Score(heap, e)
        /\ \A i, j \in 1 .. m : top[i] = top[j] => i = j
        /\ \A i \in 2 .. m : Score(heap, top[i - 1]) >= Score(heap, top[i])
    BY <2>2, <2>3 DEF Popped
  <2> HIDE DEF top, rest
  <2>5. m \in Nat /\ top \in [1 .. m -> Datastores] /\ DOMAIN top = 1 .. m
    BY <2>4
  <2>6. Cardinality(Registered) = Size(heap) /\ Size(heap) \in Nat /\ Size(rest) \in Nat
    BY <2>1, <2>4, SizeBound, HeapShape
  <2>7. m = IF K < Cardinality(Registered) THEN K ELSE Cardinality(Registered)
    <3>1. m \in Nat /\ m + Size(rest) = Size(heap) /\ m <= K /\ (m = K \/ Size(rest) = 0)
      BY <2>4, <2>5
    <3>2. K \in Nat
      BY HeapAssumption
    <3> HIDE DEF m
    <3> QED BY <2>6, <3>1, <3>2
  <2>8. Cardinality(chosen) = m
    <3>1. top \in Surjection(1 .. m, chosen) /\ top \in Injection(1 .. m, chosen)
      BY <2>4, <2>5 DEF Surjection, Injection, IsInjective
    <3>2. IsFiniteSet(1 .. m) /\ Cardinality(1 .. m) = m
      BY <2>5, FS_Interval
    <3> HIDE DEF chosen, m
    <3> QED BY <3>1, <3>2, FS_Surjection
  <2>9. chosen \subseteq Registered /\ Registered \ chosen \subseteq Elems(rest)
    BY <2>1, <2>4, <2>5
  <2>10. \A c \in chosen, d \in Registered \ chosen : Score(heap, c) >= Score(heap, d)
    BY <2>4, <2>5, <2>9
  <2> QED BY <2>4, <2>7, <2>8, <2>9, <2>10 DEF TopKIsBest, top
<1>2. HeapInv => TopKIsBest
  BY <1>1
<1> QED BY HeapInvHolds, <1>2, PTL

\* The heap implements the registry: every step is one of the registry's or
\* leaves what it shows unchanged.
LEMMA StepsImplement ==
    ASSUME HeapInv, [Next]_vars
    PROVE  [Registry!Next]_(Registry!registryVars)
<1> DEFINE recent == {d \in Registered : silent[d] = 0}
<1>1. /\ GoodHeap(heap) /\ Registered = Elems(heap) /\ Registered' = Elems(heap')
      /\ heap \in Heaps /\ heap.internalMap = Elems(heap)
      /\ silent \in [Datastores -> 0 .. MaxSilent] /\ Registered \subseteq Datastores
  BY HeapInvIs, HeapShape DEF GoodHeap
<1>2. ASSUME NEW d \in Datastores, Registered' = Registered \cup {d},
             silent' = [silent EXCEPT ![d] = 0]
      PROVE  Registry!Hear(d)
  BY <1>1, <1>2 DEF Registry!Hear
<1>3. ASSUME Registered' = Registered, silent' = silent
      PROVE  UNCHANGED Registry!registryVars
  BY <1>3 DEF Registry!registryVars
<1>4. ASSUME NEW d \in Datastores, NEW s \in Statuses, UpdateDatastore(d, s)
      PROVE  Registry!Hear(d) \/ UNCHANGED Registry!registryVars
  <2>1. CASE heap.index[d] > Len(heap.internalData)
    <3>1. heap' = heap /\ silent' = silent
      BY <1>4, <2>1 DEF UpdateDatastore
    <3> QED BY <1>1, <1>3, <3>1
  <2>2. CASE ~(heap.index[d] > Len(heap.internalData))
    <3>1. heap.index[d] \in 0 .. Size(heap)
      <4>1. heap.index[d] \in 0 .. Cardinality(Datastores) /\ Size(heap) \in Nat
        BY <1>1, HeapShape
      <4> QED BY <4>1, <2>2, HeapAssumption, FS_CardinalityType DEF Size
    <3>2. Elems(heap') = Elems(heap) /\ silent' = [silent EXCEPT ![d] = 0]
      <4>1. /\ heap' = Fix([heap EXCEPT !.status[d] = s], heap.index[d], Len(heap.internalData))
            /\ silent' = [silent EXCEPT ![d] = 0]
        BY <1>4, <2>2 DEF UpdateDatastore
      <4> QED BY <1>1, <3>1, <4>1, UpdateIsGood
    <3>3. d \in Registered
      BY <1>1, <1>4 DEF UpdateDatastore
    <3>4. Registered' = Registered \cup {d}
      BY <1>1, <3>2, <3>3
    <3> QED BY <1>2, <3>2, <3>4
  <2> QED BY <2>1, <2>2
<1>5. ASSUME NEW d \in Datastores, NEW s \in Statuses, AddDatastore(d, s)
      PROVE  Registry!Hear(d)
  <2>1. d \notin Elems(heap)
    BY <1>1, <1>5 DEF AddDatastore
  <2>2. Elems(heap') = Elems(heap) \cup {d} /\ silent' = [silent EXCEPT ![d] = 0]
    BY <1>1, <1>5, <2>1, AddIsGood DEF AddDatastore
  <2> QED BY <1>1, <1>2, <2>2
<1>6. ASSUME RemoveDead PROVE Registry!Sweep
  <2>1. PICK late \in SUBSET {d \in Registered : silent[d] >= 1} :
           heap' = Collected(Sweep(heap, late).heap)
    BY <1>6 DEF RemoveDead
  <2>2. Elems(heap') \subseteq Elems(heap) /\ Elems(heap) \ late \subseteq Elems(heap')
    BY <1>1, <2>1, SweepIsGood
  <2> DEFINE gone == Registered \ Registered'
  <2>3. Registered' = Registered \ gone
    BY <1>1, <2>2
  <2>4. \A d \in gone : d \in late /\ d \notin recent
    BY <1>1, <2>1, <2>2
  <2>5. gone \in SUBSET (Registered \ recent)
    BY <2>4
  <2>6. \A d \in Registered' : silent'[d] # 0
    <3>1. \A d \in Registered' : d \in Datastores /\ silent[d] \in 0 .. MaxSilent
      BY <1>1, <2>2
    <3> QED BY <1>6, <3>1, HeapAssumption DEF RemoveDead
  <2>7. recent' = {}
    BY <2>6
  <2> QED BY <2>3, <2>5, <2>7 DEF Registry!Sweep
<1>7. ASSUME GetTopK PROVE UNCHANGED Registry!registryVars
  <2>1. Elems(heap') = Elems(heap) /\ silent' = silent
    BY <1>1, <1>7, TopKIsGood DEF GetTopK
  <2> QED BY <1>1, <1>3, <2>1
<1>8. ASSUME Restart PROVE Registry!Forget
  <2>1. Registered' = {}
    BY <1>1, <1>8, NewHeapIsGood DEF Restart
  <2> QED BY <2>1 DEF Registry!Forget
<1>9. ASSUME UNCHANGED vars PROVE UNCHANGED Registry!registryVars
  <2>1. heap' = heap /\ silent' = silent
    BY <1>9 DEF vars
  <2> QED BY <1>1, <1>3, <2>1
<1> QED BY <1>4, <1>5, <1>6, <1>7, <1>8, <1>9 DEF Next, Registry!Next

\* A sweep drops no datastore that was heard from since the sweep before,
\* and no heartbeat and no GetTopKDatastores adds or loses another one.
THEOREM HeapImplementsRegistry == Spec => ImplementsRegistry
<1>1. Init => Registry!Init
  <2>1. ASSUME Init PROVE Registered = {}
    <3>1. Registered = Elems(heap)
      BY DEF Registered, Elems
    <3> QED BY <2>1, <3>1, NewHeapIsGood DEF Init
  <2> QED BY <2>1 DEF Registry!Init
<1>2. HeapInv /\ [Next]_vars => [Registry!Next]_(Registry!registryVars)
  BY StepsImplement
<1> QED BY HeapInvHolds, <1>1, <1>2, PTL DEF Spec, ImplementsRegistry, Registry!Spec

\* What a sweep adds to the misses of a datastore is what its checks count.
LEMMA StepsCount ==
    ASSUME HeapInv, RemoveDead, NEW d \in Registered
    PROVE  \E checks \in 0 .. Len(heap.internalData), isLate \in BOOLEAN :
              LET count == Counted(heap.missed[d], checks, isLate)
              IN  /\ silent[d] = 0 => ~isLate
                  /\ silent[d] >= 2 => isLate
                  /\ d \in Registered' => heap'.missed[d] = count
                  /\ d \notin Registered' => count > MaxMissed
<1>1. /\ GoodHeap(heap) /\ Registered = Elems(heap) /\ Registered' = Elems(heap')
      /\ silent \in [Datastores -> 0 .. MaxSilent] /\ d \in Datastores
  BY HeapInvIs, HeapShape DEF GoodHeap
<1>2. PICK late \in SUBSET {e \in Registered : silent[e] >= 1} :
         /\ {e \in Registered : silent[e] >= 2} \subseteq late
         /\ heap' = Collected(Sweep(heap, late).heap)
  BY DEF RemoveDead
<1>3. CountedSoFar(heap, late, heap', Len(heap.internalData))
  BY <1>1, <1>2, SweepIsGood
<1>4. PICK checks \in 0 .. Len(heap.internalData) :
         LET count == Counted(heap.missed[d], checks, d \in late)
         IN  /\ d \in Registered' => heap'.missed[d] = count
             /\ d \notin Registered' => count > MaxMissed
  BY <1>1, <1>3 DEF CountedSoFar
<1>5. (silent[d] = 0 => d \notin late) /\ (silent[d] >= 2 => d \in late)
  BY <1>1, <1>2
<1>6. (d \in late) \in BOOLEAN
  OBVIOUS
<1> QED BY <1>4, <1>5, <1>6

\* A sweep finds a datastore in time or late at every check of it, of which
\* there are no more than elements in the heap; it resets its misses or adds
\* one for each, and drops it only when they are more than forgiven.
THEOREM SweepAlwaysCounts == Spec => SweepCounts
<1>1. HeapInv /\ [Next]_vars =>
        [RemoveDead =>
           \A d \in Registered :
              \E checks \in 0 .. Len(heap.internalData), isLate \in BOOLEAN :
                 LET count == Counted(heap.missed[d], checks, isLate)
                 IN  /\ silent[d] = 0 => ~isLate
                     /\ silent[d] >= 2 => isLate
                     /\ d \in Registered' => heap'.missed[d] = count
                     /\ d \notin Registered' => count > MaxMissed]_vars
  BY StepsCount
<1> QED BY HeapInvHolds, <1>1, PTL DEF Spec, SweepCounts
==============================================================================
