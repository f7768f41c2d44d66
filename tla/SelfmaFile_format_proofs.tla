---------------------- MODULE SelfmaFile_format_proofs ----------------------
(***************************************************************************)
(* What the format of the file gives back: offsets that the reader         *)
(* computes one after the other, in cells that the writer put one behind   *)
(* the other, for books of any length and files cut anywhere.              *)
(***************************************************************************)
EXTENDS SelfmaFile, IDs_proofs, FiniteSetTheorems

-----------------------------------------------------------------------------
(* Ids in order *)

\* The ids of S below i.
Below(S, i) == {j \in S : j < i}

\* An id of S has more ids below it than a smaller one.
LEMMA BelowGrows ==
    ASSUME NEW S \in SUBSET Nat, IsFiniteSet(S), NEW i \in S, NEW j \in Nat
    PROVE  /\ Cardinality(Below(S, i)) \in Nat /\ Cardinality(Below(S, j)) \in Nat
           /\ Cardinality(Below(S, i)) < Cardinality(S)
           /\ i < j => Cardinality(Below(S, i)) < Cardinality(Below(S, j))
<1>1. Below(S, i) \in SUBSET S /\ Below(S, j) \in SUBSET S /\ i \notin Below(S, i)
  BY DEF Below
<1>2. \A U \in SUBSET S : IsFiniteSet(U) /\ Cardinality(U) \in Nat
  BY FS_Subset, FS_CardinalityType
<1>3. \A U \in SUBSET S : \A V \in SUBSET U :
         i \in U /\ i \notin V => Cardinality(V) < Cardinality(U)
  <2> SUFFICES ASSUME NEW U \in SUBSET S, NEW V \in SUBSET U, i \in U, i \notin V
               PROVE  Cardinality(V) < Cardinality(U)
    OBVIOUS
  <2>1. /\ Cardinality(V) <= Cardinality(U)
        /\ Cardinality(V) # Cardinality(U)
    BY <1>2, FS_Subset
  <2> QED
    BY <1>2, <2>1
<1>4. ASSUME i < j PROVE Below(S, i) \in SUBSET Below(S, j) /\ i \in Below(S, j)
  <2>1. \A k \in S : k < i => k < j
    BY <1>4
  <2> QED
    BY <1>4, <2>1 DEF Below
<1> QED
  BY <1>1, <1>2, <1>3, <1>4

\* The scan meets every id of a set, each at a place of its own: the number of
\* ids below tells them apart.
LEMMA AscendingPlaces ==
    ASSUME NEW S \in SUBSET Nat, IsFiniteSet(S), NEW n, n = Cardinality(S)
    PROVE  /\ n \in Nat
           /\ Ascending(S) \in [1..n -> S]
           /\ \A k \in 1..n : Cardinality(Below(S, Ascending(S)[k])) = k - 1
<1> DEFINE rank == [i \in S |-> Cardinality(Below(S, i)) + 1]
<1>1. n \in Nat
  BY FS_CardinalityType
<1>2. \A i \in S : /\ Cardinality(Below(S, i)) \in Nat
                   /\ Cardinality(Below(S, i)) < n
  BY BelowGrows
<1>3. rank \in [S -> 1..n]
  BY <1>1, <1>2
<1>4. ASSUME NEW i \in S, NEW j \in S, i < j PROVE rank[i] < rank[j]
  BY <1>2, <1>4, BelowGrows
<1>5. rank \in Injection(S, 1..n)
  <2>1. \A i, j \in S : i < j => rank[i] < rank[j]
    BY <1>4
  <2>2. \A i \in S : rank[i] \in Int
    BY <1>1, <1>3
  <2> HIDE DEF rank
  <2>3. \A i, j \in S : rank[i] = rank[j] => i = j
    BY <2>1, <2>2
  <2> QED
    BY <1>3, <2>3 DEF Injection, IsInjective
<1>6. rank \in Surjection(S, 1..n)
  <2>1. IsFiniteSet(1..n) /\ Cardinality(1..n) = n
    BY <1>1, FS_Interval
  <2> HIDE DEF rank
  <2> QED
    BY <1>5, <2>1, FS_Injection
<1>7. ASSUME NEW k \in 1..n
      PROVE  \E i \in S : Cardinality(Below(S, i)) = k - 1
  <2>1. PICK i \in S : rank[i] = k
    BY <1>6 DEF Surjection
  <2>2. Cardinality(Below(S, i)) + 1 = k
    BY <2>1
  <2> QED
    BY <1>1, <1>2, <2>2
<1> DEFINE met(k) == CHOOSE i \in S : Cardinality(Below(S, i)) = k - 1
<1>8. \A k \in 1..n : met(k) \in S /\ Cardinality(Below(S, met(k))) = k - 1
  BY <1>7
<1>9. Ascending(S) = [k \in 1..n |-> met(k)]
  BY DEF Ascending, Below
<1> HIDE DEF met
<1> QED
  BY <1>1, <1>8, <1>9

LEMMA AscendingType ==
    ASSUME NEW S \in SUBSET Nat, IsFiniteSet(S)
    PROVE  Ascending(S) \in [1..Cardinality(S) -> S]
BY AscendingPlaces

\* An id is met at the place that the number of ids below it gives.
LEMMA AscendingMeets ==
    ASSUME NEW S \in SUBSET Nat, IsFiniteSet(S), NEW n, n = Cardinality(S),
           NEW i \in S, NEW k \in Nat, Cardinality(Below(S, i)) = k - 1
    PROVE  k \in 1..n /\ Ascending(S)[k] = i
<1>1. /\ n \in Nat /\ Ascending(S) \in [1..n -> S]
      /\ \A l \in 1..n : Cardinality(Below(S, Ascending(S)[l])) = l - 1
  BY AscendingPlaces
<1>2. k - 1 \in Nat /\ k - 1 < n
  BY BelowGrows
<1>3. k \in 1..n
  BY <1>1, <1>2
<1>4. PICK j \in S : j = Ascending(S)[k]
  BY <1>1, <1>3
<1>5. Cardinality(Below(S, j)) = k - 1
  BY <1>1, <1>3, <1>4
<1>6. ~(i < j) /\ ~(j < i)
  <2>1. ~(k - 1 < k - 1)
    OBVIOUS
  <2> QED
    BY <1>5, <2>1, BelowGrows
<1>7. i = j
  BY <1>6
<1> QED
  BY <1>3, <1>4, <1>7

\* r is what s, which has n places, becomes when e is put at place k.
PutAt(r, s, n, k, e) ==
    /\ k \in 1..n + 1
    /\ DOMAIN r = 1..n + 1
    /\ r[k] = e
    /\ \A i \in 1..k - 1 : r[i] = s[i]
    /\ \A i \in k..n : r[i + 1] = s[i]

\* One id more is met between the others, which are met in the same order.
LEMMA AscendingPut ==
    ASSUME NEW S \in SUBSET Nat, IsFiniteSet(S), NEW n, n = Cardinality(S),
           NEW x \in Nat \ S
    PROVE  \E k \in 1..n + 1 : PutAt(Ascending(S \cup {x}), Ascending(S), n, k, x)
<1> DEFINE T == S \cup {x}
<1>1. /\ n \in Nat /\ Ascending(S) \in [1..n -> S]
      /\ \A l \in 1..n : Cardinality(Below(S, Ascending(S)[l])) = l - 1
  BY AscendingPlaces
<1>2. /\ T \in SUBSET Nat /\ IsFiniteSet(T) /\ Cardinality(T) = n + 1
  BY FS_AddElement
<1>3. DOMAIN Ascending(T) = 1..n + 1
  <2>1. Ascending(T) \in [1..n + 1 -> T]
    BY <1>2, AscendingPlaces
  <2> QED
    BY <2>1
<1>4. IsFiniteSet(Below(S, x)) /\ Cardinality(Below(S, x)) \in Nat
      /\ Cardinality(Below(S, x)) <= n
  <2>1. Below(S, x) \in SUBSET S
    BY DEF Below
  <2>2. IsFiniteSet(Below(S, x)) /\ Cardinality(Below(S, x)) <= n
    BY <2>1, FS_Subset
  <2> QED
    BY <2>2, FS_CardinalityType
<1>5. PICK k \in 1..n + 1 : Cardinality(Below(S, x)) = k - 1
  <2>1. Cardinality(Below(S, x)) + 1 \in 1..n + 1
    BY <1>1, <1>4
  <2>2. Cardinality(Below(S, x)) = (Cardinality(Below(S, x)) + 1) - 1
    BY <1>4
  <2> QED
    BY <2>1, <2>2
<1> HIDE DEF T
<1>6. Ascending(T)[k] = x
  <2>1. Below(T, x) = Below(S, x)
    BY DEF Below, T
  <2>2. x \in T /\ k \in Nat
    BY <1>1 DEF T
  <2> QED
    BY <1>2, <1>5, <2>1, <2>2, AscendingMeets
<1>7. ASSUME NEW i \in 1..k - 1 PROVE Ascending(T)[i] = Ascending(S)[i]
  <2>1. i \in 1..n /\ i \in Nat
    BY <1>1
  <2>2. PICK y \in S : y = Ascending(S)[i] /\ Cardinality(Below(S, y)) = i - 1
    BY <1>1, <2>1
  <2>3. y < x
    <3>1. ~(x < y)
      <4> SUFFICES ASSUME x < y PROVE FALSE
        OBVIOUS
      <4>1. Below(S, x) \in SUBSET Below(S, y)
        <5>1. \A j \in S : j < x => j < y
          OBVIOUS
        <5> QED
          BY <5>1 DEF Below
      <4>2. IsFiniteSet(Below(S, y))
        <5>1. Below(S, y) \in SUBSET S
          BY DEF Below
        <5> QED
          BY <5>1, FS_Subset
      <4>3. Cardinality(Below(S, x)) <= Cardinality(Below(S, y))
        BY <4>1, <4>2, FS_Subset
      <4> QED
        BY <1>5, <2>2, <4>3
    <3> QED
      BY <3>1
  <2>4. Below(T, y) = Below(S, y)
    BY <2>3 DEF Below, T
  <2>5. y \in T
    BY DEF T
  <2>6. Ascending(T)[i] = y
    BY <1>2, <2>1, <2>2, <2>4, <2>5, AscendingMeets
  <2> QED
    BY <2>2, <2>6
<1>8. ASSUME NEW i \in k..n PROVE Ascending(T)[i + 1] = Ascending(S)[i]
  <2>1. i \in 1..n /\ i \in Nat
    BY <1>1
  <2>2. PICK y \in S : y = Ascending(S)[i] /\ Cardinality(Below(S, y)) = i - 1
    BY <1>1, <2>1
  <2>3. x < y
    <3>1. ~(y < x)
      <4> SUFFICES ASSUME y < x PROVE FALSE
        OBVIOUS
      <4>1. Cardinality(Below(S, y)) < Cardinality(Below(S, x))
        BY BelowGrows
      <4> QED
        BY <1>5, <2>2, <4>1
    <3> QED
      BY <3>1
  <2>4. Below(T, y) = Below(S, y) \cup {x} /\ x \notin Below(S, y)
    BY <2>3 DEF Below, T
  <2>5. IsFiniteSet(Below(S, y))
    <3>1. Below(S, y) \in SUBSET S
      BY DEF Below
    <3> QED
      BY <3>1, FS_Subset
  <2>6. Cardinality(Below(T, y)) = (i + 1) - 1
    <3>1. Cardinality(Below(T, y)) = Cardinality(Below(S, y)) + 1
      BY <2>4, <2>5, FS_AddElement
    <3> QED
      BY <2>1, <2>2, <3>1
  <2>7. y \in T /\ i + 1 \in Nat
    BY <2>1 DEF T
  <2>8. Ascending(T)[i + 1] = y
    BY <1>2, <2>6, <2>7, AscendingMeets
  <2> QED
    BY <2>2, <2>8
<1> QED
  BY <1>3, <1>5, <1>6, <1>7, <1>8 DEF PutAt, T

\* An id is met before the higher ones.
LEMMA AscendingRises ==
    ASSUME NEW S \in SUBSET Nat, IsFiniteSet(S), NEW n, n = Cardinality(S),
           NEW a \in [1..n -> S], a = Ascending(S)
    PROVE  \A i, j \in 1..n : i < j => a[i] < a[j]
<1> SUFFICES ASSUME NEW i \in 1..n, NEW j \in 1..n, i < j PROVE a[i] < a[j]
  OBVIOUS
<1>1. a[i] \in S /\ a[j] \in S /\ a[i] \in Nat /\ a[j] \in Nat
  OBVIOUS
<1>2. Cardinality(Below(S, a[i])) = i - 1 /\ Cardinality(Below(S, a[j])) = j - 1
  BY AscendingPlaces
<1>3. ~(j - 1 < i - 1) /\ i - 1 # j - 1
  OBVIOUS
<1>4. ~(a[j] < a[i]) /\ a[i] # a[j]
  BY <1>1, <1>2, <1>3, BelowGrows
<1> QED
  BY <1>1, <1>4

\* The m places of b are among the n of a, in the same order.
KeepsOrder(b, m, a, n) ==
    \E place \in [1..m -> 1..n] :
       /\ \A i, j \in 1..m : i < j => place[i] < place[j]
       /\ \A j \in 1..m : b[j] = a[place[j]]

\* Fewer ids are met in the same order as among the others.
LEMMA AscendingPart ==
    ASSUME NEW S \in SUBSET Nat, IsFiniteSet(S), NEW n, n = Cardinality(S),
           NEW U \in SUBSET S, NEW m, m = Cardinality(U)
    PROVE  KeepsOrder(Ascending(U), m, Ascending(S), n)
<1>1. U \in SUBSET Nat /\ IsFiniteSet(U)
  BY FS_Subset
<1>2. PICK a \in [1..m -> U] :
         a = Ascending(U) /\ \A i, j \in 1..m : i < j => a[i] < a[j]
  BY <1>1, AscendingPlaces, AscendingRises
<1> DEFINE place == [j \in 1..m |-> Cardinality(Below(S, a[j])) + 1]
<1>3. ASSUME NEW j \in 1..m
      PROVE  /\ Cardinality(Below(S, a[j])) \in Nat
             /\ Ascending(S)[place[j]] = a[j] /\ place[j] \in 1..n
  <2>1. a[j] \in S
    OBVIOUS
  <2>2. Cardinality(Below(S, a[j])) \in Nat
    BY <2>1, BelowGrows
  <2>3. PICK k \in Nat : k = Cardinality(Below(S, a[j])) + 1
    BY <2>2
  <2>4. Cardinality(Below(S, a[j])) = k - 1
    BY <2>2, <2>3
  <2>5. k \in 1..n /\ Ascending(S)[k] = a[j]
    BY <2>1, <2>4, AscendingMeets
  <2> QED
    BY <2>2, <2>3, <2>5
<1>4. ASSUME NEW i \in 1..m, NEW j \in 1..m, i < j PROVE place[i] < place[j]
  <2>1. a[i] \in S /\ a[j] \in S /\ a[i] < a[j]
    BY <1>2, <1>4
  <2>2. Cardinality(Below(S, a[i])) < Cardinality(Below(S, a[j]))
    BY <2>1, BelowGrows
  <2> QED
    BY <1>3, <2>2
<1>5. place \in [1..m -> 1..n]
  BY <1>3
<1> HIDE DEF place
<1> QED
  BY <1>2, <1>3, <1>4, <1>5 DEF KeepsOrder

\* Ids from 0 without a hole are met in their own order.
LEMMA AscendingInterval ==
    ASSUME NEW n \in Nat
    PROVE  Ascending(0..n - 1) = [k \in 1..n |-> k - 1]
<1> DEFINE S == 0..n - 1
<1>1. Cardinality(S) = n
  BY FS_Interval
<1>2. ASSUME NEW i \in S PROVE Cardinality({j \in S : j < i}) = i
  <2>1. {j \in S : j < i} = 0..i - 1 /\ i \in Nat
    OBVIOUS
  <2>2. Cardinality(0..i - 1) = i
    BY <2>1, FS_Interval
  <2> QED
    BY <2>1, <2>2
<1>3. ASSUME NEW k \in 1..n
      PROVE  (CHOOSE i \in S : Cardinality({j \in S : j < i}) = k - 1) = k - 1
  <2>1. k - 1 \in S /\ \A i \in S : Cardinality({j \in S : j < i}) = i
    BY <1>2
  <2> QED
    BY <2>1
<1> QED
  BY <1>1, <1>3 DEF Ascending

-----------------------------------------------------------------------------
(* Recursion over a sequence *)

\* A function on 1..n is a sequence.
LEMMA SeqOfFunction ==
    ASSUME NEW n \in Nat, NEW T, NEW f \in [1..n -> T]
    PROVE  f \in Seq(T) /\ Len(f) = n
OBVIOUS

\* What a recursion over 1..n says of the function it defines: step[i] takes
\* the value before place i to the one at it.
Recurs(g, n, T, a, step) ==
    /\ g \in [1..n -> T]
    /\ \A i \in 1..n : g[i] = IF i = 1 THEN a ELSE step[i][g[i - 1]]

\* There is such a function.
LEMMA RecursionExists ==
    ASSUME NEW n \in Nat, NEW T, NEW a \in T, NEW step \in [1..n -> [T -> T]]
    PROVE  \E g : Recurs(g, n, T, a, step)
<1> DEFINE Follows(g, m) ==
              \A i \in 1..m : g[i] = IF i = 1 THEN a ELSE step[i][g[i - 1]]
           S == {m \in Nat : m <= n => \E g \in [1..m -> T] : Follows(g, m)}
<1>1. 0 \in S
  <2>1. [i \in 1..0 |-> a] \in [1..0 -> T] /\ 1..0 = {}
    OBVIOUS
  <2> QED
    BY <2>1
<1>2. ASSUME NEW m \in Nat, m \in S PROVE m + 1 \in S
  <2> SUFFICES ASSUME m + 1 <= n
               PROVE  \E g \in [1..m + 1 -> T] : Follows(g, m + 1)
    OBVIOUS
  <2>1. PICK g \in [1..m -> T] : Follows(g, m)
    BY <1>2
  <2>2. PICK e \in T : e = IF m = 0 THEN a ELSE step[m + 1][g[m]]
    OBVIOUS
  <2> DEFINE h == [i \in 1..m + 1 |-> IF i = m + 1 THEN e ELSE g[i]]
  <2>3. h \in [1..m + 1 -> T]
    OBVIOUS
  <2>4. ASSUME NEW i \in 1..m + 1
        PROVE  h[i] = IF i = 1 THEN a ELSE step[i][h[i - 1]]
    <3>1. CASE i = m + 1
      <4>1. h[i] = e /\ (i # 1 => h[i - 1] = g[m])
        BY <3>1
      <4> QED
        BY <2>2, <3>1, <4>1
    <3>2. CASE i # m + 1
      <4>1. i \in 1..m /\ h[i] = g[i] /\ (i # 1 => h[i - 1] = g[i - 1])
        BY <3>2
      <4> QED
        BY <2>1, <4>1
    <3> QED
      BY <3>1, <3>2
  <2> QED
    BY <2>3, <2>4
<1>3. n \in S
  <2> HIDE DEF S
  <2> QED
    BY <1>1, <1>2, SetInduction
<1>4. PICK g \in [1..n -> T] : Follows(g, n)
  BY <1>3
<1>5. Recurs(g, n, T, a, step)
  BY <1>4 DEF Recurs
<1> QED
  BY <1>5

\* f joins n sequences one after the other.
Joined(f, ss, n, T) == /\ f \in [1..n -> Seq(T)]
                       /\ f[1] = ss[1]
                       /\ \A i \in 2..n : f[i] = f[i - 1] \o ss[i]

\* That is what FlattenSeq does.
LEMMA FlattenDefined ==
    ASSUME NEW T, NEW n \in Nat, n # 0, NEW ss \in [1..n -> Seq(T)]
    PROVE  \E f : Joined(f, ss, n, T) /\ FlattenSeq(ss) = f[n]
<1> DEFINE Joins(f) == f = [i \in 1..n |-> IF i = 1 THEN ss[i]
                                           ELSE f[i - 1] \o ss[i]]
           f == CHOOSE g : Joins(g)
<1>1. n \in Nat /\ 1 \in 1..n /\ \A i \in 1..n : ss[i] \in Seq(T)
  OBVIOUS
<1>2. \E g : Joins(g)
  <2> DEFINE step == [i \in 1..n |-> [x \in Seq(T) |-> x \o ss[i]]]
  <2>1. step \in [1..n -> [Seq(T) -> Seq(T)]]
    BY <1>1
  <2>2. PICK g : Recurs(g, n, Seq(T), ss[1], step)
    <3> HIDE DEF step
    <3> QED
      BY <1>1, <2>1, RecursionExists
  <2> HIDE DEF step
  <2>3. /\ g \in [1..n -> Seq(T)]
        /\ \A i \in 1..n : g[i] = IF i = 1 THEN ss[1] ELSE step[i][g[i - 1]]
    BY <2>2 DEF Recurs
  <2>4. ASSUME NEW i \in 1..n, i # 1
        PROVE  step[i][g[i - 1]] = g[i - 1] \o ss[i]
    <3>1. i - 1 \in 1..n
      BY <1>1, <2>4
    <3>2. g[i - 1] \in Seq(T)
      BY <2>3, <3>1
    <3> QED
      BY <3>2, Zenon DEF step
  <2>5. \A i \in 1..n : g[i] = IF i = 1 THEN ss[i] ELSE g[i - 1] \o ss[i]
    BY <2>3, <2>4
  <2>6. Joins(g)
    BY <2>3, <2>5
  <2> QED
    BY <2>6
<1>3. Joins(f)
  <2> HIDE DEF Joins
  <2> QED
    BY <1>2
<1>4. FlattenSeq(ss) = f[n]
  <2>1. Len(ss) = n
    OBVIOUS
  <2> QED
    BY <2>1 DEF FlattenSeq
<1> HIDE DEF f
<1>5. \A i \in 1..n : f[i] = IF i = 1 THEN ss[i] ELSE f[i - 1] \o ss[i]
  BY <1>3
<1> DEFINE S == {i \in Nat : i \in 1..n => f[i] \in Seq(T)}
<1>6. \A m \in Nat : m \in S
  <2>1. 0 \in S
    OBVIOUS
  <2>2. ASSUME NEW m \in Nat, m \in S PROVE m + 1 \in S
    <3> SUFFICES ASSUME m + 1 \in 1..n PROVE f[m + 1] \in Seq(T)
      OBVIOUS
    <3>1. CASE m = 0
      BY <1>1, <1>5, <3>1
    <3>2. CASE m # 0
      <4>1. f[m] \in Seq(T) /\ ss[m + 1] \in Seq(T)
        BY <1>1, <2>2, <3>2
      <4>2. m + 1 # 1 /\ (m + 1) - 1 = m
        BY <3>2
      <4>3. f[m + 1] = f[m] \o ss[m + 1]
        BY <1>5, <4>2, Zenon
      <4> QED
        BY <4>1, <4>3
    <3> QED
      BY <3>1, <3>2
  <2> HIDE DEF S
  <2> QED
    BY <2>1, <2>2, SetInduction
<1>7. \A i \in 1..n : f[i] \in Seq(T)
  BY <1>1, <1>6
<1>8. f \in [1..n -> Seq(T)]
  BY <1>3, <1>7
<1>9. f[1] = ss[1] /\ \A i \in 2..n : f[i] = f[i - 1] \o ss[i]
  <2>1. \A i \in 2..n : i \in 1..n /\ i # 1
    BY <1>1
  <2> QED
    BY <1>1, <1>5, <2>1, Zenon
<1> QED
  BY <1>4, <1>8, <1>9 DEF Joined

\* A sequence has another one behind its first p elements.
HasBehind(s, p, part) == /\ p + Len(part) <= Len(s)
                         /\ \A j \in 1..Len(part) : s[p + j] = part[j]

\* It keeps what it has when it is extended, and has the extension, and all
\* that is in it, behind what it was.
LEMMA HasBehindConcat ==
    ASSUME NEW T, NEW s \in Seq(T), NEW t \in Seq(T)
    PROVE  /\ s \o t \in Seq(T)
           /\ Len(s \o t) = Len(s) + Len(t)
           /\ HasBehind(s \o t, Len(s), t)
           /\ \A p \in Nat : \A part \in Seq(T) :
                 /\ HasBehind(s, p, part) => HasBehind(s \o t, p, part)
                 /\ HasBehind(t, p, part) => HasBehind(s \o t, Len(s) + p, part)
<1>1. PICK u \in Seq(T), a \in Nat, b \in Nat :
         u = s \o t /\ a = Len(s) /\ b = Len(t)
  <2>1. s \o t \in Seq(T) /\ Len(s) \in Nat /\ Len(t) \in Nat
    OBVIOUS
  <2> QED
    BY <2>1
<1>2. /\ Len(u) = a + b
      /\ \A i \in 1..a + b : u[i] = IF i <= a THEN s[i] ELSE t[i - a]
  BY <1>1
<1>3. ASSUME NEW j \in 1..b PROVE u[a + j] = t[j]
  <2>1. a + j \in 1..a + b /\ ~(a + j <= a) /\ (a + j) - a = j
    OBVIOUS
  <2> QED
    BY <1>2, <2>1
<1>4. ASSUME NEW p \in Nat, NEW part \in Seq(T), HasBehind(s, p, part)
      PROVE  HasBehind(u, p, part)
  <2>1. PICK c \in Nat : c = Len(part)
    OBVIOUS
  <2>2. p + c <= a /\ \A j \in 1..c : s[p + j] = part[j]
    BY <1>1, <1>4, <2>1 DEF HasBehind
  <2>3. ASSUME NEW j \in 1..c PROVE u[p + j] = part[j]
    <3>1. p + j \in 1..a + b /\ p + j <= a
      BY <2>2
    <3> QED
      BY <1>2, <2>2, <3>1
  <2>4. p + c <= Len(u)
    BY <1>2, <2>2
  <2> QED
    BY <2>1, <2>3, <2>4 DEF HasBehind
<1>5. HasBehind(u, a, t)
  BY <1>1, <1>2, <1>3 DEF HasBehind
<1>6. ASSUME NEW p \in Nat, NEW part \in Seq(T), HasBehind(t, p, part)
      PROVE  HasBehind(u, a + p, part)
  <2>1. PICK c \in Nat : c = Len(part)
    OBVIOUS
  <2>2. p + c <= b /\ \A j \in 1..c : t[p + j] = part[j]
    BY <1>1, <1>6, <2>1 DEF HasBehind
  <2>3. ASSUME NEW j \in 1..c PROVE u[(a + p) + j] = part[j]
    <3>1. p + j \in 1..b /\ (a + p) + j = a + (p + j)
      BY <2>2
    <3> QED
      BY <1>3, <2>2, <3>1
  <2>4. (a + p) + c <= Len(u)
    BY <1>2, <2>2
  <2> QED
    BY <2>1, <2>3, <2>4 DEF HasBehind
<1> QED
  BY <1>1, <1>2, <1>4, <1>5, <1>6

\* So a sequence of sequences, joined, has every one of them behind those
\* before it.
LEMMA FlattenLayout ==
    ASSUME NEW T, NEW m \in Nat, m # 0,
           NEW ss \in [1..m -> Seq(T)], NEW place \in [1..m -> Nat], place[1] = 0,
           \A k \in 2..m : place[k] = place[k - 1] + Len(ss[k - 1])
    PROVE  /\ FlattenSeq(ss) \in Seq(T)
           /\ \A k \in 1..m : HasBehind(FlattenSeq(ss), place[k], ss[k])
<1>1. PICK f : Joined(f, ss, m, T) /\ FlattenSeq(ss) = f[m]
  BY FlattenDefined, Zenon
<1> USE <1>1 DEF Joined
<1>2. 1 \in 1..m /\ m \in 1..m
  OBVIOUS
<1> DEFINE P == {l \in Nat : l \in 1..m =>
                    /\ Len(f[l]) = place[l] + Len(ss[l])
                    /\ \A k \in 1..l : HasBehind(f[l], place[k], ss[k])}
<1>3. 0 \in P
  OBVIOUS
<1>4. ASSUME NEW l \in Nat, l \in P PROVE l + 1 \in P
  <2> SUFFICES ASSUME l + 1 \in 1..m
               PROVE  /\ Len(f[l + 1]) = place[l + 1] + Len(ss[l + 1])
                      /\ \A k \in 1..l + 1 : HasBehind(f[l + 1], place[k], ss[k])
    OBVIOUS
  <2>1. CASE l = 0
    <3>1. f[1] = ss[1] /\ ss[1] \in Seq(T) /\ place[1] = 0 /\ l + 1 = 1
      BY <1>1, <1>2, <2>1
    <3>2. PICK c \in Nat : c = Len(ss[1])
      BY <3>1
    <3>3. HasBehind(ss[1], 0, ss[1])
      <4>1. 0 + c <= c /\ \A j \in 1..c : 0 + j = j
        OBVIOUS
      <4> QED
        BY <3>2, <4>1 DEF HasBehind
    <3>4. \A k \in 1..1 : k = 1
      OBVIOUS
    <3>5. 0 + c = c
      OBVIOUS
    <3> QED
      BY <3>1, <3>2, <3>3, <3>4, <3>5, Zenon
  <2>2. CASE l # 0
    <3>1. l \in 1..m /\ l + 1 \in 2..m /\ (l + 1) - 1 = l
      BY <2>2
    <3>2. PICK s \in Seq(T), t \in Seq(T) :
             s = f[l] /\ t = ss[l + 1] /\ f[l + 1] = s \o t
      <4>1. PICK i \in 2..m : i = l + 1 /\ i - 1 = l /\ i \in 1..m
        BY <3>1
      <4>2. f[i] = f[l] \o ss[i]
        BY <4>1
      <4>3. f[l] \in Seq(T) /\ ss[i] \in Seq(T)
        BY <3>1, <4>1
      <4> QED
        BY <4>1, <4>2, <4>3, Zenon
    <3>3. /\ Len(s) = place[l] + Len(ss[l])
          /\ \A k \in 1..l : HasBehind(s, place[k], ss[k])
      BY <1>4, <3>1, <3>2
    <3>4. place[l + 1] = Len(s)
      BY <3>1, <3>3, Zenon
    <3>5. /\ Len(s \o t) = Len(s) + Len(t)
          /\ HasBehind(s \o t, Len(s), t)
          /\ \A p \in Nat : \A part \in Seq(T) :
                 HasBehind(s, p, part) => HasBehind(s \o t, p, part)
      BY HasBehindConcat, Zenon
    <3>6. ASSUME NEW k \in 1..l + 1 PROVE HasBehind(s \o t, place[k], ss[k])
      <4>1. CASE k = l + 1
        BY <3>2, <3>4, <3>5, <4>1, Zenon
      <4>2. CASE k # l + 1
        <5>1. k \in 1..l /\ place[k] \in Nat /\ ss[k] \in Seq(T)
          BY <3>1, <4>2
        <5> QED
          BY <3>3, <3>5, <5>1, Zenon
      <4> QED
        BY <4>1, <4>2
    <3> QED
      BY <3>2, <3>4, <3>5, <3>6, Zenon
  <2> QED
    BY <2>1, <2>2
<1>5. \A l \in Nat : l \in P
  <2> HIDE DEF P
  <2> QED
    BY <1>3, <1>4, SetInduction
<1> QED
  BY <1>1, <1>2, <1>5

-----------------------------------------------------------------------------
(* The format *)

TextCell == [text : AnyText]
Cell == [count : Nat] \cup [size : Nat] \cup TextCell

\* The places where the chunks begin, as the writer puts them.
StartsOf(w, S) ==
    /\ S \in [DOMAIN w -> Nat]
    /\ \A k \in DOMAIN w : S[k] = IF k = 1 THEN Len(w) + 2
                                  ELSE S[k - 1] + 1 + Len(w[k - 1].tasks)

\* The places where the reader looks for them.
ReadStarts(start, cells, m) ==
    /\ start \in [1..m -> Nat]
    /\ \A k \in 1..m : start[k] = IF k = 1 THEN m + 2
                                   ELSE start[k - 1] + 1 + SizeAt(cells, k - 1)

\* The recursion of the reader has the values it computes, all of them behind
\* the sizes.
LEMMA StartsDefined ==
    ASSUME NEW cells, NEW m \in Nat, cells[1].count = m,
           \A k \in 1..m : SizeAt(cells, k) \in Nat,
           NEW start, start = ChunkStarts(cells)
    PROVE  /\ ReadStarts(start, cells, m)
           /\ \A k \in 1..m : start[k] >= m + 2
<1> DEFINE Counts(f) == f = [k \in 1..m |-> IF k = 1 THEN m + 2
                                ELSE f[k - 1] + 1 + SizeAt(cells, k - 1)]
<1>1. \E g : Counts(g)
  <2> DEFINE step == [k \in 1..m |-> [x \in Nat |-> x + 1 + SizeAt(cells, k - 1)]]
  <2> PICK s : s = [k \in 1..m |-> IF k = 1 THEN [x \in Nat |-> x] ELSE step[k]]
    OBVIOUS
  <2>1. ASSUME NEW k \in 1..m
        PROVE  /\ s[k] \in [Nat -> Nat]
               /\ k # 1 => \A x \in Nat : s[k][x] = x + 1 + SizeAt(cells, k - 1)
    <3>1. k # 1 => SizeAt(cells, k - 1) \in Nat
      <4>1. k # 1 => k - 1 \in 1..m
        OBVIOUS
      <4> QED
        BY <4>1
    <3>2. CASE k = 1
      BY <3>2
    <3>3. CASE k # 1
      <4>1. s[k] = [x \in Nat |-> x + 1 + SizeAt(cells, k - 1)]
        BY <3>3
      <4> QED
        BY <3>1, <3>3, <4>1
    <3> QED
      BY <3>2, <3>3
  <2>2. s \in [1..m -> [Nat -> Nat]]
    BY <2>1
  <2>3. PICK g : Recurs(g, m, Nat, m + 2, s)
    <3>1. m + 2 \in Nat
      OBVIOUS
    <3> QED
      BY <2>2, <3>1, RecursionExists, Zenon
  <2>4. g \in [1..m -> Nat]
    BY <2>3 DEF Recurs
  <2>5. ASSUME NEW k \in 1..m
        PROVE  g[k] = IF k = 1 THEN m + 2
                      ELSE g[k - 1] + 1 + SizeAt(cells, k - 1)
    <3>1. k # 1 => g[k - 1] \in Nat
      <4>1. k # 1 => k - 1 \in 1..m
        OBVIOUS
      <4> QED
        BY <2>4, <4>1
    <3> QED
      BY <2>1, <2>3, <3>1 DEF Recurs
  <2>6. Counts(g)
    BY <2>4, <2>5
  <2> QED
    BY <2>6
<1>2. start = CHOOSE f : Counts(f)
  BY DEF ChunkStarts
<1>3. Counts(start)
  <2> HIDE DEF Counts
  <2> QED
    BY <1>1, <1>2
<1>4. \A k \in 1..m : start[k] = IF k = 1 THEN m + 2
                        ELSE start[k - 1] + 1 + SizeAt(cells, k - 1)
  BY <1>3
<1> DEFINE S == {k \in Nat : k \in 1..m => start[k] \in Nat /\ start[k] >= m + 2}
<1>5. \A k \in Nat : k \in S
  <2>1. 0 \in S
    OBVIOUS
  <2>2. ASSUME NEW k \in Nat, k \in S PROVE k + 1 \in S
    <3> SUFFICES ASSUME k + 1 \in 1..m
                 PROVE  start[k + 1] \in Nat /\ start[k + 1] >= m + 2
      OBVIOUS
    <3>1. CASE k = 0
      BY <1>4, <3>1
    <3>2. CASE k # 0
      <4>1. /\ start[k] \in Nat /\ start[k] >= m + 2
            /\ SizeAt(cells, k) \in Nat
        BY <2>2, <3>2
      <4>2. k + 1 # 1 /\ (k + 1) - 1 = k
        BY <3>2
      <4>3. start[k + 1] = start[k] + 1 + SizeAt(cells, k)
        BY <1>4, <4>2, Zenon
      <4> QED
        BY <4>1, <4>3
    <3> QED
      BY <3>1, <3>2
  <2> HIDE DEF S
  <2> QED
    BY <2>1, <2>2, SetInduction
<1>6. \A k \in 1..m : start[k] \in Nat /\ start[k] >= m + 2
  BY <1>5
<1>7. start \in [1..m -> Nat]
  BY <1>3, <1>6
<1> QED
  BY <1>4, <1>6, <1>7 DEF ReadStarts

\* A chunk is written as its title and its tasks.
LEMMA DataLayout ==
    ASSUME NEW c \in Chunk
    PROVE  /\ DataOf(c) \in Seq(TextCell)
           /\ Len(c.tasks) \in Nat
           /\ Len(DataOf(c)) = Len(c.tasks) + 1
           /\ DataOf(c)[1] = [text |-> c.title]
           /\ \A j \in 1..Len(c.tasks) : DataOf(c)[j + 1] = [text |-> c.tasks[j]]
<1>1. c.title \in AnyText /\ c.tasks \in Seq(AnyText)
  BY DEF Chunk
<1> DEFINE rest == [j \in DOMAIN c.tasks |-> [text |-> c.tasks[j]]]
           n == Len(c.tasks)
<1>2. n \in Nat /\ DOMAIN c.tasks = 1..n /\ \A j \in 1..n : c.tasks[j] \in AnyText
  BY <1>1
<1>3. /\ rest \in Seq(TextCell) /\ Len(rest) = n
      /\ \A j \in 1..n : rest[j] = [text |-> c.tasks[j]]
  BY <1>2 DEF TextCell
<1>4. /\ <<[text |-> c.title]>> \in Seq(TextCell)
      /\ Len(<<[text |-> c.title]>>) = 1
      /\ <<[text |-> c.title]>>[1] = [text |-> c.title]
  BY <1>1 DEF TextCell
<1>5. DataOf(c) = <<[text |-> c.title]>> \o rest
  BY DEF DataOf
<1> HIDE DEF rest
<1>6. /\ DataOf(c) \in Seq(TextCell) /\ Len(DataOf(c)) = 1 + n
      /\ \A i \in 1..1 + n : DataOf(c)[i] = IF i <= 1 THEN <<[text |-> c.title]>>[i]
                                            ELSE rest[i - 1]
  BY <1>3, <1>4, <1>5, ConcatProperties
<1>7. DataOf(c)[1] = [text |-> c.title]
  BY <1>2, <1>4, <1>6
<1>8. \A j \in 1..n : DataOf(c)[j + 1] = rest[j]
  BY <1>2, <1>6
<1> QED
  BY <1>2, <1>3, <1>6, <1>7, <1>8

\* The starts of the writer are behind the sizes too.
LEMMA StartsBehind ==
    ASSUME NEW w \in Seq(Chunk), NEW S, StartsOf(w, S), NEW m, m = Len(w)
    PROVE  /\ S \in [1..m -> Nat]
           /\ \A k \in 1..m : S[k] >= m + 2
           /\ m # 0 => S[1] = m + 2
<1>1. m \in Nat /\ DOMAIN w = 1..m
  OBVIOUS
<1>2. PICK size \in [1..m -> Nat] : \A k \in 1..m : size[k] = Len(w[k].tasks)
  <2>1. \A k \in 1..m : Len(w[k].tasks) \in Nat
    BY DEF Chunk
  <2>2. [k \in 1..m |-> Len(w[k].tasks)] \in [1..m -> Nat]
    BY <2>1
  <2> QED
    BY <2>2
<1>3. /\ S \in [1..m -> Nat]
      /\ \A k \in 1..m : S[k] = IF k = 1 THEN m + 2
                                ELSE S[k - 1] + 1 + Len(w[k - 1].tasks)
  BY <1>1 DEF StartsOf
<1>4. ASSUME NEW k \in 1..m, k # 1 PROVE S[k] = S[k - 1] + 1 + size[k - 1]
  <2>1. k - 1 \in 1..m
    BY <1>1, <1>4
  <2> QED
    BY <1>2, <1>3, <1>4, <2>1
<1> DEFINE P == {k \in Nat : k \in 1..m => S[k] >= m + 2}
<1>5. 0 \in P
  OBVIOUS
<1>6. ASSUME NEW k \in Nat, k \in P PROVE k + 1 \in P
  <2> SUFFICES ASSUME k + 1 \in 1..m PROVE S[k + 1] >= m + 2
    OBVIOUS
  <2>1. CASE k = 0
    BY <1>1, <1>3, <2>1
  <2>2. CASE k # 0
    <3>1. k \in 1..m /\ k + 1 # 1 /\ (k + 1) - 1 = k
      BY <1>1, <2>2
    <3>2. S[k + 1] = S[k] + 1 + size[k]
      BY <1>4, <3>1
    <3>3. S[k] \in Nat /\ size[k] \in Nat /\ S[k] >= m + 2
      BY <1>3, <1>6, <3>1
    <3> QED
      BY <1>1, <3>2, <3>3
  <2> QED
    BY <2>1, <2>2
<1>7. \A k \in Nat : k \in P
  <2> HIDE DEF P
  <2> QED
    BY <1>5, <1>6, SetInduction
<1>8. \A k \in 1..m : S[k] >= m + 2
  BY <1>7
<1> QED
  BY <1>1, <1>3, <1>8

\* The file of w: the header with the number of chunks as far as it fits, the
\* sizes, and from every start on a chunk, all of them texts.
LEMMA CellsLayout ==
    ASSUME NEW w \in Seq(Chunk), NEW m, m = Len(w), NEW C, C = CellsOf(w)
    PROVE  /\ C \in Seq(Cell)
           /\ Len(C) >= m + 1
           /\ C[1] = [count |-> m % ChunkLimit]
           /\ \A k \in 1..m : C[k + 1] = [size |-> Len(w[k].tasks)]
           /\ \A i \in m + 2..Len(C) : C[i] \in TextCell
           /\ \A S : StartsOf(w, S) =>
                 \A k \in 1..m : HasBehind(C, S[k] - 1, DataOf(w[k]))
<1> DEFINE header == [count |-> m % ChunkLimit]
           sizes == [k \in DOMAIN w |-> [size |-> Len(w[k].tasks)]]
           ss == [k \in DOMAIN w |-> DataOf(w[k])]
<1>1. m \in Nat /\ DOMAIN w = 1..m /\ \A k \in 1..m : w[k] \in Chunk
  OBVIOUS
<1>2. \A k \in 1..m : /\ DataOf(w[k]) \in Seq(TextCell)
                      /\ Len(DataOf(w[k])) = Len(w[k].tasks) + 1
                      /\ Len(w[k].tasks) \in Nat
  BY <1>1, DataLayout
<1>3. PICK front \in Seq(Cell) :
         /\ front = <<header>> \o sizes /\ Len(front) = m + 1
         /\ front[1] = header
         /\ \A k \in 1..m : front[k + 1] = [size |-> Len(w[k].tasks)]
  <2>1. <<header>> \in Seq(Cell) /\ Len(<<header>>) = 1 /\ <<header>>[1] = header
    <3>1. m % ChunkLimit \in Nat
      BY <1>1, ChunkLimitAssumption
    <3> QED
      BY <3>1 DEF Cell
  <2>2. /\ sizes \in Seq(Cell) /\ Len(sizes) = m
        /\ \A k \in 1..m : sizes[k] = [size |-> Len(w[k].tasks)]
    BY <1>1, <1>2 DEF Cell
  <2> HIDE DEF sizes, header
  <2>3. PICK h, s, f : /\ h \in Seq(Cell) /\ s \in Seq(Cell)
                       /\ h = <<header>> /\ s = sizes /\ f = h \o s
    BY <2>1, <2>2
  <2>4. /\ f \in Seq(Cell) /\ Len(f) = 1 + m
        /\ \A i \in 1..1 + m : f[i] = IF i <= 1 THEN h[i] ELSE s[i - 1]
    BY <2>1, <2>2, <2>3, ConcatProperties
  <2>5. f[1] = header /\ 1 + m = m + 1
    BY <1>1, <2>1, <2>3, <2>4
  <2>6. ASSUME NEW k \in 1..m PROVE f[k + 1] = [size |-> Len(w[k].tasks)]
    <3>1. k + 1 \in 1..1 + m /\ ~(k + 1 <= 1) /\ (k + 1) - 1 = k
      BY <1>1
    <3> QED
      BY <2>2, <2>3, <2>4, <3>1
  <2> QED
    BY <2>3, <2>4, <2>5, <2>6
<1>4. PICK flat \in Seq(TextCell) :
         /\ flat = FlattenSeq(ss)
         /\ \A S : StartsOf(w, S) =>
               \A k \in 1..m : HasBehind(flat, S[k] - (m + 2), DataOf(w[k]))
  <2>1. CASE m = 0
    <3>1. Len(ss) = 0 /\ ss = <<>>
      BY <1>1, <2>1
    <3>2. FlattenSeq(ss) = <<>> /\ 1..m = {}
      BY <2>1, <3>1 DEF FlattenSeq
    <3>3. \A S : \A k \in 1..m :
             HasBehind(FlattenSeq(ss), S[k] - (m + 2), DataOf(w[k]))
      BY <3>2
    <3>4. FlattenSeq(ss) \in Seq(TextCell)
      BY <3>2
    <3> QED
      BY <3>3, <3>4, Zenon
  <2>2. CASE m # 0
    <3>1. ss \in [1..m -> Seq(TextCell)] /\ \A k \in 1..m : ss[k] = DataOf(w[k])
      BY <1>1, <1>2
    <3> HIDE DEF ss
    <3>2. ASSUME NEW S, StartsOf(w, S)
          PROVE  \A k \in 1..m :
                    HasBehind(FlattenSeq(ss), S[k] - (m + 2), DataOf(w[k]))
      <4>1. PICK place : place = [k \in 1..m |-> S[k] - (m + 2)]
        OBVIOUS
      <4>2. place \in [1..m -> Nat] /\ place[1] = 0
        <5>1. /\ S \in [1..m -> Nat] /\ \A k \in 1..m : S[k] >= m + 2
              /\ S[1] = m + 2
          BY <2>2, <3>2, StartsBehind
        <5>2. \A k \in 1..m : S[k] - (m + 2) \in Nat
          BY <1>1, <5>1
        <5>3. 1 \in 1..m /\ (m + 2) - (m + 2) = 0
          BY <1>1, <2>2
        <5> QED
          BY <4>1, <5>1, <5>2, <5>3
      <4>3. ASSUME NEW k \in 2..m
            PROVE  place[k] = place[k - 1] + Len(ss[k - 1])
        <5>1. k \in 1..m /\ k - 1 \in 1..m /\ k # 1
          BY <1>1
        <5>2. PICK n \in Nat : n = Len(w[k - 1].tasks)
          BY <1>2, <5>1
        <5>3. S[k] = S[k - 1] + 1 + n /\ S[k - 1] \in Nat
          BY <1>1, <3>2, <5>1, <5>2 DEF StartsOf
        <5>4. place[k] = S[k] - (m + 2) /\ place[k - 1] = S[k - 1] - (m + 2)
          BY <4>1, <5>1
        <5>5. Len(ss[k - 1]) = n + 1
          BY <1>2, <3>1, <5>1, <5>2
        <5>6. PICK a \in Nat : a = S[k - 1]
          BY <5>3
        <5>7. (a + 1 + n) - (m + 2) = (a - (m + 2)) + (n + 1)
          BY <1>1
        <5> QED
          BY <5>3, <5>4, <5>5, <5>6, <5>7, Zenon
      <4>4. \A k \in 1..m : HasBehind(FlattenSeq(ss), place[k], ss[k])
        BY <1>1, <2>2, <3>1, <4>2, <4>3, FlattenLayout
      <4> QED
        BY <3>1, <4>1, <4>4
    <3>3. PICK f : Joined(f, ss, m, TextCell) /\ FlattenSeq(ss) = f[m]
      BY <1>1, <2>2, <3>1, FlattenDefined, Zenon
    <3>4. FlattenSeq(ss) \in Seq(TextCell)
      BY <1>1, <2>2, <3>3 DEF Joined
    <3> QED
      BY <3>2, <3>4
  <2> QED
    BY <2>1, <2>2
<1>5. flat \in Seq(Cell)
  BY SeqMonotonic DEF Cell
<1>6. C = front \o flat
  BY <1>3, <1>4 DEF CellsOf
<1>7. PICK n \in Nat : n = Len(flat)
  OBVIOUS
<1>8. /\ C \in Seq(Cell) /\ Len(C) = (m + 1) + n
      /\ \A i \in 1..(m + 1) + n : C[i] = IF i <= m + 1 THEN front[i]
                                           ELSE flat[i - (m + 1)]
  <2>1. PICK k : k = m + 1
    OBVIOUS
  <2>2. Len(front) = k /\ front \in Seq(Cell) /\ flat \in Seq(Cell)
    BY <1>3, <1>5, <2>1
  <2>3. /\ C \in Seq(Cell) /\ Len(C) = k + n
        /\ \A i \in 1..k + n : C[i] = IF i <= k THEN front[i] ELSE flat[i - k]
    BY <1>6, <1>7, <2>2, ConcatProperties
  <2> QED
    BY <2>1, <2>3, Zenon
<1>9. C[1] = header /\ Len(C) >= m + 1
  BY <1>1, <1>3, <1>8
<1>10. ASSUME NEW k \in 1..m PROVE C[k + 1] = [size |-> Len(w[k].tasks)]
  <2>1. k + 1 \in 1..(m + 1) + n /\ k + 1 <= m + 1
    BY <1>1
  <2> QED
    BY <1>3, <1>8, <2>1
<1>11. ASSUME NEW i \in m + 2..Len(C) PROVE C[i] \in TextCell
  <2>1. /\ i \in 1..(m + 1) + n /\ ~(i <= m + 1) /\ i - (m + 1) \in 1..n
    BY <1>1, <1>8
  <2>2. C[i] = flat[i - (m + 1)]
    BY <1>8, <2>1
  <2> QED
    BY <1>7, <2>1, <2>2
<1>12. ASSUME NEW S, StartsOf(w, S), NEW k \in 1..m
       PROVE  HasBehind(C, S[k] - 1, DataOf(w[k]))
  <2>1. S[k] \in Nat /\ S[k] >= m + 2
    BY <1>1, <1>12, StartsBehind
  <2>2. PICK p \in Nat : p = S[k] - (m + 2)
    BY <1>1, <2>1
  <2>3. HasBehind(flat, p, DataOf(w[k]))
    BY <1>4, <1>12, <2>2
  <2>4. DataOf(w[k]) \in Seq(Cell)
    BY <1>2, SeqMonotonic DEF Cell
  <2>5. HasBehind(front \o flat, (m + 1) + p, DataOf(w[k]))
    BY <1>3, <1>5, <2>3, <2>4, HasBehindConcat
  <2>6. (m + 1) + p = S[k] - 1
    BY <1>1, <2>1, <2>2
  <2> QED
    BY <1>6, <2>5, <2>6
<1> QED
  BY <1>8, <1>9, <1>10, <1>11, <1>12

\* A file is never shorter than its header and sizes.
LEMMA CellsLength ==
    ASSUME NEW w \in Seq(Chunk)
    PROVE  /\ CellsOf(w) \in Seq(Cell)
           /\ Len(CellsOf(w)) \in Nat /\ Len(CellsOf(w)) >= Len(w) + 1
<1>1. CellsOf(w) \in Seq(Cell) /\ Len(CellsOf(w)) >= Len(w) + 1
  BY CellsLayout
<1> QED
  BY <1>1

\* Sizes are behind the header, and only texts behind the sizes.
LEMMA CellKinds ==
    ASSUME NEW w \in Seq(Chunk), NEW m, m = Len(w), NEW C, C = CellsOf(w)
    PROVE  /\ \A k \in 1..m : C[k + 1] = [size |-> Len(w[k].tasks)]
           /\ \A i \in m + 2..Len(C) : C[i] \in TextCell
<1>1. \A k \in 1..m : C[k + 1] = [size |-> Len(w[k].tasks)]
  BY CellsLayout
<1>2. \A i \in m + 2..Len(C) : C[i] \in TextCell
  BY CellsLayout
<1> QED
  BY <1>1, <1>2

\* The count in the header.
LEMMA CountFits ==
    ASSUME NEW m \in Nat
    PROVE  /\ m % ChunkLimit \in 0..ChunkLimit - 1
           /\ m % ChunkLimit <= m
           /\ m < ChunkLimit => m % ChunkLimit = m
BY ChunkLimitAssumption

\* What is left of a cell is of its kind: a smaller size, or a text.
LEMMA EndsKinds ==
    /\ \A c \in Nat : Ends([count |-> c]) = {[count |-> c]}
    /\ \A s \in Nat : \A e \in Ends([size |-> s]) :
          "size" \in DOMAIN e /\ e.size \in 0..s
    /\ \A cell \in TextCell : \A e \in Ends(cell) :
          e \in TextCell /\ e.text \in {cell.text, Torn(cell.text)}
<1>1. ASSUME NEW c \in Nat PROVE Ends([count |-> c]) = {[count |-> c]}
  <2>1. "text" \notin DOMAIN [count |-> c] /\ "size" \notin DOMAIN [count |-> c]
    OBVIOUS
  <2> QED
    BY <2>1 DEF Ends
<1>2. ASSUME NEW s \in Nat, NEW e \in Ends([size |-> s])
      PROVE  "size" \in DOMAIN e /\ e.size \in 0..s
  <2>1. "text" \notin DOMAIN [size |-> s] /\ "size" \in DOMAIN [size |-> s]
    OBVIOUS
  <2>2. \/ e = [size |-> s]
        \/ \E m \in SizeCuts : e = [size |-> s % m]
    BY <1>2, <2>1 DEF Ends
  <2>3. ASSUME NEW m \in SizeCuts PROVE s % m \in 0..s
    BY SizeCutsAssumption
  <2> QED
    BY <2>2, <2>3
<1>3. ASSUME NEW cell \in TextCell, NEW e \in Ends(cell)
      PROVE  e \in TextCell /\ e.text \in {cell.text, Torn(cell.text)}
  <2>1. /\ "text" \in DOMAIN cell /\ "size" \notin DOMAIN cell
        /\ cell.text \in AnyText
    BY DEF TextCell
  <2>2. e = cell \/ e = [text |-> Torn(cell.text)]
    <3>1. PICK torn : torn = {[text |-> Torn(cell.text)]}
      OBVIOUS
    <3>2. Ends(cell) = {cell} \cup torn
      BY <2>1, <3>1 DEF Ends
    <3> QED
      BY <1>3, <3>1, <3>2
  <2>3. Torn(cell.text) \in AnyText
    BY <2>1 DEF Torn, AnyText
  <2> QED
    BY <2>1, <2>2, <2>3 DEF TextCell
<1> QED
  BY <1>1, <1>2, <1>3

\* What a file of w is that ends in the n-th cell: sizes that are not all there
\* are smaller, and only the last text may be torn.
CutFile(cells, w, n) ==
    /\ n \in 1..Len(CellsOf(w)) /\ Len(cells) = n
    /\ cells[1] = [count |-> Len(w) % ChunkLimit]
    /\ \A i \in 1..n - 1 : cells[i] = CellsOf(w)[i]
    /\ \A k \in 1..Len(w) :
          /\ SizeAt(cells, k) \in 0..Len(w[k].tasks)
          /\ k + 1 < n => SizeAt(cells, k) = Len(w[k].tasks)
          /\ k + 1 <= n => "size" \in DOMAIN cells[k + 1]
    /\ \A i \in Len(w) + 2..n :
          /\ cells[i] \in TextCell
          /\ cells[i].text \in {CellsOf(w)[i].text, Torn(CellsOf(w)[i].text)}

\* A file that ends with what is left of a cell is one of these.
LEMMA EndedCells ==
    ASSUME NEW w \in Seq(Chunk), NEW m, m = Len(w), NEW C, C = CellsOf(w),
           NEW n \in 1..Len(C), NEW last \in Ends(C[n]),
           NEW cells, cells = [i \in 1..n |-> IF i = n THEN last ELSE C[i]]
    PROVE  CutFile(cells, w, n)
<1>1. /\ m \in Nat /\ C \in Seq(Cell) /\ Len(C) \in Nat /\ Len(C) >= m + 1
      /\ C[1] = [count |-> m % ChunkLimit]
      /\ \A k \in 1..m : C[k + 1] = [size |-> Len(w[k].tasks)]
      /\ \A i \in m + 2..Len(C) : C[i] \in TextCell
  BY CellsLayout
<1>2. /\ n \in Nat /\ Len(cells) = n
      /\ cells[n] = last /\ \A i \in 1..n - 1 : cells[i] = C[i]
      /\ \A i \in 1..n : cells[i] = IF i = n THEN last ELSE C[i]
  BY <1>1
<1>3. cells[1] = [count |-> m % ChunkLimit]
  <2>1. m % ChunkLimit \in Nat
    BY <1>1, ChunkLimitAssumption
  <2>2. n = 1 => last = C[1]
    BY <1>1, <2>1, EndsKinds
  <2> QED
    BY <1>1, <1>2, <2>2
<1>4. ASSUME NEW k \in 1..m
      PROVE  /\ SizeAt(cells, k) \in 0..Len(w[k].tasks)
             /\ k + 1 < n => SizeAt(cells, k) = Len(w[k].tasks)
             /\ k + 1 <= n => "size" \in DOMAIN cells[k + 1]
  <2>1. PICK s \in Nat : s = Len(w[k].tasks)
    <3>1. w[k] \in Chunk
      OBVIOUS
    <3> QED
      BY <3>1 DEF Chunk
  <2>2. C[k + 1] = [size |-> s] /\ k + 1 \in Nat
    BY <1>1, <2>1
  <2>3. CASE k + 1 < n
    <3>1. cells[k + 1] = [size |-> s]
      BY <1>1, <1>2, <2>2, <2>3
    <3> QED
      BY <1>2, <2>1, <2>3, <3>1 DEF SizeAt
  <2>4. CASE k + 1 = n
    <3>1. cells[k + 1] \in Ends([size |-> s])
      BY <1>2, <2>2, <2>4
    <3>2. "size" \in DOMAIN cells[k + 1] /\ cells[k + 1].size \in 0..s
      BY <3>1, EndsKinds
    <3> QED
      BY <1>2, <2>1, <2>4, <3>2 DEF SizeAt
  <2>5. CASE k + 1 > n
    BY <1>1, <1>2, <2>1, <2>5 DEF SizeAt
  <2> QED
    BY <1>1, <1>2, <2>2, <2>3, <2>4, <2>5
<1>5. ASSUME NEW i \in m + 2..n
      PROVE  cells[i] \in TextCell /\ cells[i].text \in {C[i].text, Torn(C[i].text)}
  <2>1. i \in m + 2..Len(C) /\ i \in 1..n
    BY <1>1, <1>2
  <2>2. C[i] \in TextCell
    BY <1>1, <2>1
  <2>3. cells[i] = C[i] \/ cells[i] \in Ends(C[i])
    BY <1>2, <2>1
  <2> QED
    BY <2>2, <2>3, EndsKinds
<1> QED
  BY <1>2, <1>3, <1>4, <1>5 DEF CutFile

\* The members of Cuts.
Ended(cells, C) ==
    \E n \in 1..Len(C) : \E last \in Ends(C[n]) :
       cells = [i \in 1..n |-> IF i = n THEN last ELSE C[i]]

LEMMA CutsAre ==
    ASSUME NEW C, NEW cells
    PROVE  cells \in Cuts(C) <=> cells = <<>> \/ Ended(cells, C)
<1> DEFINE ended(n, last) == [i \in 1..n |-> IF i = n THEN last ELSE C[i]]
<1>1. Cuts(C) = {<<>>} \cup
                UNION {{ended(n, last) : last \in Ends(C[n])} : n \in 1..Len(C)}
  BY Zenon DEF Cuts
<1> HIDE DEF ended
<1>2. cells \in Cuts(C) <=>
         \/ cells = <<>>
         \/ \E n \in 1..Len(C) : \E last \in Ends(C[n]) : cells = ended(n, last)
  BY <1>1
<1> QED
  BY <1>2, Zenon DEF ended, Ended

\* Wherever the writing stops, the file is one of these or as good as empty.
LEMMA CutCells ==
    ASSUME NEW w \in Seq(Chunk), NEW cells \in Cuts(CellsOf(w)) \ {<<>>}
    PROVE  \E n \in 1..Len(CellsOf(w)) : CutFile(cells, w, n)
<1>1. PICK C : C = CellsOf(w)
  OBVIOUS
<1>2. PICK n \in 1..Len(C) : \E last \in Ends(C[n]) :
         cells = [i \in 1..n |-> IF i = n THEN last ELSE C[i]]
  <2>1. cells \in Cuts(C) /\ cells # <<>>
    BY <1>1
  <2>2. Ended(cells, C)
    BY <2>1, CutsAre
  <2> QED
    BY <2>2 DEF Ended
<1>3. PICK last \in Ends(C[n]) :
         cells = [i \in 1..n |-> IF i = n THEN last ELSE C[i]]
  BY <1>2
<1>4. PICK ended : ended = [i \in 1..n |-> IF i = n THEN last ELSE C[i]]
  OBVIOUS
<1>5. CutFile(ended, w, n)
  BY <1>1, <1>4, EndedCells
<1> QED
  BY <1>1, <1>3, <1>4, <1>5

\* With the header and the sizes written every size is what it was.
LEMMA WholeSizes ==
    ASSUME NEW w \in Seq(Chunk), NEW C, C = CellsOf(w)
    PROVE  \A k \in 1..Len(w) : SizeAt(C, k) = Len(w[k].tasks)
<1>1. \A k \in 1..Len(w) : C[k + 1] = [size |-> Len(w[k].tasks)]
  BY CellKinds
<1>2. Len(C) \in Nat /\ Len(C) >= Len(w) + 1 /\ Len(w) \in Nat
  BY CellsLength
<1>3. \A k \in 1..Len(w) : k + 1 <= Len(C)
  BY <1>2
<1>4. ASSUME NEW k \in 1..Len(w) PROVE SizeAt(C, k) = Len(w[k].tasks)
  <2>1. PICK cell : cell = C[k + 1] /\ cell = [size |-> Len(w[k].tasks)]
    BY <1>1
  <2>2. cell.size = Len(w[k].tasks)
    BY <2>1
  <2>3. SizeAt(C, k) = cell.size
    BY <1>3, <2>1, Zenon DEF SizeAt
  <2> QED
    BY <2>2, <2>3
<1> QED
  BY <1>4

\* The file that was written to its end is one of these too.
LEMMA WholeCells ==
    ASSUME NEW w \in Seq(Chunk), NEW C, C = CellsOf(w)
    PROVE  /\ CutFile(C, w, Len(C))
           /\ C \in Cuts(C) \ {<<>>}
<1>1. C \in Seq(Cell) /\ Len(C) \in Nat /\ Len(C) >= Len(w) + 1 /\ Len(w) \in Nat
  BY CellsLength
<1>2. PICK n \in 1..Len(C) : n = Len(C)
  BY <1>1
<1>3. PICK last : last = C[n] /\ last \in Ends(C[n])
  BY DEF Ends
<1>4. C = [i \in 1..n |-> IF i = n THEN last ELSE C[i]]
  BY <1>1, <1>2, <1>3
<1>5. CutFile(C, w, n)
  BY <1>3, <1>4, EndedCells
<1>6. C # <<>>
  BY <1>1
<1>7. C \in Cuts(C)
  BY <1>2, <1>3, <1>4, CutsAre DEF Ended
<1> QED
  BY <1>2, <1>5, <1>6, <1>7

\* What is read from it is a sequence of chunks, with no more tasks than the
\* sizes say, whether or not the count fitted: behind the sizes counted there
\* are sizes, which read as noise, or texts.
LEMMA ReadType ==
    ASSUME NEW w \in Seq(Chunk), NEW m, m = Len(w), NEW C, C = CellsOf(w),
           NEW n \in 1..Len(C), NEW cells, CutFile(cells, w, n),
           NEW count, count = m % ChunkLimit,
           NEW read, read = ReadChunks(cells)
    PROVE  /\ count \in 0..m
           /\ read \in Seq(Chunk)
           /\ Len(read) = count
           /\ \A k \in 1..count :
                 /\ read[k].tasks \in Seq(AnyText)
                 /\ Len(read[k].tasks) = SizeAt(cells, k)
                 /\ SizeAt(cells, k) \in 0..Len(w[k].tasks)
<1>1. m \in Nat /\ count \in 0..m
  BY CountFits
<1>2. /\ Len(cells) = n /\ n \in Nat
      /\ cells[1] = [count |-> count]
      /\ \A k \in 1..m : SizeAt(cells, k) \in 0..Len(w[k].tasks)
      /\ \A k \in 1..m : k + 1 <= n => "size" \in DOMAIN cells[k + 1]
      /\ \A l \in m + 2..n : cells[l] \in TextCell
  BY DEF CutFile
<1>3. \A k \in 1..m : Len(w[k].tasks) \in Nat /\ SizeAt(cells, k) \in Nat
  BY <1>2 DEF Chunk
<1>4. PICK start \in [1..count -> Nat] :
         start = ChunkStarts(cells) /\ \A k \in 1..count : start[k] >= count + 2
  <2>1. count \in Nat /\ cells[1].count = count
        /\ \A k \in 1..count : SizeAt(cells, k) \in Nat
    BY <1>1, <1>2, <1>3
  <2>2. /\ ReadStarts(ChunkStarts(cells), cells, count)
        /\ \A k \in 1..count : ChunkStarts(cells)[k] >= count + 2
    BY <2>1, StartsDefined
  <2> QED
    BY <2>2 DEF ReadStarts
<1>5. ASSUME NEW i \in Nat, i >= count + 2 PROVE TextAt(cells, i) \in AnyText
  <2>1. PICK data \in Nat : data = count + 2 /\ data = cells[1].count + 2
    BY <1>1, <1>2
  <2>2. CASE count = m
    <3>1. i <= n => cells[i] \in TextCell
      BY <1>1, <1>2, <1>5, <2>2
    <3>2. Noise \in AnyText /\ Blank \in AnyText
      BY DEF AnyText
    <3>3. ~(i > n) => cells[i].text \in AnyText
      <4>1. ~(i > n) => i <= n
        BY <1>2
      <4>2. \A c \in TextCell : c.text \in AnyText
        BY DEF TextCell
      <4> QED
        BY <3>1, <4>1, <4>2
    <3> QED
      BY <1>2, <3>2, <3>3 DEF TextAt
  <2>3. CASE count # m
    <3>1. n >= data => data \in 1..n /\ data = (count + 1) + 1 /\ count + 1 \in 1..m
      BY <1>1, <2>1, <2>3
    <3>3. n >= data => "size" \in DOMAIN cells[data]
      BY <1>2, <3>1
    <3>4. ~(n >= data) => i > n
      BY <1>5, <2>1
    <3>5. TextAt(cells, i) \in {Noise, Blank}
      BY <1>2, <2>1, <3>3, <3>4 DEF TextAt
    <3> QED
      BY <3>5 DEF AnyText
  <2> QED
    BY <2>2, <2>3
<1> DEFINE tasksOf(k) == [j \in 1..SizeAt(cells, k) |-> TextAt(cells, start[k] + j)]
<1>6. read = [k \in 1..count |-> [title |-> TextAt(cells, start[k]),
                                  tasks |-> tasksOf(k)]]
  BY <1>2, <1>4 DEF ReadChunks
<1>7. ASSUME NEW k \in 1..count
      PROVE  /\ TextAt(cells, start[k]) \in AnyText
             /\ tasksOf(k) \in Seq(AnyText)
             /\ Len(tasksOf(k)) = SizeAt(cells, k)
  <2>1. SizeAt(cells, k) \in Nat /\ start[k] \in Nat /\ start[k] >= count + 2
    <3>1. k \in 1..m
      BY <1>1
    <3> QED
      BY <1>3, <1>4, <3>1, Zenon
  <2>2. ASSUME NEW j \in Nat PROVE TextAt(cells, start[k] + j) \in AnyText
    <3>1. PICK s \in Nat : s = start[k] /\ s >= count + 2
      BY <2>1
    <3>2. s + j \in Nat /\ s + j >= count + 2
      BY <1>1, <3>1
    <3> QED
      BY <1>5, <3>1, <3>2, Zenon
  <2>3. TextAt(cells, start[k]) \in AnyText
    BY <1>5, <2>1
  <2>4. \A j \in 1..SizeAt(cells, k) : TextAt(cells, start[k] + j) \in AnyText
    <3>1. \A j \in 1..SizeAt(cells, k) : j \in Nat
      BY <2>1
    <3> QED
      BY <2>2, <3>1, Zenon
  <2>5. tasksOf(k) \in [1..SizeAt(cells, k) -> AnyText]
    BY <2>4
  <2> QED
    BY <2>1, <2>3, <2>5, SeqOfFunction
<1> HIDE DEF tasksOf
<1>8. read \in Seq(Chunk) /\ Len(read) = count
  <2>1. \A k \in 1..count : [title |-> TextAt(cells, start[k]),
                            tasks |-> tasksOf(k)] \in Chunk
    BY <1>7 DEF Chunk
  <2>2. read \in [1..count -> Chunk] /\ count \in Nat
    BY <1>1, <1>6, <2>1
  <2> QED
    BY <2>2, SeqOfFunction
<1>9. \A k \in 1..count : read[k].tasks = tasksOf(k) /\ k \in 1..m
  BY <1>1, <1>6
<1> QED
  BY <1>1, <1>2, <1>7, <1>8, <1>9

\* When the count fits, every text is read from the place it was written to.
\* There it is whole before the last cell, and blank behind it.
LEMMA TextInPlace ==
    ASSUME NEW w \in Seq(Chunk), NEW m, m = Len(w), m < ChunkLimit,
           NEW C, C = CellsOf(w), NEW n \in 1..Len(C), NEW cells, CutFile(cells, w, n),
           NEW k \in 1..m, NEW j \in 0..SizeAt(cells, k),
           NEW i, i = ChunkStarts(cells)[k] + j,
           NEW there, there = DataOf(w[k])[j + 1].text
    PROVE  /\ i \in Nat /\ i >= m + 2
           /\ TextAt(cells, i) \in {there, Torn(there), Blank}
           /\ i < n => TextAt(cells, i) = there
           /\ i > n => TextAt(cells, i) = Blank
           /\ cells = C => TextAt(cells, i) = there
<1>1. /\ m \in Nat /\ C \in Seq(Cell) /\ Len(C) \in Nat /\ Len(C) >= m + 1
      /\ \A l \in m + 2..Len(C) : C[l] \in TextCell
  <2>1. C \in Seq(Cell) /\ Len(C) >= m + 1
    BY CellsLength
  <2>2. \A l \in m + 2..Len(C) : C[l] \in TextCell
    BY CellKinds
  <2>3. m \in Nat /\ Len(C) \in Nat
    BY <2>1
  <2> QED
    BY <2>1, <2>2, <2>3
<1>2. /\ n \in Nat /\ n <= Len(C) /\ Len(cells) = n
      /\ \A l \in 1..n - 1 : cells[l] = C[l]
      /\ cells[1] = [count |-> m % ChunkLimit]
      /\ \A l \in 1..m : /\ SizeAt(cells, l) \in 0..Len(w[l].tasks)
                         /\ l + 1 < n => SizeAt(cells, l) = Len(w[l].tasks)
      /\ \A l \in m + 2..n :
            cells[l] \in TextCell /\ cells[l].text \in {C[l].text, Torn(C[l].text)}
  BY <1>1 DEF CutFile
<1>3. cells[1].count = m
  BY <1>1, <1>2, CountFits
<1>4. \A l \in 1..m : /\ w[l] \in Chunk /\ Len(w[l].tasks) \in Nat
                      /\ SizeAt(cells, l) \in Nat
  <2>1. \A l \in 1..m : w[l] \in Chunk
    OBVIOUS
  <2>2. \A c \in Chunk : Len(c.tasks) \in Nat
    BY DEF Chunk
  <2>3. \A l \in 1..m : \A s \in 0..Len(w[l].tasks) : s \in Nat
    BY <2>1, <2>2
  <2> QED
    BY <1>2, <2>1, <2>2, <2>3, Zenon
<1> PICK start : start = ChunkStarts(cells)
  OBVIOUS
<1>5. /\ start \in [1..m -> Nat]
      /\ \A l \in 1..m : /\ start[l] >= m + 2
                         /\ start[l] = IF l = 1 THEN m + 2
                                 ELSE start[l - 1] + 1 + SizeAt(cells, l - 1)
  <2>1. ReadStarts(start, cells, m) /\ \A l \in 1..m : start[l] >= m + 2
    BY <1>1, <1>3, <1>4, StartsDefined
  <2> QED
    BY <2>1 DEF ReadStarts
<1>6. j \in Nat /\ start[k] \in Nat /\ i = start[k] + j /\ i \in Nat /\ i >= m + 2
  <2>1. PICK s \in Nat : s = start[k] /\ s >= m + 2
    BY <1>5
  <2>2. PICK c \in Nat : c = SizeAt(cells, k)
    BY <1>4
  <2>3. i = s + j /\ j \in 0..c
    BY <2>1, <2>2
  <2> QED
    BY <1>1, <2>1, <2>3
<1>7. TextAt(cells, i) = IF i > n THEN Blank ELSE cells[i].text
  <2>1. PICK data \in Nat : data = m + 2 /\ data = cells[1].count + 2
    BY <1>1, <1>3
  <2>2. ~(n >= data /\ "size" \in DOMAIN cells[data])
    <3>1. n >= data => data \in m + 2..n
      BY <1>1, <1>2, <2>1
    <3>2. n >= data => cells[data] \in TextCell
      BY <1>2, <3>1
    <3>3. \A c \in TextCell : "size" \notin DOMAIN c
      BY DEF TextCell
    <3> QED
      BY <3>2, <3>3
  <2>3. ~(Len(cells) >= cells[1].count + 2
             /\ "size" \in DOMAIN cells[cells[1].count + 2])
    BY <1>2, <2>1, <2>2, Zenon
  <2> QED
    BY <1>2, <2>3 DEF TextAt
<1>8. ASSUME \A l \in 1..m : SizeAt(cells, l) = Len(w[l].tasks)
      PROVE  i <= Len(C) /\ C[i].text = there
  <2>1. \A l \in 1..m : SizeAt(cells, l) = Len(w[l].tasks)
    BY <1>8
  <2>2. StartsOf(w, start)
    <3>1. DOMAIN w = 1..m
      OBVIOUS
    <3>2. ASSUME NEW l \in 1..m
          PROVE  start[l] = IF l = 1 THEN m + 2
                            ELSE start[l - 1] + 1 + Len(w[l - 1].tasks)
      <4>1. l # 1 => l - 1 \in 1..m
        BY <1>1
      <4>2. l # 1 => SizeAt(cells, l - 1) = Len(w[l - 1].tasks)
        BY <2>1, <4>1
      <4> QED
        BY <1>5, <4>2
    <3> QED
      BY <1>5, <3>1, <3>2, Zenon DEF StartsOf
  <2>3. HasBehind(C, start[k] - 1, DataOf(w[k]))
    BY <2>2, CellsLayout
  <2>4. PICK c \in Nat : c = Len(DataOf(w[k])) /\ j + 1 \in 1..c
    <3>1. Len(DataOf(w[k])) = Len(w[k].tasks) + 1
      BY <1>4, DataLayout
    <3>2. PICK d \in Nat : d = Len(w[k].tasks) /\ d = SizeAt(cells, k)
      BY <1>4, <2>1
    <3>3. j + 1 \in 1..d + 1
      BY <3>2
    <3> QED
      BY <3>1, <3>2, <3>3
  <2>5. (start[k] - 1) + (j + 1) = i /\ (start[k] - 1) + c >= i
    <3>1. PICK s \in Nat : s = start[k]
      BY <1>6
    <3>2. (s - 1) + (j + 1) = s + j /\ (s - 1) + c >= s + j
      BY <1>6, <2>4
    <3> QED
      BY <1>6, <3>1, <3>2
  <2>6. C[(start[k] - 1) + (j + 1)] = DataOf(w[k])[j + 1]
    BY <2>3, <2>4 DEF HasBehind
  <2>7. (start[k] - 1) + c <= Len(C)
    BY <2>3, <2>4 DEF HasBehind
  <2>8. i <= Len(C)
    <3>1. PICK s \in Nat, b \in Nat : s = start[k] /\ b = Len(C)
      BY <1>1, <1>6
    <3>2. PICK e \in Int : e = (s - 1) + c
      OBVIOUS
    <3>3. e >= i /\ e <= b /\ i \in Nat
      BY <1>6, <2>5, <2>7, <3>1, <3>2
    <3>4. i <= b
      BY ONLY e \in Int, b \in Nat, <3>3
    <3> QED
      BY <3>1, <3>4
  <2> QED
    BY <2>5, <2>6, <2>8
<1>9. CASE i > n
  <2>1. ASSUME cells = C PROVE FALSE
    <3>1. \A l \in 1..m : SizeAt(C, l) = Len(w[l].tasks)
      BY WholeSizes
    <3>2. \A l \in 1..m : SizeAt(cells, l) = Len(w[l].tasks)
      BY <2>1, <3>1, Zenon
    <3>3. i <= Len(C) /\ n = Len(C)
      BY <1>2, <1>8, <2>1, <3>2
    <3> QED
      BY <1>1, <1>6, <1>9, <3>3
  <2> QED
    BY <1>2, <1>6, <1>7, <1>9, <2>1
<1>10. CASE ~(i > n)
  <2>1. i \in m + 2..n /\ n >= m + 2
    <3>1. PICK i0 \in Nat : i0 = i /\ i0 >= m + 2 /\ i0 <= n
      BY <1>2, <1>6, <1>10
    <3> QED
      BY <1>1, <1>2, <3>1
  <2>2. TextAt(cells, i) = cells[i].text /\ C[i].text = there
    <3>1. \A l \in 1..m : l + 1 < n
      BY <1>1, <1>2, <2>1
    <3>2. \A l \in 1..m : SizeAt(cells, l) = Len(w[l].tasks)
      BY <1>2, <3>1
    <3> QED
      BY <1>7, <1>8, <1>10, <3>2
  <2>3. i < n => cells[i] = C[i]
    BY <1>1, <1>2, <2>1
  <2> QED
    BY <1>2, <1>6, <1>10, <2>1, <2>2, <2>3
<1> QED
  BY <1>9, <1>10

\* The two parts of a chunk.
LEMMA ChunkParts ==
    ASSUME NEW c \in Chunk
    PROVE  /\ c.title \in AnyText /\ c.tasks \in Seq(AnyText)
           /\ Len(c.tasks) \in Nat /\ DOMAIN c.tasks = 1..Len(c.tasks)
           /\ \A d \in Chunk : d.title = c.title /\ d.tasks = c.tasks => d = c
BY DEF Chunk

\* A chunk begins behind all texts of the ones before it.
LEMMA StartsRise ==
    ASSUME NEW cells, NEW m \in Nat, NEW start, ReadStarts(start, cells, m),
           \A k \in 1..m : SizeAt(cells, k) \in Nat, NEW k \in 1..m
    PROVE  \A l \in 1..m : k < l => start[l] > start[k] + SizeAt(cells, k)
<1>1. \A l \in 1..m : /\ start[l] \in Nat
                      /\ l # 1 => start[l] = start[l - 1] + 1 + SizeAt(cells, l - 1)
  BY DEF ReadStarts
<1>2. PICK end \in Nat : end = start[k] + SizeAt(cells, k)
  BY <1>1
<1> DEFINE P == {l \in Nat : l \in 1..m /\ k < l => start[l] > end}
<1>3. 0 \in P
  OBVIOUS
<1>4. ASSUME NEW l \in Nat, l \in P PROVE l + 1 \in P
  <2> SUFFICES ASSUME l + 1 \in 1..m, k < l + 1 PROVE start[l + 1] > end
    OBVIOUS
  <2>1. l \in 1..m /\ l + 1 # 1 /\ (l + 1) - 1 = l
    OBVIOUS
  <2>2. PICK s \in Nat, t \in Nat :
           s = start[l] /\ t = SizeAt(cells, l) /\ start[l + 1] = s + 1 + t
    BY <1>1, <2>1
  <2>3. k = l => s + t = end
    BY <1>2, <2>2
  <2>4. k # l => s > end
    BY <1>4, <2>1, <2>2
  <2> QED
    BY <2>2, <2>3, <2>4
<1>5. \A l \in Nat : l \in P
  <2> HIDE DEF P
  <2> QED
    BY <1>3, <1>4, SetInduction
<1>6. \A l \in 1..m : k < l => start[l] > end
  BY <1>5
<1> QED
  BY <1>2, <1>6

\* So a file that ends anywhere reads as the chunks that were written, whole up
\* to one text and blank behind it, or as blank ones when the sizes are not all
\* there; and one that was written to its end as what was written.
LEMMA ReadsInPlace ==
    ASSUME NEW w \in Seq(Chunk), NEW m, m = Len(w), m < ChunkLimit,
           NEW C, C = CellsOf(w), NEW n \in 1..Len(C), NEW cells,
           CutFile(cells, w, n), NEW read, read = ReadChunks(cells)
    PROVE  /\ Saved!CutOf(read, w)
           /\ cells = C => read = w
<1>1. m \in Nat /\ m % ChunkLimit = m /\ n \in Nat
  <2>1. Len(C) \in Nat
    BY CellsLength
  <2> QED
    BY <2>1, CountFits
<1>2. /\ cells[1].count = m
      /\ \A k \in 1..m : k + 1 < n => SizeAt(cells, k) = Len(w[k].tasks)
  BY <1>1 DEF CutFile
<1>3. /\ read \in Seq(Chunk) /\ Len(read) = m
      /\ \A k \in 1..m : /\ read[k].tasks \in Seq(AnyText)
                         /\ Len(read[k].tasks) = SizeAt(cells, k)
                         /\ SizeAt(cells, k) \in 0..Len(w[k].tasks)
  BY <1>1, ReadType
<1>4. PICK start : start = ChunkStarts(cells)
  OBVIOUS
<1>5. \A k \in 1..m :
         /\ read[k].title = TextAt(cells, start[k])
         /\ \A j \in 1..SizeAt(cells, k) :
               read[k].tasks[j] = TextAt(cells, start[k] + j)
  BY <1>2, <1>4 DEF ReadChunks
<1>6. \A k \in 1..m : w[k] \in Chunk /\ read[k] \in Chunk
  BY <1>3
<1>7. \A k \in 1..m : Len(w[k].tasks) \in Nat /\ SizeAt(cells, k) \in Nat
  <2>1. \A k \in 1..m : Len(w[k].tasks) \in Nat
    BY <1>6, ChunkParts
  <2>2. \A k \in 1..m : \A s \in 0..Len(w[k].tasks) : s \in Nat
    BY <2>1
  <2> QED
    BY <1>3, <2>1, <2>2, Zenon
<1>8. /\ ReadStarts(start, cells, m)
      /\ \A k \in 1..m : start[k] \in Nat /\ start[k] >= m + 2
  <2>1. ReadStarts(start, cells, m) /\ \A k \in 1..m : start[k] >= m + 2
    BY <1>1, <1>2, <1>4, <1>7, StartsDefined
  <2> QED
    BY <2>1 DEF ReadStarts
\* Every text is where it was written, torn where the file ends, or blank.
<1>9. ASSUME NEW k \in 1..m
      PROVE  /\ read[k].title \in {w[k].title, Torn(w[k].title), Blank}
             /\ start[k] < n => read[k].title = w[k].title
             /\ start[k] > n => read[k].title = Blank
             /\ cells = C => read[k].title = w[k].title
  <2>1. 0 \in 0..SizeAt(cells, k) /\ start[k] + 0 = start[k]
    BY <1>7, <1>8
  <2>2. DataOf(w[k])[0 + 1].text = w[k].title
    <3>1. DataOf(w[k])[1] = [text |-> w[k].title] /\ 0 + 1 = 1
      BY <1>6, DataLayout
    <3> QED
      BY <3>1
  <2> QED
    BY <1>4, <1>5, <2>1, <2>2, TextInPlace
<1>10. ASSUME NEW k \in 1..m, NEW j \in 1..SizeAt(cells, k)
       PROVE  /\ j \in DOMAIN w[k].tasks /\ j \in DOMAIN read[k].tasks
              /\ read[k].tasks[j] \in {w[k].tasks[j], Torn(w[k].tasks[j]), Blank}
              /\ start[k] + j < n => read[k].tasks[j] = w[k].tasks[j]
              /\ start[k] + j > n => read[k].tasks[j] = Blank
              /\ cells = C => read[k].tasks[j] = w[k].tasks[j]
  <2>1. PICK c \in Nat : c = Len(w[k].tasks) /\ DOMAIN w[k].tasks = 1..c
    BY <1>6, ChunkParts
  <2>2. j \in 1..c /\ j \in 0..SizeAt(cells, k)
    <3>1. PICK s \in 0..c : s = SizeAt(cells, k)
      BY <1>3, <2>1
    <3> QED
      BY <2>1, <3>1
  <2>3. DataOf(w[k])[j + 1].text = w[k].tasks[j]
    <3>1. DataOf(w[k])[j + 1] = [text |-> w[k].tasks[j]]
      BY <1>6, <2>1, <2>2, DataLayout
    <3> QED
      BY <3>1
  <2>4. j \in DOMAIN read[k].tasks
    BY <1>3
  <2>5. PICK text : text = TextAt(cells, start[k] + j) /\ text = read[k].tasks[j]
    BY <1>5
  <2>6. /\ text \in {w[k].tasks[j], Torn(w[k].tasks[j]), Blank}
        /\ start[k] + j < n => text = w[k].tasks[j]
        /\ start[k] + j > n => text = Blank
        /\ cells = C => text = w[k].tasks[j]
    BY <1>4, <2>2, <2>3, <2>5, TextInPlace
  <2> QED
    BY <2>1, <2>2, <2>4, <2>5, <2>6
<1>11. ASSUME NEW k \in 1..m
       PROVE  DOMAIN read[k].tasks = 1..SizeAt(cells, k)
  BY <1>3, <1>7
<1>12. ASSUME NEW k \in 1..m, start[k] > n PROVE Saved!BlankChunk(read[k])
  <2>1. \A j \in 1..SizeAt(cells, k) : start[k] + j > n
    BY <1>1, <1>7, <1>8, <1>12
  <2>2. \A j \in DOMAIN read[k].tasks : read[k].tasks[j] = Blank
    BY <1>10, <1>11, <2>1
  <2> QED
    BY <1>9, <1>12, <2>2 DEF Saved!BlankChunk
\* A chunk that the file goes beyond is whole.
<1>13. ASSUME NEW k \in 1..m, SizeAt(cells, k) = Len(w[k].tasks),
              read[k].title = w[k].title,
              \A j \in 1..SizeAt(cells, k) : read[k].tasks[j] = w[k].tasks[j]
       PROVE  read[k] = w[k]
  <2>1. PICK c \in Nat : c = Len(w[k].tasks) /\ w[k].tasks \in Seq(AnyText)
    BY <1>6, ChunkParts
  <2>2. read[k].tasks \in Seq(AnyText) /\ Len(read[k].tasks) = c
    BY <1>3, <1>13, <2>1
  <2>3. read[k].tasks = w[k].tasks
    BY <1>13, <2>1, <2>2, SeqEqual
  <2> QED
    BY <1>6, <1>13, <2>3, ChunkParts
<1>14. ASSUME NEW k \in 1..m, n > start[k] + SizeAt(cells, k) PROVE read[k] = w[k]
  <2>1. PICK s \in Nat, t \in Nat :
           s = start[k] /\ t = SizeAt(cells, k) /\ n > s + t /\ s >= m + 2
    BY <1>7, <1>8, <1>14
  <2>2. k + 1 < n /\ s < n /\ \A j \in 1..t : s + j < n
    BY <1>1, <2>1
  <2> QED
    BY <1>2, <1>9, <1>10, <1>13, <2>1, <2>2
<1>15. ASSUME NEW k \in 1..m PROVE Saved!CutChunk(read[k], w[k])
  <2>1. Len(read[k].tasks) <= Len(w[k].tasks)
    BY <1>3, <1>7
  <2>2. ASSUME NEW j \in DOMAIN read[k].tasks, read[k].tasks[j] # Blank
        PROVE  /\ read[k].title = w[k].title
               /\ \A i \in 1..j - 1 : read[k].tasks[i] = w[k].tasks[i]
    <3>1. PICK s \in Nat, t \in Nat : s = start[k] /\ t = SizeAt(cells, k)
      BY <1>7, <1>8
    <3>2. j \in 1..t /\ ~(s + j > n)
      BY <1>10, <1>11, <2>2, <3>1
    <3>3. s < n /\ \A i \in 1..j - 1 : i \in 1..t /\ s + i < n
      BY <1>1, <3>1, <3>2
    <3> QED
      BY <1>9, <1>10, <3>1, <3>3
  <2>3. \A j \in DOMAIN read[k].tasks :
           read[k].tasks[j] \in {w[k].tasks[j], Torn(w[k].tasks[j]), Blank}
    BY <1>10, <1>11
  <2> QED
    BY <1>9, <2>1, <2>2, <2>3 DEF Saved!CutChunk
<1>16. ASSUME NEW k \in 1..m, read[k] # w[k], NEW l \in k + 1..m
       PROVE  Saved!BlankChunk(read[l])
  <2>1. l \in 1..m /\ k < l
    BY <1>1
  <2>2. start[l] > start[k] + SizeAt(cells, k)
    BY <1>1, <1>7, <1>8, <2>1, StartsRise
  <2>3. ~(n > start[k] + SizeAt(cells, k))
    BY <1>14, <1>16
  <2>4. start[l] > n
    BY <1>1, <1>7, <1>8, <2>1, <2>2, <2>3
  <2> QED
    BY <1>12, <2>1, <2>4
<1>17. ASSUME NEW k \in 1..m, Len(read[k].tasks) < Len(w[k].tasks), NEW l \in 1..m
       PROVE  Saved!BlankChunk(read[l])
  <2>1. ~(k + 1 < n)
    BY <1>2, <1>3, <1>7, <1>17
  <2>2. start[l] > n
    BY <1>1, <1>8, <2>1
  <2> QED
    BY <1>12, <2>2
<1>18. Saved!CutOf(read, w)
  <2>1. DOMAIN read = 1..m
    BY <1>3
  <2> QED
    BY <1>3, <1>15, <1>16, <1>17, <2>1 DEF Saved!CutOf
<1>19. ASSUME cells = C PROVE read = w
  <2>1. ASSUME NEW k \in 1..m PROVE read[k] = w[k]
    <3>1. SizeAt(cells, k) = Len(w[k].tasks)
      BY <1>19, WholeSizes
    <3> QED
      BY <1>9, <1>10, <1>13, <1>19, <3>1
  <2> QED
    BY <1>3, <2>1, SeqEqual
<1> QED
  BY <1>18, <1>19
=============================================================================
