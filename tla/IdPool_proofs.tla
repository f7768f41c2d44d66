---------------------------- MODULE IdPool_proofs ----------------------------
(***************************************************************************)
(* What the operations of the id pool of the Rust crate preserve.          *)
(***************************************************************************)
EXTENDS IdPool, WellFoundedInduction, TLAPS

\* A non-empty set of naturals has a minimum: what allocate() and reseed() take.
LEMMA MinOfNat ==
    ASSUME NEW S \in SUBSET Nat, S # {}
    PROVE  Min(S) \in S /\ \A y \in S : Min(S) <= y
<1>1. PICK x \in S : \A y \in S : <<y, x>> \notin OpToRel(<, Nat)
  BY NatLessThanWellFounded, WFMin
<1>2. OpToRel(<, Nat) = {ss \in Nat \X Nat : ss[1] < ss[2]}
  BY Zenon DEF OpToRel
<1>3. \A y \in S : <<y, x>> \notin {ss \in Nat \X Nat : ss[1] < ss[2]}
  BY <1>1, <1>2, Zenon
<1>4. ASSUME NEW y \in S PROVE x <= y
  <2>1. x \in Nat /\ y \in Nat
    OBVIOUS
  <2>2. <<y, x>> \notin {ss \in Nat \X Nat : ss[1] < ss[2]}
    BY <1>3
  <2>3. ~(y < x)
    BY <2>1, <2>2
  <2> QED
    BY <2>1, <2>3
<1>5. \E z \in S : \A y \in S : z <= y
  BY <1>4
<1> QED
  BY <1>5 DEF Min

\* A non-empty set of naturals with a bound has a maximum.
LEMMA MaxOfBounded ==
    ASSUME NEW n \in Nat, NEW S \in SUBSET (0..n), S # {}
    PROVE  Max(S) \in S /\ \A y \in S : Max(S) >= y
<1> DEFINE T == {n - x : x \in S}
<1>1. T \in SUBSET Nat /\ T # {}
  <2>1. \A x \in S : n - x \in Nat
    OBVIOUS
  <2> QED
    BY <2>1
<1>2. Min(T) \in T /\ \A y \in T : Min(T) <= y
  BY <1>1, MinOfNat
<1>3. PICK x \in S : Min(T) = n - x
  BY <1>2
<1>4. \A y \in S : x >= y
  BY <1>2, <1>3
<1>5. \E z \in S : \A y \in S : z >= y
  BY <1>4
<1> QED
  BY <1>5 DEF Max

\* A new pool is well formed and sound for a client that holds no id.
LEMMA NewPoolSound == NewPool \in IdPools /\ PoolSound(NewPool, {})
BY MaxIdAssumption DEF NewPool, IdPools, PoolSound

\* allocate() returns an unused id below the limit; the pool is then sound for
\* the client that holds it, and for one that lost it (a failed INSERT).
LEMMA AllocateSound ==
    ASSUME NEW pool \in IdPools, NEW live, PoolSound(pool, live),
           CanAllocate(pool)
    PROVE  /\ AllocatedId(pool) \in Ids
           /\ AllocatedId(pool) \notin live
           /\ AfterAllocate(pool) \in IdPools
           /\ PoolSound(AfterAllocate(pool), live \cup {AllocatedId(pool)})
           /\ PoolSound(AfterAllocate(pool), live)
<1>1. /\ pool.next \in 0..MaxId /\ pool.freed \in SUBSET Ids
      /\ pool = [next |-> pool.next, freed |-> pool.freed]
      /\ MaxId \in Nat
  BY MaxIdAssumption DEF IdPools
<1>2. /\ live \subseteq 0..pool.next - 1
      /\ pool.freed \subseteq 0..pool.next - 1
      /\ live \cap pool.freed = {}
  BY DEF PoolSound
<1>3. CASE pool.freed # {}
  <2>1. Min(pool.freed) \in pool.freed
    BY <1>1, <1>3, MinOfNat DEF Ids
  <2>2. /\ AllocatedId(pool) = Min(pool.freed)
        /\ AfterAllocate(pool) = [next |-> pool.next,
                                  freed |-> pool.freed \ {Min(pool.freed)}]
    BY <1>1, <1>3 DEF AllocatedId, AfterAllocate
  <2> DEFINE id == Min(pool.freed)
             q == [next |-> pool.next, freed |-> pool.freed \ {id}]
  <2>3. q \in IdPools /\ id \in Ids /\ id \notin live
    BY <1>1, <1>2, <2>1 DEF IdPools
  <2>4. PoolSound(q, live \cup {id}) /\ PoolSound(q, live)
    <3>1. q.next = pool.next /\ q.freed = pool.freed \ {id}
      OBVIOUS
    <3> HIDE DEF q, id
    <3> QED
      BY <1>2, <2>1, <3>1 DEF PoolSound, id
  <2> QED
    BY <2>2, <2>3, <2>4
<1>4. CASE pool.freed = {}
  <2>1. /\ AllocatedId(pool) = pool.next
        /\ AfterAllocate(pool) = [next |-> pool.next + 1, freed |-> {}]
        /\ pool.next < MaxId
    BY <1>1, <1>4 DEF AllocatedId, AfterAllocate, CanAllocate
  <2> DEFINE id == pool.next
             q == [next |-> id + 1, freed |-> {}]
  <2>2. q \in IdPools /\ id \in Ids /\ id \notin live
    BY <1>1, <1>2, <2>1 DEF IdPools, Ids
  <2>3. PoolSound(q, live \cup {id}) /\ PoolSound(q, live)
    <3>1. q.next = id + 1 /\ q.freed = {} /\ id \in Nat
      BY <1>1
    <3>2. 0..q.next - 1 = 0..id /\ 0..id - 1 \subseteq 0..id
      BY <3>1
    <3>3. live \subseteq 0..id - 1
      BY <1>2
    <3> HIDE DEF q, id
    <3>4. live \cup {id} \subseteq 0..q.next - 1
      BY <3>1, <3>2, <3>3
    <3> QED
      BY <3>1, <3>4 DEF PoolSound
  <2> QED
    BY <2>1, <2>2, <2>3
<1> QED
  BY <1>3, <1>4

\* release() of ids in use leaves a pool sound for the client without them.
LEMMA ReleasesSound ==
    ASSUME NEW pool \in IdPools, NEW live, NEW gone \in SUBSET live,
           PoolSound(pool, live)
    PROVE  /\ AfterReleases(pool, gone) \in IdPools
           /\ PoolSound(AfterReleases(pool, gone), live \ gone)
<1>1. /\ pool.next \in 0..MaxId /\ pool.freed \in SUBSET Ids
      /\ pool = [next |-> pool.next, freed |-> pool.freed]
      /\ MaxId \in Nat
  BY MaxIdAssumption DEF IdPools
<1>2. AfterReleases(pool, gone)
         = [next |-> pool.next,
            freed |-> pool.freed \cup {i \in gone : i < pool.next}]
  BY <1>1 DEF AfterReleases
<1> DEFINE freed == pool.freed \cup {i \in gone : i < pool.next}
           q == [next |-> pool.next, freed |-> freed]
<1>3. /\ live \subseteq 0..pool.next - 1
      /\ pool.freed \subseteq 0..pool.next - 1
      /\ live \cap pool.freed = {}
  BY DEF PoolSound
<1>4. freed = pool.freed \cup gone /\ freed \subseteq Ids
  BY <1>1, <1>3 DEF Ids
<1> HIDE DEF freed
<1>5. q \in IdPools
  BY <1>1, <1>4 DEF IdPools
<1>6. PoolSound(q, live \ gone)
  <2>1. q.next = pool.next /\ q.freed = freed
    OBVIOUS
  <2> HIDE DEF q
  <2> QED
    BY <1>3, <1>4, <2>1 DEF PoolSound
<1> QED
  BY <1>2, <1>5, <1>6 DEF freed

\* reseed() past the ids in use gives a pool that is sound for them.
LEMMA ReseededSound ==
    ASSUME NEW live \in SUBSET Ids
    PROVE  /\ Reseeded(live) \in IdPools
           /\ PoolSound(Reseeded(live), live)
<1> DEFINE top == IF live = {} THEN 0 ELSE Max(live)
           next == Min({top + 1, MaxId})
<1>1. MaxId \in Nat /\ MaxId >= 1
  BY MaxIdAssumption
<1>2. top \in Ids /\ \A i \in live : i <= top
  <2>1. CASE live = {}
    BY <1>1, <2>1 DEF Ids
  <2>2. CASE live # {}
    <3>1. MaxId - 1 \in Nat /\ live \in SUBSET (0..MaxId - 1)
      BY <1>1 DEF Ids
    <3>2. Max(live) \in live /\ \A y \in live : Max(live) >= y
      BY <2>2, <3>1, MaxOfBounded
    <3> QED
      BY <2>2, <3>1, <3>2 DEF Ids
  <2> QED
    BY <2>1, <2>2
<1> HIDE DEF top
<1>3. next = top + 1
  <2>1. top + 1 \in Nat /\ top + 1 <= MaxId
    BY <1>1, <1>2 DEF Ids
  <2>2. next \in {top + 1, MaxId} /\ next <= top + 1
    BY <1>1, <2>1, MinOfNat
  <2> QED
    BY <1>1, <2>1, <2>2
<1>4. Reseeded(live) = [next |-> top + 1, freed |-> {}]
  BY <1>3 DEF Reseeded, top
<1> QED
  BY <1>1, <1>2, <1>4 DEF PoolSound, IdPools, Ids
=============================================================================
