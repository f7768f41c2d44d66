----------------------------- MODULE IDs_proofs -----------------------------
(***************************************************************************)
(* What the operations of the id pool preserve: the lemmas every client of *)
(* the pool uses.  Before them, induction in the form that the theorems of *)
(* the core use it: over a set of numbers, not over a predicate.           *)
(***************************************************************************)
EXTENDS IDs, SequenceTheorems, WellFoundedInduction, TLAPS

-----------------------------------------------------------------------------
(* Numbers *)

\* A set that holds 0 and is closed under successor holds every number: the
\* least number outside would have its predecessor inside.
LEMMA SetInduction ==
    ASSUME NEW S, 0 \in S, \A n \in Nat : n \in S => n + 1 \in S
    PROVE  \A n \in Nat : n \in S
<1> DEFINE T == Nat \ S
           R == OpToRel(<, Nat)
<1>1. IsWellFoundedOn(R, Nat)
  BY NatLessThanWellFounded
<1> SUFFICES ASSUME T # {} PROVE FALSE
  OBVIOUS
<1>2. \A m, n \in Nat : m < n => <<m, n>> \in R
  BY DEF OpToRel
<1> HIDE DEF R
<1>3. PICK x \in T : \A y \in T : ~(<<y, x>> \in R)
  BY <1>1, WFMin
<1>4. x \in Nat /\ x # 0 /\ x - 1 \in Nat /\ x - 1 \in T
  BY <1>3
<1>5. <<x - 1, x>> \in R
  BY <1>2, <1>4
<1> QED
  BY <1>3, <1>4, <1>5

\* A set of numbers with an upper bound has a maximum.
LEMMA MaxExists ==
    ASSUME NEW n \in Nat, NEW T \in SUBSET (0..n), T # {}
    PROVE  Max(T) \in T /\ \A y \in T : Max(T) >= y
<1> DEFINE S == {m \in Nat : \A U \in SUBSET (0..m) :
                   U # {} => \E x \in U : \A y \in U : x >= y}
<1>1. 0 \in S
  <2>1. 0..0 = {0}
    OBVIOUS
  <2>2. ASSUME NEW U \in SUBSET (0..0), U # {}
        PROVE  \E x \in U : \A y \in U : x >= y
    <3>1. 0 \in U /\ \A y \in U : y = 0
      BY <2>1, <2>2
    <3> QED
      BY <3>1
  <2> QED
    BY <2>2
<1>2. ASSUME NEW m \in Nat, m \in S PROVE m + 1 \in S
  <2> SUFFICES ASSUME NEW U \in SUBSET (0..m + 1), U # {}
               PROVE  \E x \in U : \A y \in U : x >= y
    BY <1>2
  <2>1. CASE m + 1 \in U
    BY <2>1
  <2>2. CASE m + 1 \notin U
    <3>1. U \in SUBSET (0..m)
      BY <2>2
    <3> QED
      BY <1>2, <3>1
  <2> QED
    BY <2>1, <2>2
<1>3. n \in S
  <2> HIDE DEF S
  <2> QED
    BY <1>1, <1>2, SetInduction
<1>4. \E x \in T : \A y \in T : x >= y
  BY <1>3
<1> QED
  BY <1>4 DEF Max

-----------------------------------------------------------------------------
(* The pool *)

\* Front and Last take a non-empty sequence apart (the pop of the free stack).
LEMMA FrontLast ==
    ASSUME NEW S, NEW s \in Seq(S), s # <<>>
    PROVE  /\ Last(s) \in ToSet(s)
           /\ Front(s) \in Seq(S)
           /\ Len(Front(s)) = Len(s) - 1
           /\ ToSet(Front(s)) \subseteq ToSet(s)
           /\ IsInjective(s) => /\ IsInjective(Front(s))
                                /\ Last(s) \notin ToSet(Front(s))
<1>1. Len(s) \in Nat /\ Len(s) >= 1 /\ DOMAIN s = 1..Len(s)
  BY EmptySeq
<1>2. \A i \in 1..Len(s) - 1 : s[i] \in S
  BY <1>1
<1> DEFINE f == Front(s)
           n == Len(s) - 1
<1>3. n \in Nat /\ \A i \in 1..n : s[i] \in S
  BY <1>1, <1>2
<1> HIDE DEF n
<1>4. /\ SubSeq(s, 1, n) \in Seq(S)
      /\ Len(SubSeq(s, 1, n)) = n
      /\ \A i \in 1..n : SubSeq(s, 1, n)[i] = s[i]
  <2>1. /\ SubSeq(s, 1, n) \in Seq(S)
        /\ Len(SubSeq(s, 1, n)) = IF 1 <= n THEN n - 1 + 1 ELSE 0
        /\ \A i \in 1..n - 1 + 1 : SubSeq(s, 1, n)[i] = s[1 + i - 1]
    BY <1>3, SubSeqProperties
  <2>2. n - 1 + 1 = n /\ (\A i \in 1..n : 1 + i - 1 = i)
    BY <1>3
  <2>3. Len(SubSeq(s, 1, n)) = n
    BY <1>3, <2>1, <2>2
  <2>4. \A i \in 1..n : SubSeq(s, 1, n)[i] = s[i]
    BY <2>1, <2>2
  <2> QED
    BY <2>1, <2>3, <2>4
<1>5. /\ f \in Seq(S) /\ Len(f) = Len(s) - 1
      /\ \A i \in 1..Len(s) - 1 : f[i] = s[i]
  BY <1>4 DEF Front, n
<1> HIDE DEF f
<1>6. DOMAIN f = 1..Len(s) - 1
  BY <1>5
<1>7. Last(s) \in ToSet(s)
  BY <1>1 DEF Last, ToSet
<1>8. ToSet(f) \subseteq ToSet(s)
  BY <1>1, <1>5, <1>6 DEF ToSet
<1>9. ASSUME IsInjective(s) PROVE IsInjective(f) /\ Last(s) \notin ToSet(f)
  BY <1>1, <1>5, <1>6, <1>9 DEF IsInjective, ToSet, Last
<1> QED
  BY <1>5, <1>7, <1>8, <1>9 DEF f

\* Append adds one element and keeps a sequence injective when it is new (the
\* push on the free stack).
LEMMA AppendFresh ==
    ASSUME NEW S, NEW s \in Seq(S), NEW e \in S
    PROVE  /\ Append(s, e) \in Seq(S)
           /\ Len(Append(s, e)) = Len(s) + 1
           /\ ToSet(Append(s, e)) = ToSet(s) \cup {e}
           /\ IsInjective(s) /\ e \notin ToSet(s) => IsInjective(Append(s, e))
<1> DEFINE t == Append(s, e)
<1>1. /\ t \in Seq(S)
      /\ Len(t) = Len(s) + 1
      /\ \A i \in 1..Len(s) : t[i] = s[i]
      /\ t[Len(s) + 1] = e
  BY AppendProperties
<1> HIDE DEF t
<1>2. Len(s) \in Nat /\ DOMAIN s = 1..Len(s) /\ DOMAIN t = 1..Len(s) + 1
  BY <1>1
<1>3. ToSet(t) = ToSet(s) \cup {e}
  BY <1>1, <1>2 DEF ToSet
<1>4. ASSUME IsInjective(s), e \notin ToSet(s) PROVE IsInjective(t)
  BY <1>1, <1>2, <1>4 DEF IsInjective, ToSet
<1> QED
  BY <1>1, <1>3, <1>4 DEF t

\* A pool after init() is well formed and sound for a client that holds no id.
LEMMA InitIDsSound ==
    ASSUME NEW m \in Nat
    PROVE  /\ InitIDs(m) \in IDPools(m)
           /\ PoolSound(InitIDs(m), {})
BY DEF InitIDs, IDPools, PoolSound, ToSet, IsInjective

\* Without soundness, next() still returns an id below the limit and leaves a
\* well-formed pool.
LEMMA NextType ==
    ASSUME NEW m \in Nat, NEW pool \in IDPools(m), ~Exhausted(pool)
    PROVE  /\ NextID(pool) \in 0..m - 1
           /\ AfterNext(pool) \in IDPools(m)
           /\ AfterNext(pool).next >= pool.next
<1> DEFINE s == pool.stack
<1>1. /\ s \in Seq(0..m - 1) /\ pool.next \in 0..m /\ pool.max = m
      /\ pool = [next |-> pool.next, stack |-> s, max |-> m]
  BY DEF IDPools
<1>2. CASE s = <<>>
  BY <1>1, <1>2 DEF NextID, AfterNext, Exhausted, IDPools
<1>3. CASE s # <<>>
  <2>1. /\ Last(s) \in ToSet(s)
        /\ Front(s) \in Seq(0..m - 1)
    BY <1>1, <1>3, FrontLast
  <2>2. Last(s) \in 0..m - 1
    BY <1>1, <2>1 DEF ToSet
  <2>3. /\ NextID(pool) = Last(s)
        /\ AfterNext(pool) = [next |-> pool.next, stack |-> Front(s), max |-> m]
    BY <1>1, <1>3 DEF NextID, AfterNext
  <2> QED
    BY <1>1, <2>1, <2>2, <2>3 DEF IDPools
<1> QED
  BY <1>2, <1>3

\* release() of whatever number leaves a well-formed pool.
LEMMA ReleaseType ==
    ASSUME NEW m \in Nat, NEW pool \in IDPools(m), NEW id \in Nat
    PROVE  /\ AfterRelease(pool, id) \in IDPools(m)
           /\ AfterRelease(pool, id).next = pool.next
<1>1. /\ pool.stack \in Seq(0..m - 1) /\ pool.next \in 0..m
      /\ pool = [next |-> pool.next, stack |-> pool.stack, max |-> m]
  BY DEF IDPools
<1>2. CASE ~ReleaseRefused(pool, id)
  <2>1. id \in 0..m - 1
    BY <1>1, <1>2 DEF ReleaseRefused
  <2>2. Append(pool.stack, id) \in Seq(0..m - 1)
    BY <1>1, <2>1, AppendFresh
  <2> QED
    BY <1>1, <1>2, <2>2 DEF AfterRelease, IDPools
<1> QED
  BY <1>1, <1>2 DEF AfterRelease

\* A sound pool stays sound for a client that forgets ids (a leak).
LEMMA SoundForFewer ==
    ASSUME NEW pool, NEW live, NEW fewer \in SUBSET live,
           PoolSound(pool, live)
    PROVE  PoolSound(pool, fewer)
BY DEF PoolSound

\* next() hands out an id within the limit that nobody uses; afterwards the
\* pool is sound for the client that holds this id too.
LEMMA NextSound ==
    ASSUME NEW m \in Nat, NEW pool \in IDPools(m), NEW live,
           PoolSound(pool, live), ~Exhausted(pool)
    PROVE  /\ NextID(pool) \in 0..m - 1
           /\ NextID(pool) \notin live
           /\ AfterNext(pool) \in IDPools(m)
           /\ AfterNext(pool).next >= pool.next
           /\ AfterNext(pool).next - Len(AfterNext(pool).stack)
                 = pool.next - Len(pool.stack) + 1
           /\ PoolSound(AfterNext(pool), live \cup {NextID(pool)})
<1> DEFINE s == pool.stack
<1>1. /\ s \in Seq(0..m - 1) /\ Len(s) \in Nat /\ pool.next \in 0..m /\ pool.max = m
      /\ pool = [next |-> pool.next, stack |-> s, max |-> m]
  BY DEF IDPools
<1>2. CASE s = <<>>
  <2>1. /\ NextID(pool) = pool.next
        /\ AfterNext(pool) = [next |-> pool.next + 1, stack |-> <<>>, max |-> m]
        /\ pool.next < m
    BY <1>1, <1>2 DEF NextID, AfterNext, Exhausted
  <2>2. live \subseteq 0..pool.next - 1
    BY DEF PoolSound
  <2>3. PoolSound(AfterNext(pool), live \cup {NextID(pool)})
    BY <1>1, <2>1, <2>2 DEF PoolSound, ToSet, IsInjective
  <2> QED
    BY <1>1, <1>2, <2>1, <2>2, <2>3 DEF IDPools
<1>3. CASE s # <<>>
  <2>1. /\ NextID(pool) = Last(s)
        /\ AfterNext(pool) = [next |-> pool.next, stack |-> Front(s), max |-> m]
    BY <1>1, <1>3 DEF NextID, AfterNext
  <2>2. /\ Last(s) \in ToSet(s)
        /\ Front(s) \in Seq(0..m - 1)
        /\ Len(Front(s)) = Len(s) - 1
        /\ ToSet(Front(s)) \subseteq ToSet(s)
        /\ IsInjective(Front(s)) /\ Last(s) \notin ToSet(Front(s))
    BY <1>1, <1>3, FrontLast DEF PoolSound
  <2>3. /\ ToSet(s) \subseteq 0..pool.next - 1
        /\ live \subseteq 0..pool.next - 1
        /\ live \cap ToSet(s) = {}
    BY DEF PoolSound
  <2>4. PoolSound(AfterNext(pool), live \cup {NextID(pool)})
    <3>1. /\ AfterNext(pool).next = pool.next
          /\ AfterNext(pool).stack = Front(s)
      BY <2>1
    <3>2. Last(s) \in 0..pool.next - 1
      BY <2>2, <2>3
    <3>3. (live \cup {Last(s)}) \cap ToSet(Front(s)) = {}
      BY <2>2, <2>3
    <3> QED
      BY <2>1, <2>2, <2>3, <3>1, <3>2, <3>3 DEF PoolSound
  <2>5. /\ NextID(pool) \in 0..m - 1
        /\ NextID(pool) \notin live
    BY <1>1, <2>1, <2>2, <2>3
  <2>6. AfterNext(pool) \in IDPools(m)
    BY <1>1, <2>1, <2>2 DEF IDPools
  <2>7. /\ AfterNext(pool).next = pool.next
        /\ Len(AfterNext(pool).stack) = Len(s) - 1
    BY <2>1, <2>2
  <2> QED
    BY <1>1, <2>4, <2>5, <2>6, <2>7
<1> QED
  BY <1>2, <1>3

\* release() of an id in use leaves a pool sound for the client without it,
\* whether it accepts the id or refuses it.
LEMMA ReleaseSound ==
    ASSUME NEW m \in Nat, NEW pool \in IDPools(m), NEW live, NEW id \in live,
           PoolSound(pool, live)
    PROVE  /\ AfterRelease(pool, id) \in IDPools(m)
           /\ AfterRelease(pool, id).next = pool.next
           /\ Len(AfterRelease(pool, id).stack) <= Len(pool.stack) + 1
           /\ PoolSound(AfterRelease(pool, id), live \ {id})
<1> DEFINE s == pool.stack
<1>1. /\ s \in Seq(0..m - 1) /\ Len(s) \in Nat /\ pool.next \in 0..m /\ pool.max = m
      /\ pool = [next |-> pool.next, stack |-> s, max |-> m]
  BY DEF IDPools
<1>2. CASE ReleaseRefused(pool, id)
  <2>1. AfterRelease(pool, id) = pool
    BY <1>2 DEF AfterRelease
  <2>2. PoolSound(pool, live \ {id})
    BY SoundForFewer
  <2> QED
    BY <1>1, <2>1, <2>2
<1>3. CASE ~ReleaseRefused(pool, id)
  <2>1. /\ AfterRelease(pool, id)
              = [next |-> pool.next, stack |-> Append(s, id), max |-> m]
    BY <1>1, <1>3 DEF AfterRelease
  <2>2. /\ id \in 0..pool.next - 1 /\ id \in 0..m - 1
        /\ id \notin ToSet(s)
        /\ IsInjective(s)
    BY <1>1 DEF PoolSound
  <2>3. /\ Append(s, id) \in Seq(0..m - 1)
        /\ Len(Append(s, id)) = Len(s) + 1
        /\ ToSet(Append(s, id)) = ToSet(s) \cup {id}
        /\ IsInjective(Append(s, id))
    BY <1>1, <2>2, AppendFresh
  <2>4. PoolSound(AfterRelease(pool, id), live \ {id})
    BY <2>1, <2>2, <2>3 DEF PoolSound
  <2> QED
    BY <1>1, <2>1, <2>3, <2>4 DEF IDPools
<1> QED
  BY <1>2, <1>3
=============================================================================
