------------------------------- MODULE IdPool -------------------------------
(***************************************************************************)
(* The identifier pool of the Rust crate (rust/selfma/src/ids.rs): a       *)
(* counter of the ids handed out and the set of those given back, of which *)
(* the smallest is handed out first.  A context owns one for projects and  *)
(* one for tasks.                                                          *)
(***************************************************************************)
EXTENDS Integers, FiniteSetsExt

CONSTANT MaxId    \* the limit of a pool (u32::MAX in a context)

ASSUME MaxIdAssumption == MaxId \in Nat \ {0}

Ids == 0..MaxId - 1

IdPools == [next : 0..MaxId, freed : SUBSET Ids]

NewPool == [next |-> 0, freed |-> {}]

\* Mutant: the limit is tested one too late.
CanAllocateLate(pool) == pool.freed # {} \/ pool.next <= MaxId

\* allocate() succeeds ...
CanAllocate(pool) == pool.freed # {} \/ pool.next < MaxId

\* ... with this id ...
AllocatedId(pool) == IF pool.freed # {} THEN Min(pool.freed) ELSE pool.next

\* ... and leaves this pool.
AfterAllocate(pool) == IF pool.freed # {}
                       THEN [pool EXCEPT !.freed = @ \ {Min(@)}]
                       ELSE [pool EXCEPT !.next = @ + 1]

\* release() of several ids, one after the other: those never handed out and
\* those already free are refused.
AfterReleases(pool, ids) ==
    [pool EXCEPT !.freed = @ \cup {i \in ids : i < pool.next}]

\* Mutant: the highest id in use is handed out again.
ReseededLow(used) ==
    [next |-> IF used = {} THEN 0 ELSE Max(used), freed |-> {}]

\* reseed() past the ids in use, max().unwrap_or(0) + 1, cut at the limit:
\* ids below it that are not in use are forgotten.
Reseeded(used) ==
    LET top == IF used = {} THEN 0 ELSE Max(used)
    IN [next |-> Min({top + 1, MaxId}), freed |-> {}]

-----------------------------------------------------------------------------
\* Nothing in use will be handed out again, and every release of an id in use
\* is accepted.
PoolSound(pool, live) == /\ live \subseteq 0..pool.next - 1
                         /\ pool.freed \subseteq 0..pool.next - 1
                         /\ live \cap pool.freed = {}
=============================================================================
