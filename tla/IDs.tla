-------------------------------- MODULE IDs --------------------------------
(***************************************************************************)
(* The identifier pool of the C++ core (core/inc/ids_pool.h): a counter of *)
(* the ids handed out so far, a LIFO stack of the ids given back, and the  *)
(* limit of both.  A pool is a value, a record; the container holds one    *)
(* for its projects and every project holds one for its tasks.  The stack  *)
(* is the external qwistys_stack: push and pop at one end, of capacity     *)
(* max, which cannot overflow behind the test of release.                  *)
(***************************************************************************)
EXTENDS Integers, Sequences, SequencesExt

IDPools(m) == [next : 0..m, stack : Seq(0..m - 1), max : {m}]

InitIDs(m) == [next |-> 0, stack |-> <<>>, max |-> m]

\* Mutant: the limit is tested one too late.
ExhaustedLate(pool) == pool.stack = <<>> /\ pool.next > pool.max

\* next() has nothing to hand out.
Exhausted(pool) == pool.stack = <<>> /\ pool.next >= pool.max

\* The id next() returns when the pool is not exhausted ...
NextID(pool) == IF pool.stack = <<>> THEN pool.next ELSE Last(pool.stack)

\* Mutant: the id is read from the stack and not taken off it.
AfterPeek(pool) == IF pool.stack = <<>>
                   THEN [pool EXCEPT !.next = @ + 1] ELSE pool

\* ... and the pool it leaves behind.
AfterNext(pool) == IF pool.stack = <<>>
                   THEN [pool EXCEPT !.next = @ + 1]
                   ELSE [pool EXCEPT !.stack = Front(@)]

\* Mutant: the stack counts as full one id too early.
RefusedEarly(pool, id) == id >= pool.next \/ Len(pool.stack) >= pool.max - 1

\* release() refuses ids never handed out and a full stack; it does not look
\* whether the id is on the stack already.
ReleaseRefused(pool, id) == id >= pool.next \/ Len(pool.stack) >= pool.max

\* Mutant: an id is given back twice.
AfterReleaseTwice(pool, id) ==
    IF ReleaseRefused(pool, id)
    THEN pool ELSE [pool EXCEPT !.stack = @ \o <<id, id>>]

AfterRelease(pool, id) == IF ReleaseRefused(pool, id)
                          THEN pool
                          ELSE [pool EXCEPT !.stack = Append(@, id)]

-----------------------------------------------------------------------------
(* What a client relies on: with live the ids in use, nothing in use will  *)
(* be handed out again, and nothing will be handed out twice.              *)

PoolSound(pool, live) ==
    /\ live \subseteq 0..pool.next - 1
    /\ ToSet(pool.stack) \subseteq 0..pool.next - 1
    /\ live \cap ToSet(pool.stack) = {}
    /\ IsInjective(pool.stack)
=============================================================================
