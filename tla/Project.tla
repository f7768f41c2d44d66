------------------------------ MODULE Project ------------------------------
(***************************************************************************)
(* One project of the C++ core (core/project.cpp) as a value: the tasks    *)
(* reachable from its AVL root, whether that root still points into the    *)
(* tree, the element counter and the pool of task ids.  The root is null   *)
(* exactly when it does not dangle and no task is reachable.               *)
(*                                                                         *)
(* The AVL tree itself is external (qwistys_avltree).  It is modelled by   *)
(* how this code uses it: insert returns the new root, or null when it     *)
(* cannot allocate; delete frees the node of the key and returns the new   *)
(* root.                                                                   *)
(***************************************************************************)
EXTENDS Integers, FiniteSets, IDs

CONSTANTS
    MaxTasks,     \* the limit of a project's id pool (4096 in the code)
    AllocFails    \* whether an allocation may fail

ASSUME MaxTasksAssumption == MaxTasks \in Nat \ {0}
ASSUME AllocFailsAssumption == AllocFails \in BOOLEAN

\* A value read from released or unset memory.  MaxTasks stands for every
\* value that is not a valid id.
Garbage == 0..MaxTasks

Projects == [tasks : SUBSET Garbage, dangling : BOOLEAN,
             count : Nat, ids : IDPools(MaxTasks)]

NewProject == [tasks |-> {}, dangling |-> FALSE, count |-> 0,
               ids |-> InitIDs(MaxTasks)]

-----------------------------------------------------------------------------
(* The external tree *)

\* The keys of a tree after  root = avlt_insert(root, key) : an equal key is
\* not inserted twice; an insertion that cannot allocate leaves the tree as
\* it was or returns a null root, and the assignment loses the old one.
InsertOutcomes(keys, key) ==
    {keys \cup {key}} \cup
    IF AllocFails /\ key \notin keys THEN {keys, {}} ELSE {}

\* What the OLD root sees after avlt_delete(root, key), its result dropped:
\* the node it points to was freed; or it is still the root; or a rotation
\* put it below the new root, which takes at least three nodes that remain.
StaleRootOutcomes(keys, key) ==
    LET rest == keys \ {key}
    IN {[tasks |-> {}, dangling |-> TRUE]} \cup
       {[tasks |-> seen, dangling |-> FALSE] :
          seen \in {r \in SUBSET rest \ {{}} :
                       r = rest \/ Cardinality(rest) >= 3}}

-----------------------------------------------------------------------------
(* The operations *)

\* Project::add with the id it puts into the task: the counter is raised
\* whatever became of the insertion.
Inserted(p, pool, id) ==
    {[p EXCEPT !.tasks = k, !.ids = pool, !.count = @ + 1] :
        k \in InsertOutcomes(p.tasks, id)}

\* When the pool is exhausted add builds an error, drops it, and goes on with
\* the value() of a result that has none.
AddResults(p) ==
    IF Exhausted(p.ids)
    THEN UNION {Inserted(p, p.ids, v) : v \in Garbage}
    ELSE Inserted(p, AfterNext(p.ids), NextID(p.ids))

\* Project::remove of a task found in the tree: the id given back is read
\* from the node after avlt_delete freed it.
RemoveResults(p, t) ==
    IF p.count = 0
    THEN {p}
    ELSE {[tasks |-> s.tasks, dangling |-> s.dangling, count |-> p.count - 1,
           ids |-> AfterRelease(p.ids, v)] :
             s \in StaleRootOutcomes(p.tasks, t), v \in Garbage}

\* Project::clean frees the tree only when root and counter are non-zero.
CleanFreesStaleRoot(p) == p.dangling /\ p.count > 0

\* Mutant: the scan stops before it looks at the last id.
ListedButLast(p) ==
    {t \in p.tasks : /\ t < p.ids.max - 1
                     /\ Cardinality({u \in p.tasks : u < t}) < p.count}

\* Project::to_vector: ids from 0 upward until count tasks were found or the
\* pool's limit is reached.
ListedTasks(p) ==
    {t \in p.tasks : /\ t < p.ids.max
                     /\ Cardinality({u \in p.tasks : u < t}) < p.count}
=============================================================================
