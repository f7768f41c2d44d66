----------------------------- MODULE Container -----------------------------
(***************************************************************************)
(* The container of the C++ core (core/container.cpp): an AVL tree of      *)
(* projects keyed by id, the counter of its elements and the pool of       *)
(* project ids, with the projects of module Project inside.  One action    *)
(* per operation; a call that the code answers without changing anything   *)
(* (an error, "nothing to clear") is a stuttering step.                    *)
(*                                                                         *)
(* The container belongs to one thread, so an operation is one step.       *)
(***************************************************************************)
EXTENDS Project

CONSTANTS
    MaxProjects,  \* the limit of the container's id pool (4096 in the code)
    MaxCount      \* bound on a project's element counter, for model checking

ASSUME MaxProjectsAssumption == MaxProjects \in Nat \ {0}

VARIABLES
    projects,   \* _root: the projects in the tree, a function on their ids
    elements,   \* _element_counter
    ids,        \* _id
    status      \* "running"; "halted": the process ended (QWISTYS_HALT, an
                \* uncaught exception); "undefined": the code used freed
                \* memory, nothing is known of what follows

vars == <<projects, elements, ids, status>>

ProjectIds == 0..MaxProjects - 1

\* The container as its constructor leaves it.
Fresh == /\ projects' = << >>
         /\ elements' = 0
         /\ ids' = InitIDs(MaxProjects)

Init == /\ projects = << >>
        /\ elements = 0
        /\ ids = InitIDs(MaxProjects)
        /\ status = "running"

Running == status = "running"

Stop(how) == /\ Running
             /\ status' = how
             /\ UNCHANGED <<projects, elements, ids>>

-----------------------------------------------------------------------------

\* Mutant: the counter is not raised.
AddProjectUncounted ==
    /\ Running
    /\ ~Exhausted(ids)
    /\ ids' = AfterNext(ids)
    /\ \E keys \in InsertOutcomes(DOMAIN projects, NextID(ids)) :
          projects' = [i \in keys |-> IF i = NextID(ids)
                                      THEN NewProject ELSE projects[i]]
    /\ UNCHANGED <<elements, status>>

\* Mutant: an insertion that fails gives its id back.
AddProjectReturnsId ==
    /\ Running
    /\ ~Exhausted(ids)
    /\ \E keys \in InsertOutcomes(DOMAIN projects, NextID(ids)) :
          /\ projects' = [i \in keys |-> IF i = NextID(ids)
                                         THEN NewProject ELSE projects[i]]
          /\ IF NextID(ids) \in keys
             THEN elements' = elements + 1 /\ ids' = AfterNext(ids)
             ELSE UNCHANGED <<elements, ids>>
    /\ UNCHANGED status

\* The id is taken first and is not given back when the insertion fails.
AddProject ==
    /\ Running
    /\ ~Exhausted(ids)
    /\ ids' = AfterNext(ids)
    /\ \E keys \in InsertOutcomes(DOMAIN projects, NextID(ids)) :
          /\ projects' = [i \in keys |-> IF i = NextID(ids)
                                         THEN NewProject ELSE projects[i]]
          /\ elements' = IF NextID(ids) \in keys THEN elements + 1 ELSE elements
    /\ UNCHANGED status

\* The new project's own id pool cannot be allocated.
AddProjectHalts == /\ ~Exhausted(ids)
                   /\ AllocFails
                   /\ Stop("halted")

\* Mutant: the counter is not lowered.
RemoveProjectStillCounted(i) ==
    /\ Running
    /\ i \in DOMAIN projects
    /\ LET rest == DOMAIN projects \ {i}
       IN /\ projects' = [k \in rest |-> projects[k]]
          /\ ids' = AfterRelease(ids, i)
    /\ UNCHANGED <<elements, status>>

\* Only a removal that leaves projects behind gives the id back.
RemoveProject(i) ==
    /\ Running
    /\ i \in DOMAIN projects
    /\ elements # 0
    /\ ~CleanFreesStaleRoot(projects[i])
    /\ LET rest == DOMAIN projects \ {i}
       IN /\ projects' = [k \in rest |-> projects[k]]
          /\ IF rest # {}
             THEN ids' = AfterRelease(ids, i) /\ elements' = elements - 1
             ELSE elements' = 0 /\ UNCHANGED ids
    /\ UNCHANGED status

RemoveProjectUndefined(i) == /\ i \in DOMAIN projects
                             /\ elements # 0
                             /\ CleanFreesStaleRoot(projects[i])
                             /\ Stop("undefined")

AddTask(i) ==
    /\ Running
    /\ i \in DOMAIN projects
    /\ ~projects[i].dangling
    /\ projects[i].count < MaxCount
    /\ \E p \in AddResults(projects[i]) : projects' = [projects EXCEPT ![i] = p]
    /\ UNCHANGED <<elements, ids, status>>

\* value() of the dropped error may throw.
AddTaskHalts(i) == /\ i \in DOMAIN projects
                   /\ Exhausted(projects[i].ids)
                   /\ Stop("halted")

RemoveTask(i, t) ==
    /\ Running
    /\ i \in DOMAIN projects
    /\ ~projects[i].dangling
    /\ t \in projects[i].tasks
    /\ \E p \in RemoveResults(projects[i], t) :
          projects' = [projects EXCEPT ![i] = p]
    /\ UNCHANGED <<elements, ids, status>>

\* add, get_task, remove, to_vector, print and the update that walks every
\* project all dereference the project's root.
UseStaleRoot == /\ \E i \in DOMAIN projects : projects[i].dangling
                /\ Stop("undefined")

\* The destructor, then a new container: what loading a file does, and a
\* client that destroys and creates the object.
Recreate ==
    /\ Running
    /\ \A i \in DOMAIN projects : ~CleanFreesStaleRoot(projects[i])
    /\ Fresh
    /\ UNCHANGED status

RecreateUndefined ==
    /\ \E i \in DOMAIN projects : CleanFreesStaleRoot(projects[i])
    /\ Stop("undefined")

Next ==
    \/ AddProject
    \/ AddProjectHalts
    \/ \E i \in ProjectIds :
          \/ RemoveProject(i)
          \/ RemoveProjectUndefined(i)
          \/ AddTask(i)
          \/ AddTaskHalts(i)
          \/ \E t \in Garbage : RemoveTask(i, t)
    \/ UseStaleRoot
    \/ Recreate
    \/ RecreateUndefined

Spec == Init /\ [][Next]_vars

-----------------------------------------------------------------------------
\* Container::to_vector: ids from 0 upward until elements projects were found
\* or the pool's limit is reached.
ListedProjects ==
    {i \in DOMAIN projects :
        /\ i < ids.max
        /\ Cardinality({k \in DOMAIN projects : k < i}) < elements}

(* Properties *)

\* Every variable stays in its type; the tree's keys are valid ids.
TypeOK == /\ DOMAIN projects \subseteq ProjectIds
          /\ projects \in [DOMAIN projects -> Projects]
          /\ elements \in Nat
          /\ ids \in IDPools(MaxProjects)
          /\ status \in {"running", "halted", "undefined"}

\* add_project never gives a new project the id of one in the tree and never
\* has one id in two places of the free stack, although release() itself
\* accepts an id that was released before (ids_pool.h:35-45).
ProjectIdsSound == PoolSound(ids, DOMAIN projects)

\* The release in remove_project, whose result is ignored (container.cpp:138),
\* is never refused: no id is lost there unnoticed.
ReleaseAccepted == \A i \in DOMAIN projects : ~ReleaseRefused(ids, i)

\* The element counter never passes the number of ids handed out and not
\* given back, though failed insertions and removals of the last project
\* change the two at different times (container.cpp:120, 138-142).
CounterWithinIds == elements + Len(ids.stack) <= ids.next

\* to_vector lists every project of the tree, although it stops as soon as it
\* found as many as the counter says (container.cpp:54-71).
ProjectsListed == ListedProjects = DOMAIN projects

\* Project::to_vector lists every task reachable from the root whose id is
\* below the limit, in spite of the counter that is raised and lowered apart
\* from the tree (project.cpp:97-99, 112-129, 154-155).
TasksListed == \A i \in DOMAIN projects :
                  ListedTasks(projects[i]) =
                     {t \in projects[i].tasks : t < MaxTasks}

\* A project that stays in the tree is never constructed anew over its own
\* memory (container.cpp:115): its pool would start again from 0.
NeverConstructedTwice ==
    [][\A i \in DOMAIN projects \cap DOMAIN projects' :
          projects[i].ids.next <= projects'[i].ids.next]_vars

-----------------------------------------------------------------------------
(* What the documentation says and the code does not do *)

\* The pool reports "All IDs have been allocated" (ids_pool.h:51) only when
\* every id belongs to a project.
ExhaustedOnlyWhenFull ==
    Exhausted(ids) => DOMAIN projects = ProjectIds

\* README.md:11: tasks have unique ids; the next id is not that of a task in
\* the tree.
TaskIdsUnique ==
    \A i \in DOMAIN projects :
        LET p == projects[i]
        IN ~Exhausted(p.ids) => NextID(p.ids) \notin p.tasks
=============================================================================
