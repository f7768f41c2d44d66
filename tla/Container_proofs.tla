-------------------------- MODULE Container_proofs --------------------------
(***************************************************************************)
(* Theorems about Container, for every number of projects and tasks and    *)
(* whether or not allocations fail.                                        *)
(***************************************************************************)
EXTENDS Container, IDs_proofs, FiniteSetTheorems

\* The counter of the container and those of the projects are never below the
\* number of elements in their trees: the part of the inductive invariant that
\* to_vector and the release in remove_project rest on.
CountersCover ==
    /\ Cardinality(DOMAIN projects) <= elements
    /\ \A i \in DOMAIN projects :
          Cardinality(projects[i].tasks) <= projects[i].count

IInv == /\ TypeOK
        /\ ProjectIdsSound
        /\ CounterWithinIds
        /\ CountersCover

-----------------------------------------------------------------------------
(* The operations of a project *)

\* A set of task ids is finite.
LEMMA TasksFinite ==
    ASSUME NEW S \in SUBSET Garbage
    PROVE  /\ IsFiniteSet(S)
           /\ Cardinality(S) \in Nat
<1>1. MaxTasks \in Nat
  BY MaxTasksAssumption
<1>2. IsFiniteSet(Garbage)
  BY <1>1, FS_Interval DEF Garbage
<1>3. IsFiniteSet(S)
  BY <1>2, FS_Subset
<1> QED
  BY <1>3, FS_CardinalityType

\* avlt_insert adds at most the new key, whatever comes of it.
LEMMA InsertAdds ==
    ASSUME NEW S, NEW key, NEW keys \in InsertOutcomes(S, key)
    PROVE  keys \subseteq S \cup {key}
BY DEF InsertOutcomes

\* A new project is well formed and its counter covers its tree.
LEMMA NewProjectType ==
    /\ NewProject \in Projects
    /\ Cardinality(NewProject.tasks) <= NewProject.count
<1>1. InitIDs(MaxTasks) \in IDPools(MaxTasks)
  BY MaxTasksAssumption, InitIDsSound
<1>2. Cardinality({}) = 0
  BY FS_EmptySet
<1> QED
  BY <1>1, <1>2 DEF NewProject, Projects

\* Whatever id the new task has, the project stays well formed and its counter
\* keeps covering the tree.
LEMMA InsertedType ==
    ASSUME NEW p \in Projects, NEW pool \in IDPools(MaxTasks),
           NEW id \in Garbage, NEW q \in Inserted(p, pool, id),
           Cardinality(p.tasks) <= p.count
    PROVE  /\ q \in Projects
           /\ q.ids = pool
           /\ Cardinality(q.tasks) <= q.count
<1>1. PICK k \in InsertOutcomes(p.tasks, id) :
         q = [p EXCEPT !.tasks = k, !.ids = pool, !.count = @ + 1]
  BY DEF Inserted
<1>2. /\ p.tasks \in SUBSET Garbage /\ p.dangling \in BOOLEAN /\ p.count \in Nat
      /\ p = [tasks |-> p.tasks, dangling |-> p.dangling, count |-> p.count,
              ids |-> p.ids]
  BY DEF Projects
<1>3. q = [tasks |-> k, dangling |-> p.dangling, count |-> p.count + 1,
           ids |-> pool]
  BY <1>1, <1>2
<1>4. k \subseteq p.tasks \cup {id}
  BY InsertAdds
<1>5. /\ IsFiniteSet(p.tasks) /\ Cardinality(p.tasks) \in Nat
      /\ k \in SUBSET Garbage /\ Cardinality(k) \in Nat
  BY <1>2, <1>4, TasksFinite
<1>6. /\ IsFiniteSet(p.tasks \cup {id})
      /\ Cardinality(p.tasks \cup {id}) <= Cardinality(p.tasks) + 1
      /\ Cardinality(p.tasks \cup {id}) \in Nat
  <2>1. PICK c \in Nat : c = Cardinality(p.tasks)
    BY <1>5
  <2>2. /\ IsFiniteSet(p.tasks \cup {id})
        /\ Cardinality(p.tasks \cup {id}) = IF id \in p.tasks THEN c ELSE c + 1
    BY <1>5, <2>1, FS_AddElement
  <2> QED
    BY <2>1, <2>2
<1>7. Cardinality(k) <= Cardinality(p.tasks \cup {id})
  BY <1>4, <1>6, FS_Subset
<1>8. Cardinality(k) <= p.count + 1
  BY <1>2, <1>5, <1>6, <1>7
<1> QED
  BY <1>2, <1>3, <1>5, <1>8 DEF Projects

\* Project::add
LEMMA AddResultsType ==
    ASSUME NEW p \in Projects, NEW q \in AddResults(p),
           Cardinality(p.tasks) <= p.count
    PROVE  /\ q \in Projects
           /\ q.ids.next >= p.ids.next
           /\ Cardinality(q.tasks) <= q.count
<1>1. MaxTasks \in Nat /\ p.ids \in IDPools(MaxTasks)
  BY MaxTasksAssumption DEF Projects
<1>2. p.ids.next \in Nat
  BY <1>1 DEF IDPools
<1>3. CASE Exhausted(p.ids)
  <2>1. PICK v \in Garbage : q \in Inserted(p, p.ids, v)
    BY <1>3 DEF AddResults
  <2> QED
    BY <1>1, <1>2, <2>1, InsertedType
<1>4. CASE ~Exhausted(p.ids)
  <2>1. /\ NextID(p.ids) \in Garbage
        /\ AfterNext(p.ids) \in IDPools(MaxTasks)
        /\ AfterNext(p.ids).next >= p.ids.next
    BY <1>1, <1>4, NextType DEF Garbage
  <2>2. q \in Inserted(p, AfterNext(p.ids), NextID(p.ids))
    BY <1>4 DEF AddResults
  <2> QED
    BY <2>1, <2>2, InsertedType
<1> QED
  BY <1>3, <1>4

\* Project::remove of a task found in the tree: what the old root sees has
\* lost at least that task.
LEMMA RemoveResultsType ==
    ASSUME NEW p \in Projects, NEW t \in p.tasks, NEW q \in RemoveResults(p, t),
           Cardinality(p.tasks) <= p.count
    PROVE  /\ q \in Projects
           /\ q.ids.next >= p.ids.next
           /\ Cardinality(q.tasks) <= q.count
<1>1. /\ MaxTasks \in Nat /\ p.ids \in IDPools(MaxTasks)
      /\ p.tasks \in SUBSET Garbage /\ p.count \in Nat
  BY MaxTasksAssumption DEF Projects
<1>2. p.ids.next \in Nat
  BY <1>1 DEF IDPools
<1>3. /\ IsFiniteSet(p.tasks) /\ Cardinality(p.tasks) \in Nat
      /\ IsFiniteSet(p.tasks \ {t})
      /\ Cardinality(p.tasks \ {t}) = Cardinality(p.tasks) - 1
      /\ Cardinality(p.tasks \ {t}) \in Nat
  BY <1>1, TasksFinite, FS_RemoveElement
<1>4. p.count # 0
  BY <1>1, <1>3
<1>5. PICK s \in StaleRootOutcomes(p.tasks, t), v \in Garbage :
         q = [tasks |-> s.tasks, dangling |-> s.dangling,
              count |-> p.count - 1, ids |-> AfterRelease(p.ids, v)]
  BY <1>4 DEF RemoveResults
<1>6. s.tasks \subseteq p.tasks \ {t} /\ s.dangling \in BOOLEAN
  <2>1. CASE s = [tasks |-> {}, dangling |-> TRUE]
    BY <2>1
  <2>2. CASE \E seen \in SUBSET (p.tasks \ {t}) :
                 s = [tasks |-> seen, dangling |-> FALSE]
    BY <2>2
  <2> QED
    BY <1>5, <2>1, <2>2 DEF StaleRootOutcomes
<1>7. Cardinality(s.tasks) <= Cardinality(p.tasks \ {t})
  BY <1>3, <1>6, FS_Subset
<1>8. s.tasks \in SUBSET Garbage /\ Cardinality(s.tasks) \in Nat
  BY <1>1, <1>6, TasksFinite
<1>9. /\ AfterRelease(p.ids, v) \in IDPools(MaxTasks)
      /\ AfterRelease(p.ids, v).next = p.ids.next
  <2>1. v \in Nat
    BY <1>1 DEF Garbage
  <2> QED
    BY <1>1, <2>1, ReleaseType
<1>10. Cardinality(s.tasks) <= p.count - 1 /\ p.count - 1 \in Nat
  BY <1>1, <1>3, <1>4, <1>7, <1>8
<1> QED
  BY <1>2, <1>5, <1>6, <1>8, <1>9, <1>10 DEF Projects

-----------------------------------------------------------------------------
(* The inductive invariant *)

\* A finite tree: its keys are among finitely many ids.
LEMMA ProjectIdsFinite ==
    ASSUME NEW S \in SUBSET ProjectIds
    PROVE  /\ IsFiniteSet(S)
           /\ Cardinality(S) \in Nat
           /\ S # {} => Cardinality(S) >= 1
<1>1. MaxProjects - 1 \in Int
  BY MaxProjectsAssumption
<1>2. IsFiniteSet(ProjectIds)
  BY <1>1, FS_Interval DEF ProjectIds
<1>3. IsFiniteSet(S) /\ Cardinality(S) \in Nat
  BY <1>2, FS_Subset, FS_CardinalityType
<1> QED
  BY <1>3, FS_EmptySet

\* The container as constructed satisfies the invariant.
LEMMA FreshInv ==
    ASSUME NEW P, NEW E, NEW I, P = << >>, E = 0, I = InitIDs(MaxProjects)
    PROVE  /\ DOMAIN P = {}
           /\ P \in [DOMAIN P -> Projects]
           /\ I \in IDPools(MaxProjects)
           /\ PoolSound(I, DOMAIN P)
           /\ E + Len(I.stack) <= I.next
           /\ Cardinality(DOMAIN P) <= E
<1>1. DOMAIN P = {} /\ P \in [DOMAIN P -> Projects]
  OBVIOUS
<1>2. I \in IDPools(MaxProjects) /\ PoolSound(I, {})
  BY MaxProjectsAssumption, InitIDsSound
<1>3. E + Len(I.stack) <= I.next
  BY DEF InitIDs
<1>4. Cardinality({}) = 0
  BY FS_EmptySet
<1> QED
  BY <1>1, <1>2, <1>3, <1>4

\* Holds initially.
LEMMA InitInv == Init => IInv
<1> SUFFICES ASSUME Init PROVE IInv
  OBVIOUS
<1>1. /\ DOMAIN projects = {}
      /\ projects \in [DOMAIN projects -> Projects]
      /\ ids \in IDPools(MaxProjects)
      /\ PoolSound(ids, DOMAIN projects)
      /\ elements + Len(ids.stack) <= ids.next
      /\ Cardinality(DOMAIN projects) <= elements
  BY FreshInv DEF Init
<1> QED
  BY <1>1 DEF Init, IInv, TypeOK, ProjectIdsSound, CounterWithinIds,
              CountersCover

\* add_project keeps the invariant: the id it takes is unused, and the counter
\* rises with the ids handed out.
LEMMA AddProjectInv == IInv /\ AddProject => IInv'
<1> SUFFICES ASSUME IInv, AddProject PROVE IInv'
  OBVIOUS
<1> USE DEF IInv, TypeOK
<1> DEFINE id == NextID(ids)
<1>1. PICK keys \in InsertOutcomes(DOMAIN projects, id) :
         /\ projects' = [i \in keys |-> IF i = id THEN NewProject
                                                  ELSE projects[i]]
         /\ elements' = IF id \in keys THEN elements + 1 ELSE elements
  BY DEF AddProject
<1>2. /\ ~Exhausted(ids) /\ ids' = AfterNext(ids) /\ status' = status
      /\ MaxProjects \in Nat
  BY MaxProjectsAssumption DEF AddProject
<1>3. /\ id \in ProjectIds
      /\ id \notin DOMAIN projects
      /\ ids' \in IDPools(MaxProjects)
      /\ ids'.next - Len(ids'.stack) = ids.next - Len(ids.stack) + 1
      /\ PoolSound(ids', DOMAIN projects \cup {id})
  BY <1>2, NextSound DEF ProjectIdsSound, ProjectIds
<1>4. keys \subseteq DOMAIN projects \cup {id} /\ DOMAIN projects' = keys
  BY <1>1, InsertAdds
<1>5. TypeOK'
  <2>1. projects' \in [keys -> Projects]
    BY <1>1, <1>4, NewProjectType
  <2> QED
    BY <1>1, <1>2, <1>3, <1>4, <2>1
<1>6. ProjectIdsSound'
  BY <1>3, <1>4, SoundForFewer DEF ProjectIdsSound
<1>7. CounterWithinIds'
  <2>1. /\ Len(ids.stack) \in Nat /\ Len(ids'.stack) \in Nat
        /\ ids.next \in Nat /\ ids'.next \in Nat
    BY <1>2, <1>3 DEF IDPools
  <2>2. elements' <= elements + 1 /\ elements' \in Nat
    BY <1>1
  <2>3. PICK n \in Nat, s \in Nat, n2 \in Nat, s2 \in Nat, e \in Nat, e2 \in Nat :
           /\ n = ids.next /\ s = Len(ids.stack) /\ e = elements
           /\ n2 = ids'.next /\ s2 = Len(ids'.stack) /\ e2 = elements'
    BY <2>1, <2>2
  <2>4. e <= n - s /\ n2 - s2 = n - s + 1 /\ e2 <= e + 1
    BY <1>3, <2>2, <2>3 DEF CounterWithinIds
  <2>5. e2 <= n2 - s2
    BY <2>4
  <2> QED
    BY <2>3, <2>5 DEF CounterWithinIds
<1>8. CountersCover'
  <2>1. Cardinality(keys) <= elements'
    <3>1. CASE id \in keys
      <4>1. /\ IsFiniteSet(DOMAIN projects \cup {id})
            /\ Cardinality(DOMAIN projects \cup {id})
                  = Cardinality(DOMAIN projects) + 1
        BY <1>3, ProjectIdsFinite, FS_AddElement
      <4>2. Cardinality(keys) <= Cardinality(DOMAIN projects \cup {id})
        BY <1>4, <4>1, FS_Subset
      <4>3. Cardinality(keys) \in Nat /\ Cardinality(DOMAIN projects) \in Nat
        BY <1>3, <1>4, ProjectIdsFinite
      <4> QED
        BY <1>1, <3>1, <4>1, <4>2, <4>3 DEF CountersCover
    <3>2. CASE id \notin keys
      <4>1. keys \subseteq DOMAIN projects
        BY <1>4, <3>2
      <4>2. Cardinality(keys) <= Cardinality(DOMAIN projects)
        BY <4>1, ProjectIdsFinite, FS_Subset
      <4>3. Cardinality(keys) \in Nat /\ Cardinality(DOMAIN projects) \in Nat
        BY <4>1, ProjectIdsFinite
      <4> QED
        BY <1>1, <3>2, <4>2, <4>3 DEF CountersCover
    <3> QED
      BY <3>1, <3>2
  <2>2. ASSUME NEW i \in keys
        PROVE  Cardinality(projects'[i].tasks) <= projects'[i].count
    <3>1. CASE i = id
      BY <1>1, <3>1, NewProjectType
    <3>2. CASE i # id
      BY <1>1, <1>4, <3>2 DEF CountersCover
    <3> QED
      BY <3>1, <3>2
  <2> QED
    BY <1>4, <2>1, <2>2 DEF CountersCover
<1> QED
  BY <1>5, <1>6, <1>7, <1>8

\* remove_project keeps the invariant: the id given back was in use.
LEMMA RemoveProjectInv ==
    ASSUME NEW i \in ProjectIds, IInv, RemoveProject(i) PROVE IInv'
<1> USE DEF IInv, TypeOK
<1> DEFINE rest == DOMAIN projects \ {i}
<1>1. /\ i \in DOMAIN projects /\ elements # 0 /\ status' = status
      /\ projects' = [k \in rest |-> projects[k]]
      /\ IF rest # {}
         THEN ids' = AfterRelease(ids, i) /\ elements' = elements - 1
         ELSE elements' = 0 /\ ids' = ids
      /\ MaxProjects \in Nat
  BY MaxProjectsAssumption DEF RemoveProject
<1>2. /\ DOMAIN projects' = rest
      /\ projects' \in [rest -> Projects]
      /\ \A k \in rest : projects'[k] = projects[k]
  BY <1>1
<1>3. /\ AfterRelease(ids, i) \in IDPools(MaxProjects)
      /\ AfterRelease(ids, i).next = ids.next
      /\ Len(AfterRelease(ids, i).stack) <= Len(ids.stack) + 1
      /\ PoolSound(AfterRelease(ids, i), rest)
  BY <1>1, ReleaseSound DEF ProjectIdsSound
<1>4. PoolSound(ids, rest)
  BY SoundForFewer DEF ProjectIdsSound
<1>5. /\ Len(ids.stack) \in Nat /\ Len(AfterRelease(ids, i).stack) \in Nat
      /\ ids.next \in Nat
  BY <1>1, <1>3 DEF IDPools
<1>6. /\ Cardinality(rest) = Cardinality(DOMAIN projects) - 1
      /\ Cardinality(rest) \in Nat
      /\ rest = {} => Cardinality(rest) = 0
  <2>1. IsFiniteSet(DOMAIN projects)
    BY ProjectIdsFinite
  <2> QED
    BY <1>1, <2>1, ProjectIdsFinite, FS_RemoveElement, FS_EmptySet
<1>7. TypeOK'
  BY <1>1, <1>2, <1>3
<1>8. ProjectIdsSound'
  BY <1>1, <1>2, <1>3, <1>4 DEF ProjectIdsSound
<1>9. CounterWithinIds'
  <2>1. PICK n \in Nat, s \in Nat, s2 \in Nat, e \in Nat :
           /\ n = ids.next /\ s = Len(ids.stack) /\ e = elements
           /\ s2 = Len(AfterRelease(ids, i).stack)
    BY <1>5
  <2>2. e <= n - s /\ e # 0 /\ s2 <= s + 1
    BY <1>1, <1>3, <2>1 DEF CounterWithinIds
  <2>3. e - 1 <= n - s2 /\ 0 <= n - s
    BY <2>2
  <2>4. CASE rest # {}
    BY <1>1, <1>3, <2>1, <2>3, <2>4 DEF CounterWithinIds
  <2>5. CASE rest = {}
    BY <1>1, <2>1, <2>3, <2>5 DEF CounterWithinIds
  <2> QED
    BY <2>4, <2>5
<1>10. CountersCover'
  <2>1. Cardinality(rest) <= elements'
    <3>1. /\ Cardinality(rest) <= elements - 1
          /\ elements \in Nat
      <4>1. Cardinality(DOMAIN projects) \in Nat
        BY ProjectIdsFinite
      <4> QED
        BY <1>6, <4>1 DEF CountersCover
    <3> HIDE DEF rest
    <3> QED
      BY <1>1, <1>6, <3>1
  <2> QED
    BY <1>2, <2>1 DEF CountersCover
<1> QED
  BY <1>7, <1>8, <1>9, <1>10

\* An operation on the tasks of one project keeps the invariant.
LEMMA TaskStepInv ==
    ASSUME NEW i \in DOMAIN projects, NEW p \in Projects, IInv,
           projects' = [projects EXCEPT ![i] = p],
           UNCHANGED <<elements, ids, status>>,
           Cardinality(p.tasks) <= p.count
    PROVE  IInv'
<1> USE DEF IInv, TypeOK
<1>1. /\ DOMAIN projects' = DOMAIN projects
      /\ projects' \in [DOMAIN projects -> Projects]
  OBVIOUS
<1>2. TypeOK' /\ ProjectIdsSound' /\ CounterWithinIds'
  BY <1>1 DEF ProjectIdsSound, CounterWithinIds
<1>3. CountersCover'
  BY <1>1 DEF CountersCover
<1> QED
  BY <1>2, <1>3

\* Every step keeps the invariant.
LEMMA NextInv == IInv /\ [Next]_vars => IInv'
<1> SUFFICES ASSUME IInv, [Next]_vars PROVE IInv'
  OBVIOUS
<1>1. CASE AddProject
  BY <1>1, AddProjectInv
<1>2. ASSUME NEW i \in ProjectIds, RemoveProject(i) PROVE IInv'
  BY <1>2, RemoveProjectInv
<1>3. ASSUME NEW i \in ProjectIds, AddTask(i) PROVE IInv'
  <2>1. i \in DOMAIN projects /\ projects[i] \in Projects
    BY <1>3 DEF AddTask, IInv, TypeOK
  <2>2. PICK p \in AddResults(projects[i]) :
           projects' = [projects EXCEPT ![i] = p]
    BY <1>3 DEF AddTask
  <2>3. p \in Projects /\ Cardinality(p.tasks) <= p.count
    BY <2>1, AddResultsType DEF IInv, CountersCover
  <2> QED
    BY <1>3, <2>1, <2>2, <2>3, TaskStepInv DEF AddTask
<1>4. ASSUME NEW i \in ProjectIds, NEW t \in Garbage, RemoveTask(i, t)
      PROVE  IInv'
  <2>1. /\ i \in DOMAIN projects /\ projects[i] \in Projects
        /\ t \in projects[i].tasks
    BY <1>4 DEF RemoveTask, IInv, TypeOK
  <2>2. PICK p \in RemoveResults(projects[i], t) :
           projects' = [projects EXCEPT ![i] = p]
    BY <1>4 DEF RemoveTask
  <2>3. p \in Projects /\ Cardinality(p.tasks) <= p.count
    BY <2>1, RemoveResultsType DEF IInv, CountersCover
  <2> QED
    BY <1>4, <2>1, <2>2, <2>3, TaskStepInv DEF RemoveTask
<1>5. CASE Recreate
  <2>1. /\ projects' = << >> /\ elements' = 0 /\ ids' = InitIDs(MaxProjects)
        /\ status' = status
    BY <1>5 DEF Recreate, Fresh
  <2>2. /\ DOMAIN projects' = {}
        /\ projects' \in [DOMAIN projects' -> Projects]
        /\ ids' \in IDPools(MaxProjects)
        /\ PoolSound(ids', DOMAIN projects')
        /\ elements' + Len(ids'.stack) <= ids'.next
        /\ Cardinality(DOMAIN projects') <= elements'
    BY <2>1, FreshInv
  <2> QED
    BY <2>1, <2>2 DEF IInv, TypeOK, ProjectIdsSound, CounterWithinIds,
                      CountersCover
<1>6. ASSUME UNCHANGED <<projects, elements, ids>>,
             status' \in {"running", "halted", "undefined"}
      PROVE  IInv'
  BY <1>6 DEF IInv, TypeOK, ProjectIdsSound, CounterWithinIds, CountersCover
<1>7. CASE UNCHANGED vars
  BY <1>6, <1>7 DEF vars, IInv, TypeOK
<1>8. CASE AddProjectHalts \/ UseStaleRoot \/ RecreateUndefined
  BY <1>6, <1>8 DEF AddProjectHalts, UseStaleRoot, RecreateUndefined, Stop
<1>9. ASSUME NEW i \in ProjectIds, RemoveProjectUndefined(i) \/ AddTaskHalts(i)
      PROVE  IInv'
  BY <1>6, <1>9 DEF RemoveProjectUndefined, AddTaskHalts, Stop
<1> QED
  BY <1>1, <1>2, <1>3, <1>4, <1>5, <1>7, <1>8, <1>9 DEF Next

\* The inductive invariant holds in every reachable state.
THEOREM Invariance == Spec => []IInv
BY InitInv, NextInv, PTL DEF Spec

-----------------------------------------------------------------------------
(* What it gives *)

\* Every variable stays in its type, whatever garbage the task pools are fed.
THEOREM TypeCorrect == Spec => []TypeOK
<1>1. IInv => TypeOK
  BY DEF IInv
<1> QED
  BY <1>1, Invariance, PTL

\* No project is given the id of another one, for any number of projects.
THEOREM ProjectIdsStaySound == Spec => []ProjectIdsSound
<1>1. IInv => ProjectIdsSound
  BY DEF IInv
<1> QED
  BY <1>1, Invariance, PTL

\* The element counter never passes the number of ids in use or lost.
THEOREM CounterStaysWithinIds == Spec => []CounterWithinIds
<1>1. IInv => CounterWithinIds
  BY DEF IInv
<1> QED
  BY <1>1, Invariance, PTL

\* The release in remove_project is never refused: as long as a project is in
\* the tree the counter is positive, so the stack is not full.
THEOREM ReleaseIsAccepted == Spec => []ReleaseAccepted
<1>1. IInv => ReleaseAccepted
  <2> SUFFICES ASSUME IInv, NEW i \in DOMAIN projects
               PROVE  ~ReleaseRefused(ids, i)
    BY DEF ReleaseAccepted
  <2>1. i \in 0..ids.next - 1
    BY DEF IInv, ProjectIdsSound, PoolSound
  <2>2. Cardinality(DOMAIN projects) >= 1 /\ Cardinality(DOMAIN projects) \in Nat
    BY ProjectIdsFinite DEF IInv, TypeOK
  <2>3. elements >= 1 /\ elements \in Nat
    BY <2>2 DEF IInv, TypeOK, CountersCover
  <2>4. /\ ids.next \in 0..MaxProjects /\ ids.max = MaxProjects
        /\ Len(ids.stack) \in Nat /\ MaxProjects \in Nat
    BY MaxProjectsAssumption DEF IInv, TypeOK, IDPools
  <2>5. elements + Len(ids.stack) <= ids.next
    BY DEF IInv, CounterWithinIds
  <2> QED
    BY <2>1, <2>3, <2>4, <2>5 DEF ReleaseRefused
<1> QED
  BY <1>1, Invariance, PTL

\* The invariant is enough for to_vector to find every project.
LEMMA InvListsProjects == IInv => ProjectsListed
<1> SUFFICES ASSUME IInv, NEW i \in DOMAIN projects
             PROVE  /\ i < ids.max
                    /\ Cardinality({k \in DOMAIN projects : k < i}) < elements
  BY DEF ProjectsListed, ListedProjects
<1> DEFINE below == {k \in DOMAIN projects : k < i}
<1>1. DOMAIN projects \in SUBSET ProjectIds /\ elements \in Nat
  BY DEF IInv, TypeOK
<1>2. i \in 0..MaxProjects - 1 /\ ids.max = MaxProjects
  BY <1>1 DEF ProjectIds, IInv, TypeOK, IDPools
<1>3. below \in SUBSET DOMAIN projects /\ i \notin below
  BY <1>2
<1>4. /\ IsFiniteSet(DOMAIN projects)
      /\ Cardinality(DOMAIN projects) \in Nat
      /\ Cardinality(below) \in Nat
  BY <1>1, <1>3, ProjectIdsFinite
<1>5. /\ Cardinality(below) <= Cardinality(DOMAIN projects)
      /\ Cardinality(DOMAIN projects) # Cardinality(below)
  BY <1>3, <1>4, FS_Subset
<1>6. Cardinality(below) < elements
  BY <1>1, <1>4, <1>5 DEF IInv, CountersCover
<1> QED
  BY <1>2, <1>6, MaxProjectsAssumption

\* to_vector never leaves out a project: the ids below that of a project are
\* fewer than the tree has elements, hence fewer than the counter says.
THEOREM ProjectsAreListed == Spec => []ProjectsListed
BY InvListsProjects, Invariance, PTL

\* to_vector of a project meets every task with a valid id.
LEMMA InvListsTasks == IInv => TasksListed
<1> SUFFICES ASSUME IInv, NEW i \in DOMAIN projects
             PROVE  ListedTasks(projects[i])
                       = {t \in projects[i].tasks : t < MaxTasks}
  BY DEF TasksListed
<1> DEFINE p == projects[i]
<1>1. /\ p \in Projects
      /\ Cardinality(p.tasks) <= p.count
  BY DEF IInv, TypeOK, CountersCover
<1>2. /\ p.tasks \in SUBSET Garbage /\ p.count \in Nat
      /\ p.ids.max = MaxTasks
  BY <1>1 DEF Projects, IDPools
<1> HIDE DEF p
<1>3. ASSUME NEW t \in p.tasks
      PROVE  Cardinality({u \in p.tasks : u < t}) < p.count
  <2> DEFINE below == {u \in p.tasks : u < t}
  <2>1. t \in Nat
    BY <1>2, MaxTasksAssumption DEF Garbage
  <2>2. below \in SUBSET p.tasks /\ t \notin below
    BY <2>1
  <2>3. /\ IsFiniteSet(p.tasks) /\ Cardinality(p.tasks) \in Nat
        /\ Cardinality(below) \in Nat
    BY <1>2, <2>2, TasksFinite
  <2>4. /\ Cardinality(below) <= Cardinality(p.tasks)
        /\ Cardinality(p.tasks) # Cardinality(below)
    BY <2>2, <2>3, FS_Subset
  <2> HIDE DEF below
  <2>5. Cardinality(below) < p.count
    BY <1>1, <1>2, <2>3, <2>4
  <2> QED
    BY <2>5 DEF below
<1>4. ListedTasks(p) = {t \in p.tasks : t < MaxTasks}
  BY <1>2, <1>3 DEF ListedTasks
<1> QED
  BY <1>4 DEF p

\* Project::to_vector leaves out no reachable task with a valid id, although
\* the ids of tasks may be garbage and the counter drifts from the tree.
THEOREM TasksAreListed == Spec => []TasksListed
BY InvListsTasks, Invariance, PTL

\* No step constructs a project anew over one that stays in the tree.
THEOREM NoProjectConstructedTwice == Spec => NeverConstructedTwice
<1> DEFINE Kept == \A i \in DOMAIN projects \cap DOMAIN projects' :
                      projects[i].ids.next <= projects'[i].ids.next
<1>1. IInv /\ Next => Kept
  <2> SUFFICES ASSUME IInv, Next,
                      NEW i \in DOMAIN projects, i \in DOMAIN projects'
               PROVE  projects[i].ids.next <= projects'[i].ids.next
    OBVIOUS
  <2>1. projects[i] \in Projects /\ projects[i].ids.next \in Nat
    BY MaxTasksAssumption DEF IInv, TypeOK, Projects, IDPools
  <2>2. ASSUME projects'[i] = projects[i]
        PROVE  projects[i].ids.next <= projects'[i].ids.next
    BY <2>1, <2>2
  <2>3. CASE AddProject
    <3>1. NextID(ids) \notin DOMAIN projects
      BY <2>3, MaxProjectsAssumption, NextSound
         DEF AddProject, IInv, TypeOK, ProjectIdsSound
    <3> QED
      BY <2>2, <2>3, <3>1 DEF AddProject
  <2>4. ASSUME NEW j \in ProjectIds, RemoveProject(j)
        PROVE  projects'[i] = projects[i]
    BY <2>4 DEF RemoveProject
  <2>5. ASSUME NEW j \in ProjectIds, AddTask(j)
        PROVE  projects[i].ids.next <= projects'[i].ids.next
    <3>1. j \in DOMAIN projects /\ projects[j] \in Projects
      BY <2>5 DEF AddTask, IInv, TypeOK
    <3>2. PICK p \in AddResults(projects[j]) :
             projects' = [projects EXCEPT ![j] = p]
      BY <2>5 DEF AddTask
    <3>3. p.ids.next >= projects[j].ids.next
      BY <3>1, AddResultsType DEF IInv, CountersCover
    <3> QED
      BY <2>1, <2>2, <3>1, <3>2, <3>3
  <2>6. ASSUME NEW j \in ProjectIds, NEW t \in Garbage, RemoveTask(j, t)
        PROVE  projects[i].ids.next <= projects'[i].ids.next
    <3>1. /\ j \in DOMAIN projects /\ projects[j] \in Projects
          /\ t \in projects[j].tasks
      BY <2>6 DEF RemoveTask, IInv, TypeOK
    <3>2. PICK p \in RemoveResults(projects[j], t) :
             projects' = [projects EXCEPT ![j] = p]
      BY <2>6 DEF RemoveTask
    <3>3. p.ids.next >= projects[j].ids.next
      BY <3>1, RemoveResultsType DEF IInv, CountersCover
    <3> QED
      BY <2>1, <2>2, <3>1, <3>2, <3>3
  <2>7. CASE Recreate
    BY <2>7 DEF Recreate, Fresh
  <2>8. ASSUME UNCHANGED projects PROVE projects'[i] = projects[i]
    BY <2>8
  <2>9. CASE AddProjectHalts \/ UseStaleRoot \/ RecreateUndefined
    BY <2>2, <2>8, <2>9 DEF AddProjectHalts, UseStaleRoot, RecreateUndefined,
                            Stop
  <2>10. ASSUME NEW j \in ProjectIds,
                RemoveProjectUndefined(j) \/ AddTaskHalts(j)
         PROVE  projects'[i] = projects[i]
    BY <2>8, <2>10 DEF RemoveProjectUndefined, AddTaskHalts, Stop
  <2> QED
    BY <2>2, <2>3, <2>4, <2>5, <2>6, <2>7, <2>9, <2>10 DEF Next
<1>2. IInv /\ [Next]_vars => [Kept]_vars
  BY <1>1
<1> QED
  BY <1>2, Invariance, PTL DEF Spec, NeverConstructedTwice
=============================================================================
