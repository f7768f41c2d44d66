------------------------ MODULE SelfmaContext_proofs ------------------------
(***************************************************************************)
(* Theorems about SelfmaContext, for any contexts, items, id limit and     *)
(* number of faults.                                                       *)
(***************************************************************************)
EXTENDS SelfmaContext, IdPool_proofs

\* What a pass of update holds between its steps: a snapshot of tasks that are
\* all still in memory, not empty while the next one is due to be deleted.
PassShape ==
    \A c \in Ctx :
       /\ finished[c] \subseteq DOMAIN tasks[c]
       /\ pc[c] = "updating" => finished[c] # {}
       /\ pc[c] \notin {"updating", "announcing"} => finished[c] = {}

\* Types, pools and passes together are inductive.
Inv == TypeOK /\ PoolsSound /\ PassShape

-----------------------------------------------------------------------------
(* Maps *)

\* What it means to be a map of ids.
LEMMA MapsDef ==
    ASSUME NEW R, NEW f
    PROVE  f \in Maps(R) <=> DOMAIN f \subseteq Ids /\ f \in [DOMAIN f -> R]
BY DEF Maps

\* Adding one entry.
LEMMA WithType ==
    ASSUME NEW R, NEW f \in Maps(R), NEW x \in Ids, NEW v \in R
    PROVE  /\ With(f, x, v) \in Maps(R)
           /\ DOMAIN With(f, x, v) = DOMAIN f \cup {x}
<1>1. DOMAIN f \subseteq Ids /\ f \in [DOMAIN f -> R]
  BY MapsDef
<1> DEFINE g == With(f, x, v)
<1>2. /\ DOMAIN g = DOMAIN f \cup {x}
      /\ g \in [DOMAIN g -> R]
  BY <1>1 DEF With
<1> HIDE DEF g
<1>3. g \in Maps(R)
  BY <1>1, <1>2, MapsDef
<1> QED
  BY <1>2, <1>3 DEF g

\* Removing entries.
LEMMA WithoutType ==
    ASSUME NEW R, NEW f \in Maps(R), NEW S
    PROVE  /\ Without(f, S) \in Maps(R)
           /\ DOMAIN Without(f, S) = DOMAIN f \ S
<1>1. DOMAIN f \subseteq Ids /\ f \in [DOMAIN f -> R]
  BY MapsDef
<1> DEFINE g == Without(f, S)
<1>2. /\ DOMAIN g = DOMAIN f \ S
      /\ g \in [DOMAIN g -> R]
  BY <1>1 DEF Without
<1> HIDE DEF g
<1>3. g \in Maps(R)
  BY <1>1, <1>2, MapsDef
<1> QED
  BY <1>2, <1>3 DEF g

\* The empty map.
LEMMA EmptyType ==
    ASSUME NEW R
    PROVE  DOMAIN << >> = {} /\ << >> \in Maps(R)
<1>1. DOMAIN << >> = {} /\ << >> \in [DOMAIN << >> -> R]
  OBVIOUS
<1> QED
  BY <1>1, MapsDef

\* The tasks read from the table.
LEMMA LoadedType ==
    ASSUME NEW f \in Maps(Rows)
    PROVE  /\ [t \in DOMAIN f |-> Loaded(f[t])] \in Maps(MemTasks)
           /\ DOMAIN [t \in DOMAIN f |-> Loaded(f[t])] = DOMAIN f
<1>1. DOMAIN f \subseteq Ids /\ f \in [DOMAIN f -> Rows]
  BY MapsDef
<1>2. \A t \in DOMAIN f : Loaded(f[t]) \in MemTasks
  BY <1>1 DEF Loaded, Rows, MemTasks
<1> DEFINE g == [t \in DOMAIN f |-> Loaded(f[t])]
<1>3. DOMAIN g = DOMAIN f /\ g \in [DOMAIN g -> MemTasks]
  BY <1>2
<1> HIDE DEF g
<1>4. g \in Maps(MemTasks)
  BY <1>1, <1>3, MapsDef
<1> QED
  BY <1>3, <1>4 DEF g

-----------------------------------------------------------------------------
(* Every action keeps Inv.  An action of context c leaves the memory of the *)
(* others alone, so what is shown is what it does to c and to the tables.   *)

\* What Inv says of one context, of its memory, pools and pass.
Local(c) == /\ PoolSound(projectIds[c], DOMAIN projects[c])
            /\ PoolSound(taskIds[c], DOMAIN tasks[c])
            /\ finished[c] \subseteq DOMAIN tasks[c]
            /\ pc[c] = "updating" => finished[c] # {}
            /\ pc[c] \notin {"updating", "announcing"} => finished[c] = {}

\* Inv speaks of each context alone.
LEMMA InvLocal == Inv <=> TypeOK /\ \A c \in Ctx : Local(c)
BY DEF Inv, PoolsSound, PassShape, Local

\* The other contexts do not move.
SameFor(d) == /\ projects'[d] = projects[d] /\ projectIds'[d] = projectIds[d]
              /\ tasks'[d] = tasks[d] /\ taskIds'[d] = taskIds[d]
              /\ finished'[d] = finished[d] /\ pc'[d] = pc[d]

\* A step that types well and keeps what Inv says of the context that moves
\* keeps Inv.
LEMMA LocalStep ==
    ASSUME Inv, NEW c \in Ctx, TypeOK', Local(c)',
           \A d \in Ctx \ {c} : SameFor(d)
    PROVE  Inv'
<1>1. \A d \in Ctx \ {c} : Local(d)'
  BY InvLocal DEF Local, SameFor
<1> QED
  BY <1>1 DEF Inv, PoolsSound, PassShape, Local

\* A failing statement leaves a number of faults.
LEMMA FaultType ==
    ASSUME TypeOK, Fault PROVE faults' \in 0..MaxFaults
BY MaxFaultsAssumption DEF Fault, TypeOK

\* Holds initially.
LEMMA InitInv == Init => Inv
<1> SUFFICES ASSUME Init PROVE Inv
  OBVIOUS
<1>1. MaxId \in Nat /\ MaxFaults \in Nat
  BY MaxIdAssumption, MaxFaultsAssumption
<1>2. TypeOK
  BY <1>1, NewPoolSound, EmptyType DEF Init, TypeOK
<1>3. \A c \in Ctx : /\ DOMAIN projects[c] = {} /\ projectIds[c] = NewPool
                     /\ DOMAIN tasks[c] = {} /\ taskIds[c] = NewPool
                     /\ finished[c] = {} /\ pc[c] = "closed"
  BY EmptyType DEF Init
<1> QED
  BY <1>2, <1>3, NewPoolSound DEF Inv, PoolsSound, PassShape

\* Opening, closing, crashing.
LEMMA LifeInv ==
    ASSUME Inv, NEW c \in Ctx, Open(c) \/ Close(c) \/ Crash(c)
    PROVE  Inv'
<1> USE DEF TypeOK
<1>1. TypeOK
  BY DEF Inv
<1>2. CASE Open(c)
  <2>1. TypeOK'
    BY <1>1, <1>2 DEF Open, db, memory, history
  <2>2. Local(c)'
    BY <1>1, <1>2, InvLocal DEF Open, Local, memory
  <2>3. \A d \in Ctx \ {c} : SameFor(d)
    BY <1>1, <1>2 DEF Open, SameFor, memory
  <2> QED
    BY <2>1, <2>2, <2>3, LocalStep
<1>3. ASSUME Forget(c), faults' \in 0..MaxFaults PROVE Inv'
  <2>1. TypeOK'
    BY <1>1, <1>3, NewPoolSound, EmptyType DEF Forget, db, history
  <2>2. Local(c)'
    <3>1. /\ DOMAIN projects'[c] = {} /\ projectIds'[c] = NewPool
          /\ DOMAIN tasks'[c] = {} /\ taskIds'[c] = NewPool
          /\ finished'[c] = {} /\ pc'[c] = "closed"
      BY <1>1, <1>3, EmptyType DEF Forget
    <3> QED
      BY <3>1, NewPoolSound DEF Local
  <2>3. \A d \in Ctx \ {c} : SameFor(d)
    BY <1>1, <1>3 DEF Forget, SameFor
  <2> QED
    BY <2>1, <2>2, <2>3, LocalStep
<1>4. CASE Close(c)
  BY <1>1, <1>3, <1>4 DEF Close
<1>5. CASE Crash(c)
  BY <1>1, <1>3, <1>5, FaultType DEF Crash
<1> QED
  BY <1>2, <1>4, <1>5

\* add_project, whether the INSERT succeeds or not.
LEMMA AddProjectInv ==
    ASSUME Inv, NEW c \in Ctx, NEW item \in Items, AddProject(c, item)
    PROVE  Inv'
<1> DEFINE id == AllocatedId(projectIds[c])
<1>1. TypeOK /\ Local(c)
  BY InvLocal
<1>2. /\ projectIds[c] \in IdPools /\ projects[c] \in Maps(Items)
      /\ dbProjects \in Maps(Items)
  BY <1>1 DEF TypeOK
<1>3. /\ id \in Ids
      /\ AfterAllocate(projectIds[c]) \in IdPools
      /\ PoolSound(AfterAllocate(projectIds[c]), DOMAIN projects[c] \cup {id})
  BY <1>1, <1>2, AllocateSound DEF AddProject, Local
<1>4. /\ With(projects[c], id, item) \in Maps(Items)
      /\ DOMAIN With(projects[c], id, item) = DOMAIN projects[c] \cup {id}
      /\ With(dbProjects, id, item) \in Maps(Items)
  <2>0. id \in Ids
    BY <1>3
  <2> HIDE DEF id
  <2>1. With(projects[c], id, item) \in Maps(Items)
    BY <1>2, <2>0, WithType
  <2>3. DOMAIN With(projects[c], id, item) = DOMAIN projects[c] \cup {id}
    BY DEF With
  <2>2. With(dbProjects, id, item) \in Maps(Items)
    BY <1>2, <2>0, WithType
  <2> QED
    BY <2>1, <2>2, <2>3
<1>5. TypeOK'
  <2>1. /\ dbProjects' \in Maps(Items)
        /\ UNCHANGED <<dbTasks, meta, tasks, taskIds, control, announced, faults>>
        /\ used' = used \cup {item}
    BY <1>4 DEF AddProject
  <2>2. projects' \in [Ctx -> Maps(Items)]
    BY <1>1, <1>4 DEF AddProject, TypeOK
  <2>3. projectIds' \in [Ctx -> IdPools]
    BY <1>1, <1>3 DEF AddProject, TypeOK
  <2> QED
    BY <1>1, <2>1, <2>2, <2>3 DEF TypeOK, control
<1>6. Local(c)'
  <2>1. /\ projects'[c] = With(projects[c], id, item)
        /\ projectIds'[c] = AfterAllocate(projectIds[c])
        /\ tasks'[c] = tasks[c] /\ taskIds'[c] = taskIds[c]
        /\ finished'[c] = finished[c] /\ pc'[c] = pc[c]
    BY <1>1 DEF AddProject, TypeOK, control
  <2> HIDE DEF id
  <2> QED
    BY <1>1, <1>3, <1>4, <2>1 DEF Local
<1>7. \A d \in Ctx \ {c} : SameFor(d)
  BY <1>1 DEF AddProject, TypeOK, SameFor, control
<1> QED
  BY <1>5, <1>6, <1>7, LocalStep

LEMMA AddProjectFailsInv ==
    ASSUME Inv, NEW c \in Ctx, AddProjectFails(c) PROVE Inv'
<1>1. TypeOK /\ Local(c)
  BY InvLocal
<1>2. projectIds[c] \in IdPools
  BY <1>1 DEF TypeOK
<1>3. /\ AfterAllocate(projectIds[c]) \in IdPools
      /\ PoolSound(AfterAllocate(projectIds[c]), DOMAIN projects[c])
  BY <1>1, <1>2, AllocateSound DEF AddProjectFails, Local
<1>4. TypeOK'
  <2>1. projectIds' \in [Ctx -> IdPools]
    BY <1>1, <1>3 DEF AddProjectFails, TypeOK
  <2>2. faults' \in 0..MaxFaults
    BY <1>1, FaultType DEF AddProjectFails, TypeOK
  <2> QED
    BY <1>1, <2>1, <2>2 DEF AddProjectFails, TypeOK, control, db, history
<1>5. Local(c)'
  BY <1>1, <1>3 DEF AddProjectFails, TypeOK, Local, control
<1>6. \A d \in Ctx \ {c} : SameFor(d)
  BY <1>1 DEF AddProjectFails, TypeOK, SameFor, control
<1> QED
  BY <1>4, <1>5, <1>6, LocalStep

\* add_task, whether the INSERT succeeds or not.
LEMMA AddTaskInv ==
    ASSUME Inv, NEW c \in Ctx, NEW p \in Ids, NEW item \in Items,
           AddTask(c, p, item)
    PROVE  Inv'
<1> DEFINE id == AllocatedId(taskIds[c])
           row == [project |-> p, item |-> item]
<1>1. TypeOK /\ Local(c)
  BY InvLocal
<1>2. /\ taskIds[c] \in IdPools /\ tasks[c] \in Maps(MemTasks)
      /\ dbTasks \in Maps(Rows) /\ row \in Rows /\ Loaded(row) \in MemTasks
  BY <1>1 DEF TypeOK, Loaded, Rows, MemTasks
<1>3. /\ id \in Ids
      /\ AfterAllocate(taskIds[c]) \in IdPools
      /\ PoolSound(AfterAllocate(taskIds[c]), DOMAIN tasks[c] \cup {id})
  BY <1>1, <1>2, AllocateSound DEF AddTask, Local
<1>4. /\ With(tasks[c], id, Loaded(row)) \in Maps(MemTasks)
      /\ DOMAIN With(tasks[c], id, Loaded(row)) = DOMAIN tasks[c] \cup {id}
      /\ With(dbTasks, id, row) \in Maps(Rows)
  <2>0. id \in Ids
    BY <1>3
  <2> HIDE DEF id, row
  <2>1. With(tasks[c], id, Loaded(row)) \in Maps(MemTasks)
    BY <1>2, <2>0, WithType
  <2>3. DOMAIN With(tasks[c], id, Loaded(row)) = DOMAIN tasks[c] \cup {id}
    BY DEF With
  <2>2. With(dbTasks, id, row) \in Maps(Rows)
    BY <1>2, <2>0, WithType
  <2> QED
    BY <2>1, <2>2, <2>3
<1>5. TypeOK'
  <2>1. /\ dbTasks' \in Maps(Rows)
        /\ UNCHANGED <<dbProjects, meta, projects, projectIds, control,
                       announced, faults>>
        /\ used' = used \cup {item}
    BY <1>4 DEF AddTask
  <2>2. tasks' \in [Ctx -> Maps(MemTasks)]
    BY <1>1, <1>4 DEF AddTask, TypeOK
  <2>3. taskIds' \in [Ctx -> IdPools]
    BY <1>1, <1>3 DEF AddTask, TypeOK
  <2> QED
    BY <1>1, <2>1, <2>2, <2>3 DEF TypeOK, control
<1>6. Local(c)'
  <2>1. /\ tasks'[c] = With(tasks[c], id, Loaded(row))
        /\ taskIds'[c] = AfterAllocate(taskIds[c])
        /\ projects'[c] = projects[c] /\ projectIds'[c] = projectIds[c]
        /\ finished'[c] = finished[c] /\ pc'[c] = pc[c] /\ pc[c] = "idle"
    BY <1>1 DEF AddTask, TypeOK, control
  <2> HIDE DEF id, row
  <2> QED
    BY <1>1, <1>3, <1>4, <2>1 DEF Local
<1>7. \A d \in Ctx \ {c} : SameFor(d)
  BY <1>1 DEF AddTask, TypeOK, SameFor, control
<1> QED
  BY <1>5, <1>6, <1>7, LocalStep

LEMMA AddTaskFailsInv ==
    ASSUME Inv, NEW c \in Ctx, NEW p \in Ids, AddTaskFails(c, p) PROVE Inv'
<1>1. TypeOK /\ Local(c)
  BY InvLocal
<1>2. taskIds[c] \in IdPools
  BY <1>1 DEF TypeOK
<1>3. /\ AfterAllocate(taskIds[c]) \in IdPools
      /\ PoolSound(AfterAllocate(taskIds[c]), DOMAIN tasks[c])
  BY <1>1, <1>2, AllocateSound DEF AddTaskFails, Local
<1>4. TypeOK'
  <2>1. taskIds' \in [Ctx -> IdPools]
    BY <1>1, <1>3 DEF AddTaskFails, TypeOK
  <2>2. faults' \in 0..MaxFaults
    BY <1>1, FaultType DEF AddTaskFails, TypeOK
  <2> QED
    BY <1>1, <2>1, <2>2 DEF AddTaskFails, TypeOK, control, db, history
<1>5. Local(c)'
  BY <1>1, <1>3 DEF AddTaskFails, TypeOK, Local, control
<1>6. \A d \in Ctx \ {c} : SameFor(d)
  BY <1>1 DEF AddTaskFails, TypeOK, SameFor, control
<1> QED
  BY <1>4, <1>5, <1>6, LocalStep

\* remove_project: the ids released are those of the entries removed.
LEMMA RemoveProjectInv ==
    ASSUME Inv, NEW c \in Ctx, NEW p \in Ids, RemoveProject(c, p) PROVE Inv'
<1> DEFINE gone == TasksOf(tasks[c], p)
<1>1. TypeOK /\ Local(c) /\ pc[c] = "idle" /\ p \in DOMAIN projects[c]
  BY InvLocal DEF RemoveProject
<1>2. /\ projectIds[c] \in IdPools /\ projects[c] \in Maps(Items)
      /\ taskIds[c] \in IdPools /\ tasks[c] \in Maps(MemTasks)
      /\ gone \in SUBSET DOMAIN tasks[c] /\ {p} \in SUBSET DOMAIN projects[c]
      /\ dbProjects \in Maps(Items) /\ dbTasks \in Maps(Rows)
  BY <1>1 DEF TypeOK, TasksOf
<1> HIDE DEF gone
<1>3. /\ AfterReleases(projectIds[c], {p}) \in IdPools
      /\ PoolSound(AfterReleases(projectIds[c], {p}), DOMAIN projects[c] \ {p})
      /\ AfterReleases(taskIds[c], gone) \in IdPools
      /\ PoolSound(AfterReleases(taskIds[c], gone), DOMAIN tasks[c] \ gone)
  BY <1>1, <1>2, ReleasesSound DEF Local
<1>4. /\ Without(projects[c], {p}) \in Maps(Items)
      /\ DOMAIN Without(projects[c], {p}) = DOMAIN projects[c] \ {p}
      /\ Without(tasks[c], gone) \in Maps(MemTasks)
      /\ DOMAIN Without(tasks[c], gone) = DOMAIN tasks[c] \ gone
      /\ Without(dbProjects, {p}) \in Maps(Items)
      /\ Without(dbTasks, TasksOf(dbTasks, p)) \in Maps(Rows)
  <2>1. /\ Without(projects[c], {p}) \in Maps(Items)
        /\ DOMAIN Without(projects[c], {p}) = DOMAIN projects[c] \ {p}
    <3>1. projects[c] \in Maps(Items)
      BY <1>2
    <3> QED
      BY ONLY <3>1, WithoutType
  <2>2. /\ Without(tasks[c], gone) \in Maps(MemTasks)
        /\ DOMAIN Without(tasks[c], gone) = DOMAIN tasks[c] \ gone
    BY <1>2, WithoutType
  <2>3. /\ Without(dbProjects, {p}) \in Maps(Items)
        /\ Without(dbTasks, TasksOf(dbTasks, p)) \in Maps(Rows)
    BY <1>2, WithoutType
  <2> QED
    BY <2>1, <2>2, <2>3
<1>5. /\ projects' = [projects EXCEPT ![c] = Without(projects[c], {p})]
      /\ tasks' = [tasks EXCEPT ![c] = Without(tasks[c], gone)]
      /\ taskIds' = [taskIds EXCEPT ![c] = AfterReleases(taskIds[c], gone)]
      /\ projectIds' = [projectIds EXCEPT ![c] =
                            AfterReleases(projectIds[c], {p})]
      /\ UNCHANGED <<meta, control, history, faults>>
  BY DEF RemoveProject, gone
<1>6. TypeOK'
  <2>1. dbProjects' \in Maps(Items) /\ dbTasks' \in Maps(Rows)
    BY <1>4 DEF RemoveProject
  <2>2. projects' \in [Ctx -> Maps(Items)] /\ tasks' \in [Ctx -> Maps(MemTasks)]
    BY <1>1, <1>4, <1>5 DEF TypeOK
  <2>3. projectIds' \in [Ctx -> IdPools] /\ taskIds' \in [Ctx -> IdPools]
    BY <1>1, <1>3, <1>5 DEF TypeOK
  <2> QED
    BY <1>1, <1>5, <2>1, <2>2, <2>3 DEF TypeOK, control, history
<1>7. Local(c)'
  <2>1. /\ projects'[c] = Without(projects[c], {p})
        /\ tasks'[c] = Without(tasks[c], gone)
        /\ taskIds'[c] = AfterReleases(taskIds[c], gone)
        /\ projectIds'[c] = AfterReleases(projectIds[c], {p})
        /\ finished'[c] = {} /\ pc'[c] = "idle"
    BY <1>1, <1>5 DEF TypeOK, Local, control
  <2> QED
    BY <1>3, <1>4, <2>1 DEF Local
<1>8. \A d \in Ctx \ {c} : SameFor(d)
  BY <1>1, <1>5 DEF TypeOK, SameFor, control
<1> QED
  BY <1>6, <1>7, <1>8, LocalStep

\* What remove_task and update do to a task in memory.
LEMMA DropTaskLocal ==
    ASSUME TypeOK, NEW c \in Ctx, Local(c), NEW t \in DOMAIN tasks[c],
           DropTask(c, t)
    PROVE  /\ dbTasks' \in Maps(Rows)
           /\ tasks' \in [Ctx -> Maps(MemTasks)]
           /\ taskIds' \in [Ctx -> IdPools]
           /\ DOMAIN tasks'[c] = DOMAIN tasks[c] \ {t}
           /\ PoolSound(taskIds'[c], DOMAIN tasks'[c])
           /\ \A d \in Ctx \ {c} : tasks'[d] = tasks[d] /\ taskIds'[d] = taskIds[d]
           /\ UNCHANGED <<dbProjects, meta, projects, projectIds>>
<1>1. /\ taskIds[c] \in IdPools /\ tasks[c] \in Maps(MemTasks)
      /\ {t} \in SUBSET DOMAIN tasks[c] /\ dbTasks \in Maps(Rows)
  BY DEF TypeOK
<1>2. /\ AfterReleases(taskIds[c], {t}) \in IdPools
      /\ PoolSound(AfterReleases(taskIds[c], {t}), DOMAIN tasks[c] \ {t})
  BY <1>1, ReleasesSound DEF Local
<1>3. /\ Without(tasks[c], {t}) \in Maps(MemTasks)
      /\ DOMAIN Without(tasks[c], {t}) = DOMAIN tasks[c] \ {t}
      /\ Without(dbTasks, {t}) \in Maps(Rows)
  BY <1>1, WithoutType
<1>4. dbTasks' \in Maps(Rows)
  BY <1>1, <1>3 DEF DropTask, DeleteRow
<1> QED
  BY <1>2, <1>3, <1>4 DEF DropTask, TypeOK

LEMMA RemoveTaskInv ==
    ASSUME Inv, NEW c \in Ctx, NEW t \in Ids, RemoveTask(c, t) PROVE Inv'
<1>1. /\ TypeOK /\ Local(c) /\ pc[c] = "idle" /\ t \in DOMAIN tasks[c]
      /\ DropTask(c, t) /\ UNCHANGED <<control, history, faults>>
  BY InvLocal DEF RemoveTask
<1>2. /\ dbTasks' \in Maps(Rows)
      /\ tasks' \in [Ctx -> Maps(MemTasks)]
      /\ taskIds' \in [Ctx -> IdPools]
      /\ PoolSound(taskIds'[c], DOMAIN tasks'[c])
      /\ \A d \in Ctx \ {c} : tasks'[d] = tasks[d] /\ taskIds'[d] = taskIds[d]
      /\ UNCHANGED <<dbProjects, meta, projects, projectIds>>
  BY <1>1, DropTaskLocal
<1>3. TypeOK'
  BY <1>1, <1>2 DEF TypeOK, control, history
<1>4. Local(c)'
  BY <1>1, <1>2 DEF Local, control
<1>5. \A d \in Ctx \ {c} : SameFor(d)
  BY <1>1, <1>2 DEF SameFor, control
<1> QED
  BY <1>3, <1>4, <1>5, LocalStep

\* serialize writes the next ids, or one of them.
LEMMA SerializeInv ==
    ASSUME Inv, NEW c \in Ctx, Serialize(c) PROVE Inv'
<1>1. /\ TypeOK /\ Local(c)
      /\ UNCHANGED <<dbProjects, dbTasks, memory, control, history>>
  BY InvLocal DEF Serialize
<1>2. projectIds[c].next \in -1..MaxId /\ taskIds[c].next \in -1..MaxId
  BY <1>1, MaxIdAssumption DEF TypeOK, IdPools, Ids
<1>3. meta' \in [project : -1..MaxId, task : -1..MaxId]
  BY <1>1, <1>2 DEF Serialize, TypeOK
<1>4. faults' \in 0..MaxFaults
  BY <1>1, FaultType DEF Serialize, TypeOK
<1>5. TypeOK'
  BY <1>1, <1>3, <1>4 DEF TypeOK, memory, control, history
<1>6. Local(c)' /\ \A d \in Ctx \ {c} : SameFor(d)
  BY <1>1 DEF Local, SameFor, memory, control
<1> QED
  BY <1>5, <1>6, LocalStep

\* deserialize: the first query, ...
LEMMA LoadProjectsInv ==
    ASSUME Inv, NEW c \in Ctx, LoadProjects(c) PROVE Inv'
<1>1. TypeOK /\ Local(c) /\ pc[c] = "idle"
  BY InvLocal DEF LoadProjects
<1>2. TypeOK'
  BY <1>1 DEF LoadProjects, TypeOK, db, memory, history
<1>3. Local(c)'
  BY <1>1 DEF LoadProjects, TypeOK, Local, memory
<1>4. \A d \in Ctx \ {c} : SameFor(d)
  BY <1>1 DEF LoadProjects, TypeOK, SameFor, memory
<1> QED
  BY <1>2, <1>3, <1>4, LocalStep

\* ... the second one, with which memory and pools are replaced, ...
LEMMA LoadTasksInv ==
    ASSUME Inv, NEW c \in Ctx, LoadTasks(c) PROVE Inv'
<1> DEFINE loaded == [t \in DOMAIN dbTasks |-> Loaded(dbTasks[t])]
<1>1. /\ TypeOK /\ Local(c) /\ pc[c] = "loading"
      /\ rows[c] \in Maps(Items) /\ dbTasks \in Maps(Rows)
  BY InvLocal DEF LoadTasks, TypeOK
<1>2. /\ pc' = [pc EXCEPT ![c] = "idle"]
      /\ rows' = [rows EXCEPT ![c] = << >>]
      /\ projects' = [projects EXCEPT ![c] = rows[c]]
      /\ tasks' = [tasks EXCEPT ![c] = loaded]
      /\ projectIds' = [projectIds EXCEPT ![c] = Reseeded(DOMAIN rows[c])]
      /\ taskIds' = [taskIds EXCEPT ![c] = Reseeded(DOMAIN dbTasks)]
      /\ UNCHANGED <<db, finished, event, history, faults>>
  BY DEF LoadTasks
<1>3. loaded \in Maps(MemTasks) /\ DOMAIN loaded = DOMAIN dbTasks
  BY <1>1, LoadedType
<1> HIDE DEF loaded
<1>4. /\ DOMAIN rows[c] \in SUBSET Ids /\ DOMAIN dbTasks \in SUBSET Ids
      /\ << >> \in Maps(Items)
  BY <1>1, MapsDef, EmptyType
<1>5. /\ Reseeded(DOMAIN rows[c]) \in IdPools
      /\ PoolSound(Reseeded(DOMAIN rows[c]), DOMAIN rows[c])
      /\ Reseeded(DOMAIN dbTasks) \in IdPools
      /\ PoolSound(Reseeded(DOMAIN dbTasks), DOMAIN dbTasks)
  BY <1>4, ReseededSound
<1>6. TypeOK'
  <2>1. /\ projects' \in [Ctx -> Maps(Items)] /\ rows' \in [Ctx -> Maps(Items)]
        /\ tasks' \in [Ctx -> Maps(MemTasks)]
    BY <1>1, <1>2, <1>3, <1>4 DEF TypeOK
  <2>2. projectIds' \in [Ctx -> IdPools] /\ taskIds' \in [Ctx -> IdPools]
    BY <1>1, <1>2, <1>5 DEF TypeOK
  <2>3. /\ pc' \in [Ctx -> {"closed", "idle", "loading", "updating",
                            "announcing"}]
        /\ \A d \in Ctx : pc'[d] # "announcing" => event'[d] = {}
    BY <1>1, <1>2 DEF TypeOK
  <2> QED
    BY <1>1, <1>2, <2>1, <2>2, <2>3 DEF TypeOK, db, history
<1>7. Local(c)'
  <2>1. /\ projects'[c] = rows[c] /\ tasks'[c] = loaded
        /\ projectIds'[c] = Reseeded(DOMAIN rows[c])
        /\ taskIds'[c] = Reseeded(DOMAIN dbTasks)
        /\ finished'[c] = {} /\ pc'[c] = "idle"
    BY <1>1, <1>2 DEF TypeOK, Local
  <2> QED
    BY <1>3, <1>5, <2>1 DEF Local
<1>8. \A d \in Ctx \ {c} : SameFor(d)
  BY <1>1, <1>2 DEF TypeOK, SameFor
<1> QED
  BY <1>6, <1>7, <1>8, LocalStep

\* ... and the second one failing.
LEMMA LoadFailsInv ==
    ASSUME Inv, NEW c \in Ctx, LoadFails(c) PROVE Inv'
<1>1. /\ TypeOK /\ Local(c) /\ pc[c] = "loading" /\ faults' \in 0..MaxFaults
      /\ << >> \in Maps(Items)
  BY InvLocal, FaultType, EmptyType DEF LoadFails
<1>2. TypeOK'
  BY <1>1 DEF LoadFails, TypeOK, db, memory, history
<1>3. Local(c)'
  BY <1>1 DEF LoadFails, TypeOK, Local, memory
<1>4. \A d \in Ctx \ {c} : SameFor(d)
  BY <1>1 DEF LoadFails, TypeOK, SameFor, memory
<1> QED
  BY <1>2, <1>3, <1>4, LocalStep

\* A timer that elapses, or is turned back.
LEMMA SetDueInv ==
    ASSUME Inv, NEW c \in Ctx, NEW t \in Ids, NEW due \in BOOLEAN,
           SetDue(c, t, due), faults' \in 0..MaxFaults
    PROVE  Inv'
<1> DEFINE new == [tasks[c] EXCEPT ![t].due = due]
<1>1. /\ TypeOK /\ Local(c) /\ t \in DOMAIN tasks[c]
      /\ UNCHANGED <<db, projects, projectIds, taskIds, control, history>>
  BY InvLocal DEF SetDue
<1>2. tasks[c] \in Maps(MemTasks)
  BY <1>1 DEF TypeOK
<1>3. DOMAIN tasks[c] \subseteq Ids /\ tasks[c] \in [DOMAIN tasks[c] -> MemTasks]
  BY <1>2, MapsDef
<1>4. DOMAIN new = DOMAIN tasks[c] /\ new \in [DOMAIN new -> MemTasks]
  BY <1>1, <1>3 DEF MemTasks
<1>5. tasks' = [tasks EXCEPT ![c] = new]
  BY DEF SetDue
<1> HIDE DEF new
<1>6. new \in Maps(MemTasks)
  BY <1>3, <1>4, MapsDef
<1>7. TypeOK'
  <2>1. tasks' \in [Ctx -> Maps(MemTasks)]
    BY <1>1, <1>5, <1>6 DEF TypeOK
  <2> QED
    BY <1>1, <2>1 DEF TypeOK, db, control, history
<1>8. Local(c)'
  <2>1. tasks'[c] = new
    BY <1>1, <1>5 DEF TypeOK
  <2> QED
    BY <1>1, <1>4, <2>1 DEF Local, control
<1>9. \A d \in Ctx \ {c} : SameFor(d)
  BY <1>1, <1>5 DEF TypeOK, SameFor, control
<1> QED
  BY <1>7, <1>8, <1>9, LocalStep

\* update takes its snapshot, ...
LEMMA UpdateStartInv ==
    ASSUME Inv, NEW c \in Ctx, UpdateStart(c) PROVE Inv'
<1> DEFINE snapshot == {t \in DOMAIN tasks[c] : tasks[c][t].due}
<1>1. /\ TypeOK /\ Local(c) /\ pc[c] = "idle"
      /\ finished' = [finished EXCEPT ![c] = snapshot]
      /\ pc' = [pc EXCEPT ![c] = "updating"]
      /\ UNCHANGED <<db, memory, rows, event, history, faults>>
      /\ snapshot # {} /\ snapshot \subseteq DOMAIN tasks[c]
  BY InvLocal DEF UpdateStart
<1> HIDE DEF snapshot
<1>2. DOMAIN tasks[c] \subseteq Ids
  <2>1. tasks[c] \in Maps(MemTasks)
    BY <1>1 DEF TypeOK
  <2> QED
    BY <2>1, MapsDef
<1>3. TypeOK'
  BY <1>1, <1>2 DEF TypeOK, db, memory, history
<1>4. Local(c)'
  <2>1. finished'[c] = snapshot /\ pc'[c] = "updating"
    BY <1>1 DEF TypeOK
  <2> QED
    BY <1>1, <2>1 DEF Local, memory
<1>5. \A d \in Ctx \ {c} : SameFor(d)
  BY <1>1 DEF TypeOK, SameFor, memory
<1> QED
  BY <1>3, <1>4, <1>5, LocalStep

\* ... deletes the next task of it, ...
LEMMA UpdateDeleteInv ==
    ASSUME Inv, NEW c \in Ctx, UpdateDelete(c) PROVE Inv'
<1> DEFINE t == Min(finished[c])
           rest == finished[c] \ {t}
<1>1. /\ TypeOK /\ Local(c) /\ pc[c] = "updating"
      /\ DropTask(c, t)
      /\ event' = [event EXCEPT ![c] = {Row(tasks[c][t])}]
      /\ finished' = [finished EXCEPT ![c] = rest]
      /\ pc' = [pc EXCEPT ![c] = "announcing"]
      /\ UNCHANGED <<rows, history, faults>>
  BY InvLocal DEF UpdateDelete
<1>2. /\ finished[c] \in SUBSET Ids /\ finished[c] # {}
      /\ finished[c] \subseteq DOMAIN tasks[c]
      /\ tasks[c] \in Maps(MemTasks)
  BY <1>1 DEF TypeOK, Local
<1>3. t \in finished[c]
  BY <1>2, MinOfNat DEF Ids
<1> HIDE DEF t, rest
<1>4. /\ dbTasks' \in Maps(Rows)
      /\ tasks' \in [Ctx -> Maps(MemTasks)]
      /\ taskIds' \in [Ctx -> IdPools]
      /\ DOMAIN tasks'[c] = DOMAIN tasks[c] \ {t}
      /\ PoolSound(taskIds'[c], DOMAIN tasks'[c])
      /\ \A d \in Ctx \ {c} : tasks'[d] = tasks[d] /\ taskIds'[d] = taskIds[d]
      /\ UNCHANGED <<dbProjects, meta, projects, projectIds>>
  BY <1>1, <1>2, <1>3, DropTaskLocal
<1>5. Row(tasks[c][t]) \in Rows
  <2>1. tasks[c][t] \in MemTasks
    BY <1>2, <1>3, MapsDef
  <2> QED
    BY <2>1 DEF Row, Rows, MemTasks
<1>6. TypeOK'
  <2>1. finished' \in [Ctx -> SUBSET Ids] /\ event' \in [Ctx -> SUBSET Rows]
    BY <1>1, <1>2, <1>5 DEF TypeOK, rest
  <2>2. /\ pc' \in [Ctx -> {"closed", "idle", "loading", "updating",
                            "announcing"}]
        /\ \A d \in Ctx : pc'[d] # "announcing" => event'[d] = {}
    BY <1>1 DEF TypeOK
  <2> QED
    BY <1>1, <1>4, <2>1, <2>2 DEF TypeOK, history
<1>7. Local(c)'
  <2>1. finished'[c] = rest /\ pc'[c] = "announcing"
    BY <1>1 DEF TypeOK
  <2>2. rest \subseteq DOMAIN tasks'[c]
    BY <1>2, <1>4 DEF rest
  <2> QED
    BY <1>1, <1>4, <2>1, <2>2 DEF Local
<1>8. \A d \in Ctx \ {c} : SameFor(d)
  BY <1>1, <1>4 DEF TypeOK, SameFor
<1> QED
  BY <1>6, <1>7, <1>8, LocalStep

\* ... or fails to, ...
LEMMA UpdateFailsInv ==
    ASSUME Inv, NEW c \in Ctx, UpdateFails(c) PROVE Inv'
<1>1. TypeOK /\ Local(c) /\ pc[c] = "updating" /\ faults' \in 0..MaxFaults
  BY InvLocal, FaultType DEF UpdateFails
<1>2. TypeOK'
  BY <1>1 DEF UpdateFails, TypeOK, db, memory, history
<1>3. Local(c)'
  BY <1>1 DEF UpdateFails, TypeOK, Local, memory
<1>4. \A d \in Ctx \ {c} : SameFor(d)
  BY <1>1 DEF UpdateFails, TypeOK, SameFor, memory
<1> QED
  BY <1>2, <1>3, <1>4, LocalStep

\* ... and announces it.
LEMMA UpdateAnnounceInv ==
    ASSUME Inv, NEW c \in Ctx, UpdateAnnounce(c) PROVE Inv'
<1>1. TypeOK /\ Local(c) /\ pc[c] = "announcing"
  BY InvLocal DEF UpdateAnnounce
<1>2. TypeOK'
  <2>1. event' \in [Ctx -> SUBSET Rows] /\ announced' \in SUBSET Items
    BY <1>1 DEF UpdateAnnounce, TypeOK, Rows
  <2>2. /\ pc' \in [Ctx -> {"closed", "idle", "loading", "updating",
                            "announcing"}]
        /\ \A d \in Ctx : pc'[d] # "announcing" => event'[d] = {}
    BY <1>1 DEF UpdateAnnounce, TypeOK
  <2> QED
    BY <1>1, <2>1, <2>2 DEF UpdateAnnounce, TypeOK, db, memory
<1>3. Local(c)'
  BY <1>1 DEF UpdateAnnounce, TypeOK, Local, memory
<1>4. \A d \in Ctx \ {c} : SameFor(d)
  BY <1>1 DEF UpdateAnnounce, TypeOK, SameFor, memory
<1> QED
  BY <1>2, <1>3, <1>4, LocalStep

-----------------------------------------------------------------------------
(* The invariants of the specification *)

\* Every step keeps Inv.
LEMMA NextInv == Inv /\ [Next]_vars => Inv'
<1> SUFFICES ASSUME Inv, [Next]_vars PROVE Inv'
  OBVIOUS
<1>1. CASE UNCHANGED vars
  BY <1>1 DEF vars, db, memory, control, history, Inv, TypeOK, PoolsSound,
     PassShape
<1>2. CASE Next
  <2>1. PICK c \in Ctx :
           \/ Open(c) \/ Close(c) \/ Crash(c)
           \/ \E item \in Items \ used :
                 AddProject(c, item) \/ \E p \in Ids : AddTask(c, p, item)
           \/ AddProjectFails(c)
           \/ \E p \in Ids : AddTaskFails(c, p) \/ RemoveProject(c, p)
           \/ \E t \in Ids : RemoveTask(c, t) \/ Elapse(c, t)
                             \/ ClockSetBack(c, t)
           \/ Serialize(c) \/ LoadProjects(c) \/ LoadTasks(c) \/ LoadFails(c)
           \/ UpdateStart(c) \/ UpdateDelete(c) \/ UpdateFails(c)
           \/ UpdateAnnounce(c)
    BY <1>2 DEF Next
  <2>2. CASE Open(c) \/ Close(c) \/ Crash(c)
    BY <2>2, LifeInv
  <2>3. CASE \E item \in Items \ used :
                AddProject(c, item) \/ \E p \in Ids : AddTask(c, p, item)
    BY <2>3, AddProjectInv, AddTaskInv
  <2>4. CASE AddProjectFails(c)
    BY <2>4, AddProjectFailsInv
  <2>5. CASE \E p \in Ids : AddTaskFails(c, p) \/ RemoveProject(c, p)
    BY <2>5, AddTaskFailsInv, RemoveProjectInv
  <2>6. ASSUME NEW t \in Ids,
               RemoveTask(c, t) \/ Elapse(c, t) \/ ClockSetBack(c, t)
        PROVE  Inv'
    <3>1. CASE RemoveTask(c, t)
      BY <3>1, RemoveTaskInv
    <3>2. CASE Elapse(c, t)
      BY <3>2, SetDueInv DEF Elapse, Inv, TypeOK
    <3>3. CASE ClockSetBack(c, t)
      BY <3>3, SetDueInv, FaultType DEF ClockSetBack, Inv
    <3> QED
      BY <2>6, <3>1, <3>2, <3>3
  <2>7. CASE Serialize(c) \/ LoadProjects(c) \/ LoadTasks(c) \/ LoadFails(c)
    BY <2>7, SerializeInv, LoadProjectsInv, LoadTasksInv, LoadFailsInv
  <2>8. CASE \/ UpdateStart(c) \/ UpdateDelete(c) \/ UpdateFails(c)
             \/ UpdateAnnounce(c)
    BY <2>8, UpdateStartInv, UpdateDeleteInv, UpdateFailsInv, UpdateAnnounceInv
  <2> QED
    BY <2>1, <2>2, <2>3, <2>4, <2>5, <2>6, <2>7, <2>8
<1> QED
  BY <1>1, <1>2

\* The invariant holds in every reachable state.
THEOREM Invariance == Spec => []Inv
<1>1. Init => Inv
  BY InitInv
<1>2. Inv /\ [Next]_vars => Inv'
  BY NextInv
<1> QED
  BY <1>1, <1>2, PTL DEF Spec

\* Every variable stays in its type, for any number of contexts.
THEOREM TypeCorrect == Spec => []TypeOK
<1>1. Inv => TypeOK
  BY DEF Inv
<1> QED
  BY <1>1, Invariance, PTL

\* No context ever hands out an id that it uses or has a release refused, for
\* any number of contexts on one database, any id limit, and any failures.
THEOREM PoolsStaySound == Spec => []PoolsSound
<1>1. Inv => PoolsSound
  BY DEF Inv
<1> QED
  BY <1>1, Invariance, PTL

\* update never meets the TaskNotFound of context.rs:173.
THEOREM UpdateAlwaysFindsTasks == Spec => []UpdateFindsTasks
<1>1. Inv => UpdateFindsTasks
  BY DEF Inv, PassShape, UpdateFindsTasks
<1> QED
  BY <1>1, Invariance, PTL

-----------------------------------------------------------------------------
(* Where the item of a task can be, with any number of contexts: in one    *)
(* row, in memories that agree with it, and nowhere once it is announced.  *)

\* Every item that is anywhere was used in a creation.
ItemsUsed ==
    /\ \A t \in DOMAIN dbTasks : dbTasks[t].item \in used
    /\ \A c \in Ctx : \A t \in DOMAIN tasks[c] : tasks[c][t].item \in used
    /\ \A c \in Ctx : \A e \in event[c] : e.item \in used
    /\ announced \subseteq used

\* No two rows have the item of one creation.
OneRowPerItem ==
    \A t, u \in DOMAIN dbTasks : dbTasks[t].item = dbTasks[u].item => t = u

\* A memory that holds the task of a row has it under the row's id and project.
CopiesAgree ==
    \A c \in Ctx : \A t \in DOMAIN tasks[c], u \in DOMAIN dbTasks :
       tasks[c][t].item = dbTasks[u].item
          => t = u /\ tasks[c][t].project = dbTasks[u].project

ItemInv == ItemsUsed /\ OneRowPerItem /\ CopiesAgree /\ AnnouncedIsGone

\* What every action but add_task does to rows, memories and events: rows only
\* go, a task in memory was there or is in the table, an event was there or is
\* about a task in no row any more, and only events are announced.
NothingNew ==
    /\ \A t \in DOMAIN dbTasks' : t \in DOMAIN dbTasks /\ dbTasks'[t] = dbTasks[t]
    /\ \A d \in Ctx : \A t \in DOMAIN tasks'[d] :
          \/ t \in DOMAIN tasks[d] /\ Row(tasks'[d][t]) = Row(tasks[d][t])
          \/ t \in DOMAIN dbTasks /\ Row(tasks'[d][t]) = dbTasks[t]
    /\ \A d \in Ctx : \A e \in event'[d] :
          \/ e \in event[d]
          \/ e.item \in used /\ \A t \in DOMAIN dbTasks' : dbTasks'[t].item # e.item
    /\ \A x \in announced' :
          x \in announced \/ \E d \in Ctx : \E e \in event[d] : x = e.item
    /\ used \subseteq used'

\* A row and its project and item.
LEMMA RowFields ==
    ASSUME NEW m, NEW r
    PROVE  /\ Row(m).project = m.project /\ Row(m).item = m.item
           /\ Row(Loaded(r)).project = r.project /\ Row(Loaded(r)).item = r.item
BY DEF Row, Loaded

\* A row that is loaded is still that row.
LEMMA RowOfLoaded == \A r \in Rows : Row(Loaded(r)) = r
BY DEF Rows, Row, Loaded

\* Such a step keeps the invariant.
LEMMA NothingNewKeeps ==
    ASSUME ItemInv, NothingNew PROVE ItemInv'
<1> USE DEF ItemInv
<1>1. \A d \in Ctx : \A t \in DOMAIN tasks'[d] :
         \/ /\ t \in DOMAIN tasks[d]
            /\ tasks'[d][t].item = tasks[d][t].item
            /\ tasks'[d][t].project = tasks[d][t].project
         \/ /\ t \in DOMAIN dbTasks
            /\ tasks'[d][t].item = dbTasks[t].item
            /\ tasks'[d][t].project = dbTasks[t].project
  BY RowFields DEF NothingNew
<1>2. ItemsUsed'
  <2>1. \A t \in DOMAIN dbTasks' : dbTasks'[t].item \in used'
    BY DEF NothingNew, ItemsUsed
  <2>2. \A d \in Ctx : \A t \in DOMAIN tasks'[d] : tasks'[d][t].item \in used'
    BY <1>1 DEF NothingNew, ItemsUsed
  <2>3. \A d \in Ctx : \A e \in event'[d] : e.item \in used'
    BY DEF NothingNew, ItemsUsed
  <2>4. announced' \subseteq used'
    BY DEF NothingNew, ItemsUsed
  <2> QED
    BY <2>1, <2>2, <2>3, <2>4 DEF ItemsUsed
<1>3. OneRowPerItem'
  BY DEF NothingNew, OneRowPerItem
<1>4. CopiesAgree'
  <2> SUFFICES ASSUME NEW d \in Ctx, NEW t \in DOMAIN tasks'[d],
                      NEW u \in DOMAIN dbTasks',
                      tasks'[d][t].item = dbTasks'[u].item
               PROVE  t = u /\ tasks'[d][t].project = dbTasks'[u].project
    BY DEF CopiesAgree
  <2>1. u \in DOMAIN dbTasks /\ dbTasks'[u] = dbTasks[u]
    BY DEF NothingNew
  <2> QED
    BY <1>1, <2>1 DEF CopiesAgree, OneRowPerItem
<1>5. AnnouncedIsGone'
  BY DEF NothingNew, AnnouncedIsGone
<1> QED
  BY <1>2, <1>3, <1>4, <1>5

\* add_task files an item that was never used.
LEMMA AddTaskKeeps ==
    ASSUME ItemInv, TypeOK, NEW c \in Ctx, NEW p \in Ids,
           NEW item \in Items \ used, AddTask(c, p, item)
    PROVE  ItemInv'
<1> DEFINE id == AllocatedId(taskIds[c])
<1>1. /\ DOMAIN dbTasks' = DOMAIN dbTasks \cup {id}
      /\ dbTasks'[id].item = item /\ dbTasks'[id].project = p
      /\ \A t \in DOMAIN dbTasks \ {id} : dbTasks'[t] = dbTasks[t]
      /\ id \notin DOMAIN dbTasks
  BY DEF AddTask, With, TaskInsertable
<1>2. /\ DOMAIN tasks'[c] = DOMAIN tasks[c] \cup {id}
      /\ tasks'[c][id].item = item /\ tasks'[c][id].project = p
      /\ \A t \in DOMAIN tasks[c] \ {id} : tasks'[c][t] = tasks[c][t]
      /\ \A d \in Ctx \ {c} : tasks'[d] = tasks[d]
  BY DEF AddTask, With, Loaded, TypeOK
<1>3. /\ event' = event /\ announced' = announced /\ used' = used \cup {item}
      /\ item \notin used
  BY DEF AddTask, control
<1> HIDE DEF id
<1> USE DEF ItemInv
<1>4. ItemsUsed'
  <2>1. \A t \in DOMAIN dbTasks' : dbTasks'[t].item \in used'
    BY <1>1, <1>3 DEF ItemsUsed
  <2>2. \A d \in Ctx : \A t \in DOMAIN tasks'[d] : tasks'[d][t].item \in used'
    BY <1>2, <1>3 DEF ItemsUsed
  <2> QED
    BY <1>3, <2>1, <2>2 DEF ItemsUsed
<1>5. OneRowPerItem'
  BY <1>1, <1>3 DEF ItemsUsed, OneRowPerItem
<1>6. CopiesAgree'
  <2> SUFFICES ASSUME NEW d \in Ctx, NEW t \in DOMAIN tasks'[d],
                      NEW u \in DOMAIN dbTasks',
                      tasks'[d][t].item = dbTasks'[u].item
               PROVE  t = u /\ tasks'[d][t].project = dbTasks'[u].project
    BY DEF CopiesAgree
  <2>1. CASE d = c /\ t = id
    BY <1>1, <1>2, <1>3, <2>1 DEF ItemsUsed
  <2>2. CASE d # c \/ t # id
    <3>1. t \in DOMAIN tasks[d] /\ tasks'[d][t] = tasks[d][t]
      BY <1>2, <2>2
    <3>2. u # id
      BY <1>1, <1>3, <3>1 DEF ItemsUsed
    <3> QED
      BY <1>1, <3>1, <3>2 DEF CopiesAgree
  <2> QED
    BY <2>1, <2>2
<1>7. AnnouncedIsGone'
  BY <1>1, <1>3 DEF ItemsUsed, AnnouncedIsGone
<1> QED
  BY <1>4, <1>5, <1>6, <1>7

\* Nothing is new when rows, memories, events and announcements stay.
LEMMA NothingMoves ==
    ASSUME UNCHANGED <<dbTasks, tasks, event, announced>>, used \subseteq used'
    PROVE  NothingNew
BY DEF NothingNew

\* Deleting a row and forgetting a task.
LEMMA DropTaskNothingNew ==
    ASSUME TypeOK, NEW c \in Ctx, NEW t, DropTask(c, t)
    PROVE  /\ \A u \in DOMAIN dbTasks' :
                 u \in DOMAIN dbTasks /\ dbTasks'[u] = dbTasks[u]
           /\ \A d \in Ctx : \A u \in DOMAIN tasks'[d] :
                 u \in DOMAIN tasks[d] /\ tasks'[d][u] = tasks[d][u]
BY DEF DropTask, DeleteRow, Without, TypeOK

\* The life of a context and the methods, add_task excepted.
LEMMA MethodNothingNew ==
    ASSUME TypeOK, NEW c \in Ctx,
           \/ Open(c) \/ Close(c) \/ Crash(c)
           \/ \E item \in Items \ used : AddProject(c, item)
           \/ AddProjectFails(c)
           \/ \E p \in Ids : AddTaskFails(c, p) \/ RemoveProject(c, p)
           \/ \E t \in Ids : RemoveTask(c, t)
    PROVE  NothingNew
<1>1. CASE \/ Open(c) \/ \E item \in Items \ used : AddProject(c, item)
           \/ AddProjectFails(c) \/ \E p \in Ids : AddTaskFails(c, p)
  BY <1>1, NothingMoves DEF Open, AddProject, AddProjectFails, AddTaskFails,
     db, memory, control, history
<1>2. CASE Close(c) \/ Crash(c)
  <2>1. /\ dbTasks' = dbTasks /\ announced' = announced /\ used' = used
        /\ tasks' = [tasks EXCEPT ![c] = << >>]
        /\ event' = [event EXCEPT ![c] = {}]
    BY <1>2 DEF Close, Crash, Forget, db, history
  <2>2. \A d \in Ctx : \A t \in DOMAIN tasks'[d] : d # c
    BY <2>1, EmptyType DEF TypeOK
  <2> QED
    BY <2>1, <2>2 DEF TypeOK, NothingNew
<1>3. ASSUME NEW p \in Ids, RemoveProject(c, p) PROVE NothingNew
  <2>1. \A t \in DOMAIN dbTasks' : t \in DOMAIN dbTasks /\ dbTasks'[t] = dbTasks[t]
    BY <1>3 DEF RemoveProject, Without
  <2>2. \A d \in Ctx : \A t \in DOMAIN tasks'[d] :
           t \in DOMAIN tasks[d] /\ tasks'[d][t] = tasks[d][t]
    BY <1>3 DEF RemoveProject, Without, TypeOK
  <2>3. event' = event /\ announced' = announced /\ used' = used
    BY <1>3 DEF RemoveProject, control, history
  <2> QED
    BY <2>1, <2>2, <2>3 DEF NothingNew
<1>4. ASSUME NEW t \in Ids, RemoveTask(c, t) PROVE NothingNew
  <2>1. /\ DropTask(c, t)
        /\ event' = event /\ announced' = announced /\ used' = used
    BY <1>4 DEF RemoveTask, control, history
  <2> QED
    BY <2>1, DropTaskNothingNew DEF NothingNew
<1> QED
  BY <1>1, <1>2, <1>3, <1>4

\* serialize, deserialize and the timers.
LEMMA LoadNothingNew ==
    ASSUME TypeOK, NEW c \in Ctx,
           \/ Serialize(c) \/ LoadProjects(c) \/ LoadTasks(c) \/ LoadFails(c)
           \/ \E t \in Ids : Elapse(c, t) \/ ClockSetBack(c, t)
    PROVE  NothingNew
<1>1. CASE Serialize(c) \/ LoadProjects(c) \/ LoadFails(c)
  BY <1>1, NothingMoves DEF Serialize, LoadProjects, LoadFails, db, memory,
     control, history
<1>2. CASE LoadTasks(c)
  <2>1. /\ dbTasks' = dbTasks /\ event' = event /\ announced' = announced
        /\ used' = used
        /\ \A t \in DOMAIN tasks'[c] :
              t \in DOMAIN dbTasks /\ tasks'[c][t] = Loaded(dbTasks[t])
        /\ \A d \in Ctx \ {c} : tasks'[d] = tasks[d]
    BY <1>2 DEF LoadTasks, db, history, TypeOK
  <2>2. \A t \in DOMAIN dbTasks : Row(Loaded(dbTasks[t])) = dbTasks[t]
    BY RowOfLoaded, MapsDef DEF TypeOK
  <2> QED
    BY <2>1, <2>2 DEF NothingNew
<1>3. ASSUME NEW t \in Ids, NEW due, SetDue(c, t, due) PROVE NothingNew
  <2>1. /\ dbTasks' = dbTasks /\ event' = event /\ announced' = announced
        /\ used' = used
        /\ tasks' = [tasks EXCEPT ![c] = [@ EXCEPT ![t].due = due]]
    BY <1>3 DEF SetDue, db, control, history
  <2>2. \A d \in Ctx : \A u \in DOMAIN tasks'[d] :
           u \in DOMAIN tasks[d] /\ Row(tasks'[d][u]) = Row(tasks[d][u])
    <3> SUFFICES ASSUME NEW d \in Ctx, NEW u \in DOMAIN tasks'[d]
                 PROVE  u \in DOMAIN tasks[d] /\ Row(tasks'[d][u]) = Row(tasks[d][u])
      OBVIOUS
    <3>1. tasks[d] \in Maps(MemTasks)
      BY DEF TypeOK
    <3>2. tasks'[d] = IF d = c THEN [tasks[d] EXCEPT ![t].due = due] ELSE tasks[d]
      BY <2>1 DEF TypeOK
    <3>3. u \in DOMAIN tasks[d] /\ tasks[d][u] \in MemTasks
      BY <3>1, <3>2, MapsDef
    <3>4. \/ tasks'[d][u] = tasks[d][u]
          \/ tasks'[d][u] = [tasks[d][u] EXCEPT !.due = due]
      BY <3>2, <3>3
    <3> QED
      BY <3>3, <3>4 DEF Row, MemTasks
  <2> QED
    BY <2>1, <2>2 DEF NothingNew
<1> QED
  BY <1>1, <1>2, <1>3 DEF Elapse, ClockSetBack

\* update: the task of the row deleted is the one whose event follows, since
\* memory and table agree on where an item is.
LEMMA UpdateNothingNew ==
    ASSUME Inv, ItemInv, NEW c \in Ctx,
           \/ UpdateStart(c) \/ UpdateDelete(c) \/ UpdateFails(c)
           \/ UpdateAnnounce(c)
    PROVE  NothingNew
<1>1. TypeOK /\ Local(c)
  BY InvLocal
<1>2. CASE UpdateStart(c) \/ UpdateFails(c)
  BY <1>2, NothingMoves DEF UpdateStart, UpdateFails, db, memory, history
<1>3. CASE UpdateAnnounce(c)
  <2>1. /\ dbTasks' = dbTasks /\ tasks' = tasks /\ used' = used
        /\ announced' = announced \cup {e.item : e \in event[c]}
        /\ event' = [event EXCEPT ![c] = {}]
    BY <1>3 DEF UpdateAnnounce, db, memory
  <2> QED
    BY <1>1, <2>1 DEF NothingNew, TypeOK
<1>4. CASE UpdateDelete(c)
  <2> DEFINE t == Min(finished[c])
  <2>1. /\ DropTask(c, t) /\ UNCHANGED history
        /\ event' = [event EXCEPT ![c] = {Row(tasks[c][t])}]
    BY <1>4 DEF UpdateDelete
  <2>2. t \in DOMAIN tasks[c]
    <3>1. finished[c] \in SUBSET Ids /\ finished[c] # {}
      BY <1>1, <1>4 DEF TypeOK, Local, UpdateDelete
    <3> QED
      BY <1>1, <3>1, MinOfNat DEF Local, Ids
  <2> HIDE DEF t
  <2>3. \A u \in DOMAIN dbTasks' : dbTasks'[u].item # tasks[c][t].item
    BY <2>1, <2>2 DEF DropTask, DeleteRow, Without, ItemInv, CopiesAgree
  <2>4. \A d \in Ctx : \A e \in event'[d] :
           \/ e \in event[d]
           \/ e = Row(tasks[c][t])
    BY <1>1, <2>1 DEF TypeOK
  <2>5. tasks[c][t].item \in used
    BY <2>2 DEF ItemInv, ItemsUsed
  <2> QED
    BY <1>1, <2>1, <2>3, <2>4, <2>5, DropTaskNothingNew, RowFields
       DEF NothingNew, history
<1> QED
  BY <1>2, <1>3, <1>4

\* Every step keeps the invariant of the items.
LEMMA NextItemInv == Inv /\ ItemInv /\ [Next]_vars => ItemInv'
<1> SUFFICES ASSUME Inv, ItemInv, [Next]_vars PROVE ItemInv'
  OBVIOUS
<1>1. TypeOK
  BY DEF Inv
<1>2. CASE UNCHANGED vars
  BY <1>2, NothingMoves, NothingNewKeeps DEF vars, db, memory, control, history
<1>3. CASE Next
  <2>1. PICK c \in Ctx :
           \/ Open(c) \/ Close(c) \/ Crash(c)
           \/ \E item \in Items \ used :
                 AddProject(c, item) \/ \E p \in Ids : AddTask(c, p, item)
           \/ AddProjectFails(c)
           \/ \E p \in Ids : AddTaskFails(c, p) \/ RemoveProject(c, p)
           \/ \E t \in Ids : RemoveTask(c, t) \/ Elapse(c, t)
                             \/ ClockSetBack(c, t)
           \/ Serialize(c) \/ LoadProjects(c) \/ LoadTasks(c) \/ LoadFails(c)
           \/ UpdateStart(c) \/ UpdateDelete(c) \/ UpdateFails(c)
           \/ UpdateAnnounce(c)
    BY <1>3 DEF Next
  <2>2. CASE \E item \in Items \ used, p \in Ids : AddTask(c, p, item)
    BY <1>1, <2>2, AddTaskKeeps
  <2>3. CASE \/ Open(c) \/ Close(c) \/ Crash(c)
             \/ \E item \in Items \ used : AddProject(c, item)
             \/ AddProjectFails(c)
             \/ \E p \in Ids : AddTaskFails(c, p) \/ RemoveProject(c, p)
             \/ \E t \in Ids : RemoveTask(c, t)
    BY <1>1, <2>3, MethodNothingNew, NothingNewKeeps
  <2>4. CASE \/ Serialize(c) \/ LoadProjects(c) \/ LoadTasks(c) \/ LoadFails(c)
             \/ \E t \in Ids : Elapse(c, t) \/ ClockSetBack(c, t)
    BY <1>1, <2>4, LoadNothingNew, NothingNewKeeps
  <2>5. CASE \/ UpdateStart(c) \/ UpdateDelete(c) \/ UpdateFails(c)
             \/ UpdateAnnounce(c)
    BY <2>5, UpdateNothingNew, NothingNewKeeps
  <2> QED
    BY <2>1, <2>2, <2>3, <2>4, <2>5
<1> QED
  BY <1>2, <1>3

\* Nothing is used, filed or announced at first.
LEMMA InitItemInv == Init => ItemInv
<1> SUFFICES ASSUME Init PROVE ItemInv
  OBVIOUS
<1>1. /\ DOMAIN dbTasks = {} /\ announced = {}
      /\ \A c \in Ctx : DOMAIN tasks[c] = {} /\ event[c] = {}
  BY EmptyType DEF Init
<1> QED
  BY <1>1 DEF ItemInv, ItemsUsed, OneRowPerItem, CopiesAgree, AnnouncedIsGone

\* The invariant of the items holds in every reachable state.
THEOREM ItemInvariance == Spec => [](Inv /\ ItemInv)
<1>1. Init => ItemInv
  BY InitItemInv
<1>2. Inv /\ ItemInv /\ [Next]_vars => ItemInv'
  BY NextItemInv
<1> QED
  BY <1>1, <1>2, Invariance, PTL DEF Spec

\* With any number of contexts, a task whose event was sent or is about to be
\* sent is in no row of the table: update deletes by the id and the project it
\* remembers (context.rs:174-182), and these still find the row if there is one.
THEOREM AnnouncedStaysGone == Spec => []AnnouncedIsGone
<1>1. ItemInv => AnnouncedIsGone
  BY DEF ItemInv
<1> QED
  BY <1>1, ItemInvariance, PTL
=============================================================================
