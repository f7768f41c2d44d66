---------------------- MODULE SelfmaContext_one_proofs ----------------------
(***************************************************************************)
(* Theorems about a database with a single context: its memory stays with  *)
(* the tables, each task is announced once, and the crate is a TaskBook.   *)
(***************************************************************************)
EXTENDS SelfmaContext_proofs

OneContext == \A c, d \in Ctx : c = d

\* The foreign key of the table of tasks.
TasksHaveProjects ==
    \A t \in DOMAIN dbTasks : dbTasks[t].project \in DOMAIN dbProjects

\* What deserialize read of the projects is still what the table holds.
ReadIsCurrent == \A c \in Ctx : pc[c] = "loading" => rows[c] = dbProjects

SoloInv == /\ TasksHaveProjects /\ ReadIsCurrent
           /\ WriteThrough /\ NoOrphanTask /\ AnnouncedOnce

-----------------------------------------------------------------------------
(* Every action keeps SoloInv *)

\* An action that leaves the tables, the maps and the events alone.
LEMMA SoloStill ==
    ASSUME SoloInv,
           UNCHANGED <<dbProjects, dbTasks, projects, tasks, event, announced>>,
           \A d \in Ctx : pc'[d] = "loading" => rows'[d] = dbProjects
    PROVE  SoloInv'
BY DEF SoloInv, TasksHaveProjects, ReadIsCurrent, WriteThrough, NoOrphanTask,
   AnnouncedOnce

\* The life of the context, failed insertions, serialize.
LEMMA SoloLife ==
    ASSUME OneContext, TypeOK, SoloInv, NEW c \in Ctx,
           \/ Open(c) \/ Close(c) \/ Crash(c) \/ AddProjectFails(c)
           \/ \E p \in Ids : AddTaskFails(c, p)
           \/ Serialize(c)
    PROVE  SoloInv'
<1>1. CASE Open(c)
  <2>1. pc'[c] = "idle"
    BY <1>1 DEF Open, TypeOK
  <2> QED
    BY <1>1, <2>1, SoloStill DEF Open, db, memory, history, OneContext
<1>2. CASE \/ AddProjectFails(c) \/ \E p \in Ids : AddTaskFails(c, p)
           \/ Serialize(c)
  <2>1. pc' = pc /\ pc[c] = "idle"
    BY <1>2 DEF AddProjectFails, AddTaskFails, Serialize, control
  <2> QED
    BY <1>2, <2>1, SoloStill DEF AddProjectFails, AddTaskFails, Serialize,
       db, memory, control, history, OneContext
<1>3. CASE Close(c) \/ Crash(c)
  <2>1. /\ pc'[c] = "closed" /\ DOMAIN projects'[c] = {}
        /\ DOMAIN tasks'[c] = {} /\ event'[c] = {}
        /\ dbProjects' = dbProjects /\ dbTasks' = dbTasks
    BY <1>3, EmptyType DEF Close, Crash, Forget, TypeOK, db
  <2> QED
    BY <2>1 DEF OneContext, SoloInv, TasksHaveProjects, ReadIsCurrent,
       WriteThrough, NoOrphanTask, AnnouncedOnce
<1> QED
  BY <1>1, <1>2, <1>3

\* add_project adds one entry to both sides.
LEMMA SoloAddProject ==
    ASSUME OneContext, TypeOK, SoloInv, NEW c \in Ctx, NEW item,
           AddProject(c, item)
    PROVE  SoloInv'
<1> DEFINE id == AllocatedId(projectIds[c])
<1>1. /\ DOMAIN dbProjects' = DOMAIN dbProjects \cup {id}
      /\ dbProjects'[id] = item
      /\ \A p \in DOMAIN dbProjects \ {id} : dbProjects'[p] = dbProjects[p]
      /\ DOMAIN projects'[c] = DOMAIN projects[c] \cup {id}
      /\ projects'[c][id] = item
      /\ \A p \in DOMAIN projects[c] \ {id} : projects'[c][p] = projects[c][p]
      /\ UNCHANGED <<dbTasks, tasks, pc, event, announced>> /\ pc[c] = "idle"
  BY DEF AddProject, With, TypeOK, control
<1> HIDE DEF id
<1>2. TasksHaveProjects' /\ ReadIsCurrent' /\ NoOrphanTask' /\ AnnouncedOnce'
  BY <1>1 DEF OneContext, SoloInv, TasksHaveProjects, ReadIsCurrent,
     NoOrphanTask, AnnouncedOnce
<1>3. WriteThrough'
  BY <1>1 DEF OneContext, SoloInv, WriteThrough
<1> QED
  BY <1>2, <1>3 DEF SoloInv

\* add_task too.
LEMMA SoloAddTask ==
    ASSUME OneContext, TypeOK, SoloInv, NEW c \in Ctx, NEW p, NEW item,
           AddTask(c, p, item)
    PROVE  SoloInv'
<1> DEFINE id == AllocatedId(taskIds[c])
           row == [project |-> p, item |-> item]
<1>1. /\ DOMAIN dbTasks' = DOMAIN dbTasks \cup {id}
      /\ dbTasks'[id] = row
      /\ \A t \in DOMAIN dbTasks \ {id} : dbTasks'[t] = dbTasks[t]
      /\ DOMAIN tasks'[c] = DOMAIN tasks[c] \cup {id}
      /\ tasks'[c][id] = Loaded(row)
      /\ \A t \in DOMAIN tasks[c] \ {id} : tasks'[c][t] = tasks[c][t]
      /\ UNCHANGED <<dbProjects, projects, pc, event, announced>>
      /\ pc[c] = "idle" /\ p \in DOMAIN projects[c] /\ p \in DOMAIN dbProjects
      /\ id \notin DOMAIN dbTasks
  BY DEF AddTask, With, TaskInsertable, TypeOK, control
<1>2. Row(Loaded(row)) = row /\ row.project = p /\ Loaded(row).project = p
  BY DEF Row, Loaded
<1> HIDE DEF id, row
<1>3. TasksHaveProjects' /\ ReadIsCurrent' /\ NoOrphanTask' /\ AnnouncedOnce'
  BY <1>1, <1>2 DEF OneContext, SoloInv, TasksHaveProjects, ReadIsCurrent,
     NoOrphanTask, AnnouncedOnce
<1>4. WriteThrough'
  BY <1>1, <1>2 DEF OneContext, SoloInv, WriteThrough
<1> QED
  BY <1>3, <1>4 DEF SoloInv

\* The cascade in SQL and the loop in memory remove the same tasks.
LEMMA SoloRemoveProject ==
    ASSUME OneContext, TypeOK, SoloInv, NEW c \in Ctx, NEW p,
           RemoveProject(c, p)
    PROVE  SoloInv'
<1>1. /\ DOMAIN dbProjects' = DOMAIN dbProjects \ {p}
      /\ \A q \in DOMAIN dbProjects' : dbProjects'[q] = dbProjects[q]
      /\ \A t : t \in DOMAIN dbTasks'
                 <=> t \in DOMAIN dbTasks /\ dbTasks[t].project # p
      /\ \A t \in DOMAIN dbTasks' : dbTasks'[t] = dbTasks[t]
  BY DEF RemoveProject, Without, TasksOf
<1>2. /\ DOMAIN projects'[c] = DOMAIN projects[c] \ {p}
      /\ \A q \in DOMAIN projects'[c] : projects'[c][q] = projects[c][q]
      /\ \A t : t \in DOMAIN tasks'[c]
                 <=> t \in DOMAIN tasks[c] /\ tasks[c][t].project # p
      /\ \A t \in DOMAIN tasks'[c] : tasks'[c][t] = tasks[c][t]
      /\ UNCHANGED <<pc, event, announced>> /\ pc[c] = "idle"
  BY DEF RemoveProject, Without, TasksOf, TypeOK, control, history
<1>3. TasksHaveProjects' /\ ReadIsCurrent' /\ NoOrphanTask' /\ AnnouncedOnce'
  BY <1>1, <1>2 DEF OneContext, SoloInv, TasksHaveProjects, ReadIsCurrent,
     NoOrphanTask, AnnouncedOnce
<1>4. WriteThrough'
  <2>1. \A d \in Ctx : d = c
    BY DEF OneContext
  <2>2. \A t \in DOMAIN tasks[c] :
           /\ t \in DOMAIN dbTasks /\ dbTasks[t] = Row(tasks[c][t])
           /\ dbTasks[t].project = tasks[c][t].project
    BY RowFields DEF SoloInv, WriteThrough
  <2>3. \A q \in DOMAIN projects[c] :
           q \in DOMAIN dbProjects /\ dbProjects[q] = projects[c][q]
    BY DEF SoloInv, WriteThrough
  <2>4. \A t \in DOMAIN tasks'[c] :
           t \in DOMAIN dbTasks' /\ dbTasks'[t] = Row(tasks'[c][t])
    BY <1>1, <1>2, <2>2
  <2> QED
    BY <1>1, <1>2, <2>1, <2>3, <2>4 DEF WriteThrough
<1> QED
  BY <1>3, <1>4 DEF SoloInv

\* Dropping a task drops the row it was written through to.
LEMMA SoloDrop ==
    ASSUME OneContext, TypeOK, SoloInv, NEW c \in Ctx, NEW t \in DOMAIN tasks[c],
           DropTask(c, t)
    PROVE  /\ DOMAIN dbTasks' = DOMAIN dbTasks \ {t}
           /\ \A u \in DOMAIN dbTasks' : dbTasks'[u] = dbTasks[u]
           /\ DOMAIN tasks'[c] = DOMAIN tasks[c] \ {t}
           /\ \A u \in DOMAIN tasks'[c] : tasks'[c][u] = tasks[c][u]
           /\ UNCHANGED <<dbProjects, projects>>
           /\ TasksHaveProjects' /\ WriteThrough' /\ NoOrphanTask'
<1>1. t \in DOMAIN dbTasks /\ dbTasks[t].project = tasks[c][t].project
  BY RowFields DEF SoloInv, WriteThrough
<1>2. /\ DOMAIN dbTasks' = DOMAIN dbTasks \ {t}
      /\ \A u \in DOMAIN dbTasks' : dbTasks'[u] = dbTasks[u]
  BY <1>1 DEF DropTask, DeleteRow, Without
<1>3. /\ DOMAIN tasks'[c] = DOMAIN tasks[c] \ {t}
      /\ \A u \in DOMAIN tasks'[c] : tasks'[c][u] = tasks[c][u]
      /\ UNCHANGED <<dbProjects, projects>>
  BY DEF DropTask, Without, TypeOK
<1>4. TasksHaveProjects' /\ WriteThrough' /\ NoOrphanTask'
  BY <1>2, <1>3 DEF OneContext, SoloInv, TasksHaveProjects, WriteThrough,
     NoOrphanTask
<1> QED
  BY <1>2, <1>3, <1>4

LEMMA SoloRemoveTask ==
    ASSUME OneContext, TypeOK, SoloInv, NEW c \in Ctx, NEW t \in Ids,
           RemoveTask(c, t)
    PROVE  SoloInv'
<1>1. /\ t \in DOMAIN tasks[c] /\ DropTask(c, t)
      /\ UNCHANGED <<pc, event, announced>> /\ pc[c] = "idle"
  BY DEF RemoveTask, control, history
<1>2. TasksHaveProjects' /\ WriteThrough' /\ NoOrphanTask'
  BY <1>1, SoloDrop
<1> QED
  BY <1>1, <1>2 DEF OneContext, SoloInv, ReadIsCurrent, AnnouncedOnce

\* deserialize: nothing changes between its queries.
LEMMA SoloLoad ==
    ASSUME OneContext, TypeOK, SoloInv, NEW c \in Ctx,
           LoadProjects(c) \/ LoadTasks(c) \/ LoadFails(c)
    PROVE  SoloInv'
<1>1. CASE LoadProjects(c)
  <2>1. rows'[c] = dbProjects
    BY <1>1 DEF LoadProjects, TypeOK
  <2> QED
    BY <1>1, <2>1, SoloStill DEF LoadProjects, db, memory, history, OneContext
<1>2. CASE LoadFails(c)
  <2>1. pc'[c] = "idle"
    BY <1>2 DEF LoadFails, TypeOK
  <2> QED
    BY <1>2, <2>1, SoloStill DEF LoadFails, db, memory, history, OneContext
<1>3. CASE LoadTasks(c)
  <2>1. /\ projects'[c] = dbProjects /\ pc'[c] = "idle"
        /\ DOMAIN tasks'[c] = DOMAIN dbTasks
        /\ \A t \in DOMAIN dbTasks : tasks'[c][t] = Loaded(dbTasks[t])
        /\ UNCHANGED <<dbProjects, dbTasks, event, announced>>
    BY <1>3 DEF LoadTasks, SoloInv, ReadIsCurrent, TypeOK, db, history
  <2>2. \A t \in DOMAIN dbTasks : Row(Loaded(dbTasks[t])) = dbTasks[t]
    BY RowOfLoaded, MapsDef DEF TypeOK
  <2>3. \A t \in DOMAIN dbTasks : Loaded(dbTasks[t]).project = dbTasks[t].project
    BY DEF Loaded
  <2> QED
    BY <2>1, <2>2, <2>3 DEF OneContext, SoloInv, TasksHaveProjects,
       ReadIsCurrent, WriteThrough, NoOrphanTask, AnnouncedOnce
<1> QED
  BY <1>1, <1>2, <1>3

\* Timers are in memory only.
LEMMA SoloSetDue ==
    ASSUME OneContext, TypeOK, SoloInv, NEW c \in Ctx, NEW t \in Ids, NEW due,
           SetDue(c, t, due)
    PROVE  SoloInv'
<1>1. /\ tasks'[c] = [tasks[c] EXCEPT ![t].due = due]
      /\ UNCHANGED <<dbProjects, dbTasks, projects, pc, rows, event, announced>>
  BY DEF SetDue, TypeOK, db, control, history
<1>2. \A u \in DOMAIN tasks'[c] : /\ u \in DOMAIN tasks[c]
                                   /\ Row(tasks'[c][u]) = Row(tasks[c][u])
                                   /\ tasks'[c][u].project = tasks[c][u].project
  <2> SUFFICES ASSUME NEW u \in DOMAIN tasks'[c]
               PROVE  /\ u \in DOMAIN tasks[c]
                      /\ Row(tasks'[c][u]) = Row(tasks[c][u])
                      /\ tasks'[c][u].project = tasks[c][u].project
    OBVIOUS
  <2>1. tasks[c] \in Maps(MemTasks)
    BY DEF TypeOK
  <2>2. u \in DOMAIN tasks[c] /\ tasks[c][u] \in MemTasks
    BY <1>1, <2>1, MapsDef
  <2>3. \/ tasks'[c][u] = tasks[c][u]
        \/ tasks'[c][u] = [tasks[c][u] EXCEPT !.due = due]
    BY <1>1, <2>2
  <2> QED
    BY <2>2, <2>3 DEF Row, MemTasks
<1>3. TasksHaveProjects' /\ ReadIsCurrent' /\ NoOrphanTask' /\ AnnouncedOnce'
  BY <1>1, <1>2 DEF OneContext, SoloInv, TasksHaveProjects, ReadIsCurrent,
     NoOrphanTask, AnnouncedOnce
<1>4. WriteThrough'
  <2> HIDE DEF Row
  <2> QED
    BY <1>1, <1>2 DEF OneContext, SoloInv, WriteThrough
<1> QED
  BY <1>3, <1>4 DEF SoloInv

\* update: the task it deletes was in the table, so it was not announced.
LEMMA SoloUpdate ==
    ASSUME OneContext, Inv, ItemInv, SoloInv, NEW c \in Ctx,
           \/ UpdateStart(c) \/ UpdateDelete(c) \/ UpdateFails(c)
           \/ UpdateAnnounce(c)
    PROVE  SoloInv'
<1>1. TypeOK /\ Local(c)
  BY InvLocal
<1>2. CASE UpdateStart(c) \/ UpdateFails(c)
  <2>1. pc'[c] # "loading"
    BY <1>1, <1>2 DEF UpdateStart, UpdateFails, TypeOK
  <2> QED
    BY <1>2, <2>1, SoloStill DEF UpdateStart, UpdateFails, db, memory, history,
       OneContext
<1>3. CASE UpdateAnnounce(c)
  <2>1. /\ pc'[c] # "loading" /\ event'[c] = {}
        /\ UNCHANGED <<dbProjects, dbTasks, projects, tasks>>
    BY <1>1, <1>3 DEF UpdateAnnounce, TypeOK, db, memory
  <2> QED
    BY <2>1 DEF OneContext, SoloInv, TasksHaveProjects, ReadIsCurrent,
       WriteThrough, NoOrphanTask, AnnouncedOnce
<1>4. CASE UpdateDelete(c)
  <2> DEFINE t == Min(finished[c])
  <2>1. /\ DropTask(c, t) /\ announced' = announced /\ pc'[c] = "announcing"
        /\ event'[c] = {Row(tasks[c][t])}
    BY <1>1, <1>4 DEF UpdateDelete, history, TypeOK
  <2>2. t \in DOMAIN tasks[c]
    <3>1. finished[c] \in SUBSET Ids /\ finished[c] # {}
      BY <1>1, <1>4 DEF TypeOK, Local, UpdateDelete
    <3> QED
      BY <1>1, <3>1, MinOfNat DEF Local, Ids
  <2> HIDE DEF t
  <2>3. TasksHaveProjects' /\ WriteThrough' /\ NoOrphanTask'
    BY <1>1, <2>1, <2>2, SoloDrop
  <2>4. Row(tasks[c][t]).item \notin announced
    BY <2>2 DEF SoloInv, WriteThrough, ItemInv, AnnouncedIsGone
  <2> QED
    BY <2>1, <2>3, <2>4 DEF OneContext, SoloInv, ReadIsCurrent, AnnouncedOnce
<1> QED
  BY <1>2, <1>3, <1>4

\* Every step of a single context keeps SoloInv.
LEMMA NextSoloInv ==
    ASSUME OneContext PROVE Inv /\ ItemInv /\ SoloInv /\ [Next]_vars => SoloInv'
<1> SUFFICES ASSUME Inv, ItemInv, SoloInv, [Next]_vars PROVE SoloInv'
  OBVIOUS
<1>1. TypeOK
  BY DEF Inv
<1>2. CASE UNCHANGED vars
  BY <1>2, SoloStill DEF vars, db, memory, control, history, SoloInv,
     ReadIsCurrent
<1>3. CASE Next
  <2>1. PICK c \in Ctx :
           \/ Open(c) \/ Close(c) \/ Crash(c)
           \/ \E item \in Items \ used :
                 AddProject(c, item) \/ \E p \in Ids : AddTask(c, p, item)
           \/ AddProjectFails(c)
           \/ \E p \in Ids : AddTaskFails(c, p) \/ RemoveProject(c, p)
           \/ \E t \in Ids : RemoveTask(c, t) \/ Elapse(c, t)
                             \/ ClockSetBack(c, t)
           \/ Serialize(c) \/ LoadProjects(c) \/ LoadTasks(c) \/ LoadFails(c)
           \/ UpdateStart(c) \/ UpdateDelete(c) \/ UpdateFails(c)
           \/ UpdateAnnounce(c)
    BY <1>3 DEF Next
  <2>2. CASE \/ Open(c) \/ Close(c) \/ Crash(c) \/ AddProjectFails(c)
             \/ \E p \in Ids : AddTaskFails(c, p)
             \/ Serialize(c)
    BY <1>1, <2>2, SoloLife
  <2>3. CASE \E item \in Items \ used :
                AddProject(c, item) \/ \E p \in Ids : AddTask(c, p, item)
    BY <1>1, <2>3, SoloAddProject, SoloAddTask
  <2>4. CASE \/ \E p \in Ids : RemoveProject(c, p)
             \/ \E t \in Ids : RemoveTask(c, t)
    BY <1>1, <2>4, SoloRemoveProject, SoloRemoveTask
  <2>5. CASE LoadProjects(c) \/ LoadTasks(c) \/ LoadFails(c)
    BY <1>1, <2>5, SoloLoad
  <2>6. CASE \E t \in Ids : Elapse(c, t) \/ ClockSetBack(c, t)
    BY <1>1, <2>6, SoloSetDue DEF Elapse, ClockSetBack
  <2>7. CASE \/ UpdateStart(c) \/ UpdateDelete(c) \/ UpdateFails(c)
             \/ UpdateAnnounce(c)
    BY <2>7, SoloUpdate
  <2> QED
    BY <2>1, <2>2, <2>3, <2>4, <2>5, <2>6, <2>7
<1> QED
  BY <1>2, <1>3

\* Memory and tables are empty at first.
LEMMA InitSoloInv == Init => SoloInv
<1> SUFFICES ASSUME Init PROVE SoloInv
  OBVIOUS
<1>1. /\ DOMAIN dbTasks = {}
      /\ \A c \in Ctx : /\ DOMAIN projects[c] = {} /\ DOMAIN tasks[c] = {}
                         /\ event[c] = {} /\ pc[c] = "closed"
  BY EmptyType DEF Init
<1> QED
  BY <1>1 DEF SoloInv, TasksHaveProjects, ReadIsCurrent, WriteThrough,
     NoOrphanTask, AnnouncedOnce

\* The invariant of a single context holds in every reachable state.
THEOREM SoloInvariance ==
    ASSUME OneContext PROVE Spec => [](Inv /\ ItemInv /\ SoloInv)
<1>1. Init => SoloInv
  BY InitSoloInv
<1>2. Inv /\ ItemInv /\ SoloInv /\ [Next]_vars => SoloInv'
  BY NextSoloInv
<1> QED
  BY <1>1, <1>2, ItemInvariance, PTL DEF Spec

\* What a single context has in memory is in the database, for any id limit,
\* any failures, crashes and reloads.
THEOREM StaysWrittenThrough ==
    ASSUME OneContext PROVE Spec => []WriteThrough
<1>1. SoloInv => WriteThrough
  BY DEF SoloInv
<1> QED
  BY <1>1, SoloInvariance, PTL

\* Every task that a single context holds belongs to a project that it holds.
THEOREM NeverAnOrphan ==
    ASSUME OneContext PROVE Spec => []NoOrphanTask
<1>1. SoloInv => NoOrphanTask
  BY DEF SoloInv
<1> QED
  BY <1>1, SoloInvariance, PTL

\* A single context announces no task twice, also across crashes and reloads.
THEOREM NeverAnnouncedTwice ==
    ASSUME OneContext PROVE Spec => []AnnouncedOnce
<1>1. SoloInv => AnnouncedOnce
  BY DEF SoloInv
<1> QED
  BY <1>1, SoloInvariance, PTL

-----------------------------------------------------------------------------
(* What a step of a single context may not do *)

\* A pass deletes the row of the task it announces next and no other.
THEOREM DeletesWhatItAnnounces ==
    ASSUME OneContext PROVE Spec => UpdateDeletesWhatItAnnounces
<1>1. ASSUME Inv, SoloInv, [Next]_vars
      PROVE  [\A c \in Ctx : pc[c] = "updating" =>
                \A t \in DOMAIN dbTasks \ DOMAIN dbTasks' :
                   event'[c] = {dbTasks[t]}]_vars
  <2> SUFFICES ASSUME Next, NEW c \in Ctx, pc[c] = "updating",
                      NEW t \in DOMAIN dbTasks \ DOMAIN dbTasks'
               PROVE  event'[c] = {dbTasks[t]}
    BY <1>1
  <2>1. TypeOK /\ Local(c)
    BY <1>1, InvLocal
  <2>2. UpdateDelete(c)
    <3>1. \A d \in Ctx : d = c
      BY DEF OneContext
    <3>2. /\ ~Open(c) /\ ~AddProjectFails(c) /\ ~Serialize(c)
          /\ ~LoadProjects(c) /\ ~LoadTasks(c) /\ ~LoadFails(c)
          /\ ~UpdateStart(c) /\ ~UpdateAnnounce(c)
      BY DEF Open, AddProjectFails, Serialize, LoadProjects, LoadTasks,
         LoadFails, UpdateStart, UpdateAnnounce
    <3>3. /\ \A item : ~AddProject(c, item) /\ \A p : ~AddTask(c, p, item)
          /\ \A p : ~AddTaskFails(c, p) /\ ~RemoveProject(c, p)
          /\ \A v : ~RemoveTask(c, v)
      BY DEF AddProject, AddTask, AddTaskFails, RemoveProject, RemoveTask
    <3>4. /\ ~Close(c) /\ ~Crash(c) /\ ~UpdateFails(c)
          /\ \A v : ~Elapse(c, v) /\ ~ClockSetBack(c, v)
      BY DEF Close, Crash, Forget, UpdateFails, Elapse, ClockSetBack, SetDue, db
    <3> QED
      BY <3>1, <3>2, <3>3, <3>4 DEF Next
  <2> DEFINE u == Min(finished[c])
  <2>3. DropTask(c, u) /\ event'[c] = {Row(tasks[c][u])}
    BY <2>1, <2>2 DEF UpdateDelete, TypeOK
  <2>4. u \in DOMAIN tasks[c]
    <3>1. finished[c] \in SUBSET Ids /\ finished[c] # {}
      BY <2>1, <2>2 DEF TypeOK, Local, UpdateDelete
    <3> QED
      BY <2>1, <3>1, MinOfNat DEF Local, Ids
  <2> HIDE DEF u
  <2>5. DOMAIN dbTasks' = DOMAIN dbTasks \ {u}
    BY <1>1, <2>1, <2>3, <2>4, SoloDrop
  <2>6. t = u
    BY <2>5
  <2> QED
    BY <1>1, <2>3, <2>4, <2>6 DEF SoloInv, WriteThrough
<1> QED
  BY <1>1, SoloInvariance, PTL DEF Spec, UpdateDeletesWhatItAnnounces

\* Written through, memory mirrors the tables when it has all their ids.
SameIds(c) == /\ DOMAIN projects[c] = DOMAIN dbProjects
              /\ DOMAIN tasks[c] = DOMAIN dbTasks

LEMMA InSyncIsSameIds ==
    ASSUME TypeOK, SoloInv, NEW c \in Ctx PROVE InSync(c) <=> SameIds(c)
<1>1. InSync(c) => SameIds(c)
  BY DEF InSync, SameIds
<1>2. ASSUME SameIds(c) PROVE InSync(c)
  <2>1. /\ projects[c] \in Maps(Items) /\ dbProjects \in Maps(Items)
        /\ dbTasks \in Maps(Rows)
    BY DEF TypeOK
  <2>2. /\ projects[c] = [p \in DOMAIN projects[c] |-> projects[c][p]]
        /\ dbProjects = [p \in DOMAIN dbProjects |-> dbProjects[p]]
        /\ dbTasks = [t \in DOMAIN dbTasks |-> dbTasks[t]]
    BY <2>1, MapsDef
  <2>3. projects[c] = dbProjects
    BY <1>2, <2>2 DEF SameIds, SoloInv, WriteThrough
  <2>4. [t \in DOMAIN tasks[c] |-> Row(tasks[c][t])] = dbTasks
    BY <1>2, <2>2 DEF SameIds, SoloInv, WriteThrough
  <2> QED
    BY <2>3, <2>4 DEF InSync
<1> QED
  BY <1>1, <1>2

\* Every step adds an id to both sides, removes it from both, or loads all.
LEMMA SameIdsStay ==
    ASSUME OneContext, Inv, SoloInv, Next, NEW c \in Ctx, SameIds(c),
           pc'[c] # "closed"
    PROVE  SameIds(c)'
<1>1. TypeOK /\ Local(c) /\ \A d \in Ctx : d = c
  BY InvLocal DEF OneContext
<1>2. CASE UNCHANGED <<dbProjects, dbTasks, projects, tasks>>
  BY <1>2 DEF SameIds
<1>3. ~Close(c) /\ ~Crash(c)
  BY <1>1 DEF Close, Crash, Forget, TypeOK
<1>4. ASSUME NEW item, AddProject(c, item) PROVE SameIds(c)'
  BY <1>1, <1>4 DEF AddProject, With, SameIds, TypeOK
<1>5. ASSUME NEW p, NEW item, AddTask(c, p, item) PROVE SameIds(c)'
  BY <1>1, <1>5 DEF AddTask, With, SameIds, TypeOK
<1>6. ASSUME NEW p, RemoveProject(c, p) PROVE SameIds(c)'
  <2>1. TasksOf(tasks[c], p) = TasksOf(dbTasks, p)
    BY RowFields DEF TasksOf, SameIds, SoloInv, WriteThrough
  <2>2. /\ DOMAIN projects'[c] = DOMAIN projects[c] \ {p}
        /\ DOMAIN dbProjects' = DOMAIN dbProjects \ {p}
        /\ DOMAIN tasks'[c] = DOMAIN tasks[c] \ TasksOf(tasks[c], p)
        /\ DOMAIN dbTasks' = DOMAIN dbTasks \ TasksOf(dbTasks, p)
    BY <1>1, <1>6 DEF RemoveProject, Without, TypeOK
  <2> QED
    BY <2>1, <2>2 DEF SameIds
<1>7. ASSUME NEW t \in DOMAIN tasks[c], DropTask(c, t) PROVE SameIds(c)'
  BY <1>1, <1>7, SoloDrop DEF SameIds
<1>8. CASE UpdateDelete(c)
  <2>1. finished[c] \in SUBSET Ids /\ finished[c] # {}
    BY <1>1, <1>8 DEF TypeOK, Local, UpdateDelete
  <2>2. Min(finished[c]) \in DOMAIN tasks[c]
    BY <1>1, <2>1, MinOfNat DEF Local, Ids
  <2> QED
    BY <1>7, <1>8, <2>2 DEF UpdateDelete
<1>9. CASE LoadTasks(c)
  BY <1>1, <1>9 DEF LoadTasks, SameIds, SoloInv, ReadIsCurrent, TypeOK, db
<1>10. ASSUME NEW t, NEW due, SetDue(c, t, due) PROVE SameIds(c)'
  BY <1>1, <1>10 DEF SetDue, SameIds, TypeOK, db
<1> QED
  <2>1. CASE \/ Open(c) \/ AddProjectFails(c)
             \/ \E p \in Ids : AddTaskFails(c, p)
             \/ Serialize(c) \/ LoadProjects(c) \/ LoadFails(c)
             \/ UpdateStart(c) \/ UpdateFails(c) \/ UpdateAnnounce(c)
    BY <1>2, <2>1 DEF Open, AddProjectFails, AddTaskFails, Serialize,
       LoadProjects, LoadFails, UpdateStart, UpdateFails, UpdateAnnounce, db,
       memory
  <2>2. CASE \E t \in Ids : \/ RemoveTask(c, t) \/ Elapse(c, t)
                            \/ ClockSetBack(c, t)
    BY <1>7, <1>10, <2>2 DEF RemoveTask, Elapse, ClockSetBack
  <2> QED
    BY <1>1, <1>3, <1>4, <1>5, <1>6, <1>8, <1>9, <2>1, <2>2 DEF Next

\* Once the memory of a single context mirrors the database it does so until
\* the context is closed.
THEOREM AlwaysInSync == ASSUME OneContext PROVE Spec => StaysInSync
<1>1. ASSUME Inv, ItemInv, SoloInv, [Next]_vars, Inv'
      PROVE  [\A c \in Ctx :
                InSync(c) /\ pc'[c] # "closed" => InSync(c)']_vars
  <2> SUFFICES ASSUME Next, NEW c \in Ctx, InSync(c), pc'[c] # "closed"
               PROVE  InSync(c)'
    BY <1>1
  <2>1. SoloInv' /\ TypeOK /\ TypeOK'
    BY <1>1, NextSoloInv DEF Inv
  <2>2. SameIds(c)
    BY <1>1, <2>1, InSyncIsSameIds
  <2>3. SameIds(c)'
    BY <1>1, <2>2, SameIdsStay
  <2>4. (TypeOK /\ SoloInv => (InSync(c) <=> SameIds(c)))'
    BY InSyncIsSameIds, PTL
  <2> QED
    BY <2>1, <2>3, <2>4
<1> QED
  BY <1>1, SoloInvariance, PTL DEF Spec, StaysInSync

-----------------------------------------------------------------------------
(* The crate with a single context implements TaskBook *)


\* What the variables of the book stand for.
Filing(t) == <<dbTasks[t].item, dbProjects[dbTasks[t].project]>>
Open_ == {dbProjects[p] : p \in DOMAIN dbProjects}
Filed_ == {Filing(t) : t \in DOMAIN dbTasks}
Leaving_ == UNION {{e.item : e \in event[c]} : c \in Ctx}

-----------------------------------------------------------------------------
(* Projects of different rows are different *)

\* No two rows have the item of one creation, and every item was used in one.
ProjectInv ==
    /\ \A p \in DOMAIN dbProjects : dbProjects[p] \in used
    /\ \A p, q \in DOMAIN dbProjects : dbProjects[p] = dbProjects[q] => p = q

\* Only add_project inserts a row, of an item that was never used.
LEMMA NextProjectInv == ProjectInv /\ [Next]_vars => ProjectInv'
<1> SUFFICES ASSUME ProjectInv, [Next]_vars PROVE ProjectInv'
  OBVIOUS
<1>1. ASSUME /\ \A p \in DOMAIN dbProjects' :
                   p \in DOMAIN dbProjects /\ dbProjects'[p] = dbProjects[p]
             /\ used \subseteq used'
      PROVE  ProjectInv'
  BY <1>1 DEF ProjectInv
<1>2. CASE UNCHANGED <<dbProjects, used>>
  BY <1>1, <1>2
<1>3. ASSUME NEW c \in Ctx, NEW item \in Items \ used, AddProject(c, item)
      PROVE  ProjectInv'
  <2> DEFINE id == AllocatedId(projectIds[c])
  <2>1. /\ DOMAIN dbProjects' = DOMAIN dbProjects \cup {id}
        /\ dbProjects'[id] = item
        /\ \A p \in DOMAIN dbProjects \ {id} : dbProjects'[p] = dbProjects[p]
        /\ used' = used \cup {item}
    BY <1>3 DEF AddProject, With
  <2> HIDE DEF id
  <2> QED
    BY <2>1 DEF ProjectInv
<1>4. ASSUME NEW c \in Ctx, NEW p, RemoveProject(c, p) PROVE ProjectInv'
  BY <1>1, <1>4 DEF RemoveProject, Without, history
<1>5. ASSUME NEW c \in Ctx, NEW p, NEW item, AddTask(c, p, item)
      PROVE  ProjectInv'
  BY <1>1, <1>5 DEF AddTask
<1>6. CASE UNCHANGED vars
  BY <1>2, <1>6 DEF vars, db, history
<1>7. ASSUME NEW c \in Ctx,
             \/ Open(c) \/ Close(c) \/ Crash(c) \/ AddProjectFails(c)
             \/ Serialize(c) \/ LoadProjects(c) \/ LoadTasks(c) \/ LoadFails(c)
             \/ UpdateStart(c) \/ UpdateDelete(c) \/ UpdateFails(c)
             \/ UpdateAnnounce(c)
      PROVE  ProjectInv'
  BY <1>2, <1>7 DEF Open, Close, Crash, Forget, AddProjectFails, Serialize,
     LoadProjects, LoadTasks, LoadFails, UpdateStart, UpdateDelete, DropTask,
     UpdateFails, UpdateAnnounce, db, history
<1>8. ASSUME NEW c \in Ctx, NEW v,
             \/ AddTaskFails(c, v) \/ RemoveTask(c, v)
             \/ Elapse(c, v) \/ ClockSetBack(c, v)
      PROVE  ProjectInv'
  BY <1>2, <1>8 DEF AddTaskFails, RemoveTask, DropTask, Elapse, ClockSetBack,
     SetDue, db, history
<1>9. CASE Next
  BY <1>3, <1>4, <1>5, <1>7, <1>8, <1>9 DEF Next
<1> QED
  BY <1>6, <1>9

\* No row, no project.
LEMMA InitProjectInv == Init => ProjectInv
BY EmptyType DEF Init, ProjectInv

BookInv == Inv /\ ItemInv /\ SoloInv /\ ProjectInv

-----------------------------------------------------------------------------
(* Every action is an operation of the book or leaves it alone *)

\* What the book does not see.
LEMMA BookStill ==
    ASSUME UNCHANGED <<dbProjects, dbTasks, event, announced, used>>
    PROVE  UNCHANGED Book!bookVars
BY DEF Book!bookVars

\* add_project
LEMMA AddProjectBegins ==
    ASSUME BookInv, NEW c \in Ctx, NEW item \in Items \ used,
           AddProject(c, item)
    PROVE  Book!BookNext
<1> DEFINE id == AllocatedId(projectIds[c])
<1>1. /\ id \notin DOMAIN dbProjects
      /\ DOMAIN dbProjects' = DOMAIN dbProjects \cup {id}
      /\ dbProjects'[id] = item
      /\ \A p \in DOMAIN dbProjects \ {id} : dbProjects'[p] = dbProjects[p]
      /\ used' = used \cup {item}
      /\ UNCHANGED <<dbTasks, event, announced>>
  BY DEF AddProject, With, control
<1> HIDE DEF id
<1>2. Open_' = Open_ \cup {item}
  BY <1>1 DEF Open_
<1>3. Filed_' = Filed_
  <2>1. \A t \in DOMAIN dbTasks : Filing(t)' = Filing(t)
    BY <1>1 DEF BookInv, SoloInv, TasksHaveProjects, Filing
  <2> QED
    BY <1>1, <2>1 DEF Filed_
<1>4. Leaving_' = Leaving_
  BY <1>1 DEF Leaving_
<1>5. Book!Begin(item)
  BY <1>1, <1>2, <1>3, <1>4 DEF Book!Begin, Open_, Filed_, Leaving_, Filing
<1> QED
  BY <1>5 DEF Book!BookNext

\* add_task
LEMMA AddTaskFiles ==
    ASSUME BookInv, NEW c \in Ctx, NEW p \in Ids, NEW item \in Items \ used,
           AddTask(c, p, item)
    PROVE  Book!BookNext
<1>1. PICK id :
      /\ id \notin DOMAIN dbTasks /\ p \in DOMAIN dbProjects
      /\ DOMAIN dbTasks' = DOMAIN dbTasks \cup {id}
      /\ dbTasks'[id].item = item /\ dbTasks'[id].project = p
      /\ \A t \in DOMAIN dbTasks \ {id} : dbTasks'[t] = dbTasks[t]
      /\ used' = used \cup {item}
      /\ UNCHANGED <<dbProjects, event, announced>>
  BY DEF AddTask, With, TaskInsertable, control
<1>0. PICK project : project = dbProjects[p]
  OBVIOUS
<1>2. Filed_' = Filed_ \cup {<<item, project>>}
  <2>1. Filing(id)' = <<item, project>>
    BY <1>0, <1>1 DEF Filing
  <2>2. \A t \in DOMAIN dbTasks : Filing(t)' = Filing(t)
    BY <1>1 DEF Filing
  <2> QED
    BY <1>1, <2>1, <2>2 DEF Filed_
<1>3. project \in Open_ /\ Open_' = Open_ /\ Leaving_' = Leaving_
  BY <1>0, <1>1 DEF Open_, Leaving_
<1>4. Book!File(item, project)
  BY <1>1, <1>2, <1>3 DEF Book!File, Open_, Filed_, Leaving_, Filing
<1> QED
  BY <1>3, <1>4 DEF Book!BookNext, Open_

\* remove_project
LEMMA RemoveProjectFinishes ==
    ASSUME BookInv, NEW c \in Ctx, NEW p \in Ids, RemoveProject(c, p)
    PROVE  Book!BookNext
<1>0. PICK project : project = dbProjects[p]
  OBVIOUS
<1>1. /\ DOMAIN dbProjects' = DOMAIN dbProjects \ {p}
      /\ \A q \in DOMAIN dbProjects' : dbProjects'[q] = dbProjects[q]
      /\ \A t : t \in DOMAIN dbTasks'
                 <=> t \in DOMAIN dbTasks /\ dbTasks[t].project # p
      /\ \A t \in DOMAIN dbTasks' : dbTasks'[t] = dbTasks[t]
      /\ UNCHANGED <<event, announced, used>>
  BY DEF RemoveProject, Without, TasksOf, control, history
<1>2. p \in DOMAIN dbProjects /\ project \in Items
  <2>1. p \in DOMAIN dbProjects
    BY DEF BookInv, SoloInv, WriteThrough, RemoveProject
  <2> QED
    BY <1>0, <2>1, MapsDef DEF BookInv, Inv, TypeOK
<1>3. \A q \in DOMAIN dbProjects : dbProjects[q] = project => q = p
  BY <1>0, <1>2 DEF BookInv, ProjectInv
<1>4. project \in Open_ /\ Open_' = Open_ \ {project}
  <2>1. \A q \in DOMAIN dbProjects : q # p => dbProjects[q] # project
    BY <1>3
  <2> QED
    BY <1>0, <1>1, <1>2, <2>1 DEF Open_
<1>5. Filed_' = {x \in Filed_ : x[2] # project}
  <2>1. \A t \in DOMAIN dbTasks' : Filing(t)' = Filing(t)
    BY <1>1 DEF BookInv, SoloInv, TasksHaveProjects, Filing
  <2>2. \A t \in DOMAIN dbTasks :
           Filing(t)[2] # project <=> dbTasks[t].project # p
    BY <1>0, <1>3 DEF BookInv, SoloInv, TasksHaveProjects, Filing
  <2> QED
    BY <1>1, <2>1, <2>2 DEF Filed_
<1>6. Leaving_' = Leaving_
  BY <1>1 DEF Leaving_
<1>7. Book!Finish(project)
  BY <1>1, <1>4, <1>5, <1>6 DEF Book!Finish, Open_, Filed_, Leaving_, Filing
<1> QED
  BY <1>2, <1>7 DEF Book!BookNext

\* Dropping a task takes its filing out of the book, and no other.
LEMMA DropTaskFiled ==
    ASSUME OneContext, BookInv, NEW c \in Ctx, NEW t \in DOMAIN tasks[c],
           DropTask(c, t)
    PROVE  /\ Filing(t) \in Filed_ /\ Filed_' = Filed_ \ {Filing(t)}
           /\ Open_' = Open_
           /\ dbTasks[t] = Row(tasks[c][t])
<1>1. t \in DOMAIN dbTasks /\ dbTasks[t] = Row(tasks[c][t])
  BY DEF BookInv, SoloInv, WriteThrough
<1>2. /\ DOMAIN dbTasks' = DOMAIN dbTasks \ {t}
      /\ \A u \in DOMAIN dbTasks' : dbTasks'[u] = dbTasks[u]
      /\ dbProjects' = dbProjects
  BY SoloDrop DEF BookInv, Inv
<1>3. \A u \in DOMAIN dbTasks' : Filing(u)' = Filing(u)
  BY <1>2 DEF Filing
<1>4. \A u \in DOMAIN dbTasks : u # t => Filing(u) # Filing(t)
  BY <1>1 DEF Filing, BookInv, ItemInv, OneRowPerItem
<1> QED
  BY <1>1, <1>2, <1>3, <1>4 DEF Filed_, Open_

\* remove_task
LEMMA RemoveTaskStrikes ==
    ASSUME OneContext, BookInv, NEW c \in Ctx, NEW t \in Ids, RemoveTask(c, t)
    PROVE  Book!BookNext
<1>1. /\ t \in DOMAIN tasks[c] /\ DropTask(c, t)
      /\ UNCHANGED <<event, announced, used>>
  BY DEF RemoveTask, control, history
<1>2. PICK x : /\ x \in Filed_ /\ Filed_' = Filed_ \ {x}
               /\ Open_' = Open_ /\ Leaving_' = Leaving_
  BY <1>1, DropTaskFiled DEF Leaving_
<1>3. Book!Strike(x)
  BY <1>1, <1>2 DEF Book!Strike, Open_, Filed_, Leaving_, Filing
<1> QED
  BY <1>2, <1>3 DEF Book!BookNext, Filed_, Filing

\* What the only context is about to announce is what leaves the book.
LEMMA LeavingIsEvent ==
    ASSUME OneContext, NEW c \in Ctx
    PROVE  Leaving_ = {e.item : e \in event[c]}
BY DEF OneContext, Leaving_

\* The step of update that deletes.
LEMMA UpdateDeleteExpires ==
    ASSUME OneContext, BookInv, NEW c \in Ctx, UpdateDelete(c)
    PROVE  Book!BookNext
<1> DEFINE t == Min(finished[c])
<1>1. TypeOK /\ Local(c)
  BY InvLocal DEF BookInv
<1>2. /\ DropTask(c, t) /\ event[c] = {} /\ event'[c] = {Row(tasks[c][t])}
      /\ UNCHANGED <<announced, used>>
  BY <1>1 DEF UpdateDelete, TypeOK, history
<1>3. t \in DOMAIN tasks[c]
  <2>1. finished[c] \in SUBSET Ids /\ finished[c] # {}
    BY <1>1 DEF TypeOK, Local, UpdateDelete
  <2> QED
    BY <1>1, <2>1, MinOfNat DEF Local, Ids
<1> HIDE DEF t
<1>4. /\ Filing(t) \in Filed_ /\ Filed_' = Filed_ \ {Filing(t)}
      /\ Open_' = Open_ /\ dbTasks[t] = Row(tasks[c][t])
  BY <1>2, <1>3, DropTaskFiled
<1>5. PICK x : x = Filing(t)
  OBVIOUS
<1>6. Leaving_ = {} /\ Leaving_' = {x[1]}
  <2>1. Leaving_ = {e.item : e \in event[c]}
    BY LeavingIsEvent
  <2>2. Leaving_' = {e.item : e \in event'[c]}
    BY DEF OneContext, Leaving_
  <2> QED
    BY <1>2, <1>4, <1>5, <2>1, <2>2 DEF Filing
<1>7. Book!Expire(x)
  BY <1>2, <1>4, <1>5, <1>6 DEF Book!Expire, Open_, Filed_, Leaving_, Filing
<1> QED
  BY <1>4, <1>5, <1>7 DEF Book!BookNext, Filed_, Filing

\* The step of update that announces.
LEMMA UpdateAnnounces ==
    ASSUME OneContext, BookInv, NEW c \in Ctx, UpdateAnnounce(c)
    PROVE  [Book!BookNext]_Book!bookVars
<1>1. /\ announced' = announced \cup {e.item : e \in event[c]}
      /\ event'[c] = {}
      /\ UNCHANGED <<dbProjects, dbTasks, used>>
  BY DEF UpdateAnnounce, db, BookInv, Inv, TypeOK
<1>2. Leaving_ = {e.item : e \in event[c]} /\ Leaving_' = {}
  BY <1>1, LeavingIsEvent DEF OneContext, Leaving_
<1>3. Open_' = Open_ /\ Filed_' = Filed_
  BY <1>1 DEF Open_, Filed_, Filing
<1>4. CASE Leaving_ # {}
  <2>1. Book!Announce
    BY <1>1, <1>2, <1>3, <1>4 DEF Book!Announce, Open_, Filed_, Leaving_, Filing
  <2> QED
    BY <2>1 DEF Book!BookNext
<1>5. CASE Leaving_ = {}
  <2>1. announced' = announced /\ Leaving_' = Leaving_
    BY <1>1, <1>2, <1>5
  <2> QED
    BY <1>1, <1>3, <2>1 DEF Book!bookVars, Open_, Filed_, Leaving_, Filing
<1> QED
  BY <1>4, <1>5

\* A context that ends takes its event along.
LEMMA ForgetLoses ==
    ASSUME OneContext, BookInv, NEW c \in Ctx, Forget(c) PROVE Book!BookNext
<1>1. event'[c] = {} /\ UNCHANGED <<dbProjects, dbTasks, announced, used>>
  BY DEF Forget, db, history, BookInv, Inv, TypeOK
<1>2. Leaving_' = {}
  BY <1>1 DEF OneContext, Leaving_
<1>3. Open_' = Open_ /\ Filed_' = Filed_
  BY <1>1 DEF Open_, Filed_, Filing
<1>4. Book!Lose
  BY <1>1, <1>2, <1>3 DEF Book!Lose, Open_, Filed_, Leaving_, Filing
<1> QED
  BY <1>4 DEF Book!BookNext

\* Every step of the crate is a step of the book or changes nothing of it.
LEMMA StepOfBook ==
    ASSUME OneContext, BookInv, [Next]_vars PROVE [Book!BookNext]_Book!bookVars
<1>1. CASE UNCHANGED vars
  BY <1>1, BookStill DEF vars, db, control, history
<1>2. CASE Next
  <2>1. PICK c \in Ctx :
           \/ Open(c) \/ Close(c) \/ Crash(c)
           \/ \E item \in Items \ used :
                 AddProject(c, item) \/ \E p \in Ids : AddTask(c, p, item)
           \/ AddProjectFails(c)
           \/ \E p \in Ids : AddTaskFails(c, p) \/ RemoveProject(c, p)
           \/ \E t \in Ids : RemoveTask(c, t) \/ Elapse(c, t)
                             \/ ClockSetBack(c, t)
           \/ Serialize(c) \/ LoadProjects(c) \/ LoadTasks(c) \/ LoadFails(c)
           \/ UpdateStart(c) \/ UpdateDelete(c) \/ UpdateFails(c)
           \/ UpdateAnnounce(c)
    BY <1>2 DEF Next
  <2>2. CASE \/ Open(c) \/ AddProjectFails(c)
             \/ \E p \in Ids : AddTaskFails(c, p)
             \/ \E t \in Ids : Elapse(c, t) \/ ClockSetBack(c, t)
             \/ Serialize(c) \/ LoadProjects(c) \/ LoadTasks(c) \/ LoadFails(c)
             \/ UpdateStart(c) \/ UpdateFails(c)
    BY <2>2, BookStill DEF Open, AddProjectFails, AddTaskFails, Elapse,
       ClockSetBack, SetDue, Serialize, LoadProjects, LoadTasks, LoadFails,
       UpdateStart, UpdateFails, db, control, history
  <2>3. CASE Close(c) \/ Crash(c)
    BY <2>3, ForgetLoses DEF Close, Crash
  <2>4. CASE \E item \in Items \ used :
                AddProject(c, item) \/ \E p \in Ids : AddTask(c, p, item)
    BY <2>4, AddProjectBegins, AddTaskFiles
  <2>5. CASE \/ \E p \in Ids : RemoveProject(c, p)
             \/ \E t \in Ids : RemoveTask(c, t)
    BY <2>5, RemoveProjectFinishes, RemoveTaskStrikes
  <2>6. CASE UpdateDelete(c) \/ UpdateAnnounce(c)
    BY <2>6, UpdateDeleteExpires, UpdateAnnounces
  <2> QED
    BY <2>1, <2>2, <2>3, <2>4, <2>5, <2>6
<1> QED
  BY <1>1, <1>2

\* Empty tables are an empty book.
LEMMA InitOfBook == Init => Book!BookInit
<1> SUFFICES ASSUME Init PROVE Book!BookInit
  OBVIOUS
<1>1. /\ DOMAIN dbProjects = {} /\ DOMAIN dbTasks = {}
      /\ \A c \in Ctx : event[c] = {}
      /\ announced = {} /\ used = {}
  BY EmptyType DEF Init
<1>2. Open_ = {} /\ Filed_ = {} /\ Leaving_ = {}
  BY <1>1 DEF Open_, Filed_, Leaving_
<1> QED
  BY <1>1, <1>2 DEF Book!BookInit, Open_, Filed_, Leaving_, Filing

\* With a single context, whatever fails, crashes and is reloaded, the tables
\* go through the operations of a book one at a time, and each operation of
\* context.rs is there whole or not at all.
THEOREM IsATaskBook == ASSUME OneContext PROVE Spec => ImplementsTaskBook
<1>1. Init => Book!BookInit
  BY InitOfBook
<1>2. Init => ProjectInv
  BY InitProjectInv
<1>3. ProjectInv /\ [Next]_vars => ProjectInv'
  BY NextProjectInv
<1>4. Inv /\ ItemInv /\ SoloInv /\ ProjectInv /\ [Next]_vars
         => [Book!BookNext]_Book!bookVars
  BY StepOfBook DEF BookInv
<1> QED
  BY <1>1, <1>2, <1>3, <1>4, SoloInvariance, PTL
     DEF Spec, ImplementsTaskBook, Book!BookSpec
=============================================================================
