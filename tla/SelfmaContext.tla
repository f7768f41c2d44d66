--------------------------- MODULE SelfmaContext ---------------------------
(***************************************************************************)
(* The Rust crate (rust/selfma/src): contexts that keep projects and tasks *)
(* in memory (context.rs) in front of one SQLite database (storage.rs).    *)
(* Several contexts may be open on one database, in one process or in      *)
(* several.  A method holds its context exclusively (&mut self), so what   *)
(* interleaves are the SQL statements of different contexts and crashes:   *)
(* a method with one statement is one action, deserialize and update take  *)
(* several steps.  SQLite is external: a statement is atomic and durable   *)
(* or fails without effect, primary keys are unique, and deleting a        *)
(* project deletes its tasks.                                              *)
(*                                                                         *)
(* An item stands for the text of one project or task.  Every creation     *)
(* uses a new item, so that items tell rows apart that reuse one id.       *)
(***************************************************************************)
EXTENDS IdPool, FiniteSets

CONSTANTS
    Ctx,        \* the contexts
    Items,      \* what projects and tasks may be created with, each once
    MaxFaults   \* bound on crashes, failed statements and clock jumps

ASSUME MaxFaultsAssumption == MaxFaults \in Nat

VARIABLES
    dbProjects,   \* table projects: id |-> item
    dbTasks,      \* table tasks: id |-> [project, item]
    meta,         \* schema_meta: the next ids written by serialize, -1: none
    pc,           \* where each context is
    projects,     \* memory of each context: id |-> item
    tasks,        \* memory of each context: id |-> [project, item, due]
    projectIds,   \* pool of project ids of each context
    taskIds,      \* pool of task ids of each context
    rows,         \* deserialize: the projects read so far
    finished,     \* update: the tasks still to be handled in this pass
    event,        \* update: the row deleted and not yet announced, if any
    announced,    \* history: items of the tasks announced to handlers
    used,         \* history: items created so far
    faults        \* faults left

db == <<dbProjects, dbTasks, meta>>
memory == <<projects, tasks, projectIds, taskIds>>
control == <<pc, rows, finished, event>>
history == <<announced, used>>
vars == <<db, memory, control, history, faults>>

\* A task in memory and its row in the database.
Row(task) == [project |-> task.project, item |-> task.item]
Loaded(row) == [project |-> row.project, item |-> row.item, due |-> FALSE]

Without(f, S) == [x \in DOMAIN f \ S |-> f[x]]
With(f, x, v) == [y \in DOMAIN f \cup {x} |-> IF y = x THEN v ELSE f[y]]
TasksOf(f, p) == {t \in DOMAIN f : f[t].project = p}

Init == /\ dbProjects = << >> /\ dbTasks = << >>
        /\ meta = [project |-> -1, task |-> -1]
        /\ pc = [c \in Ctx |-> "closed"]
        /\ projects = [c \in Ctx |-> << >>]
        /\ tasks = [c \in Ctx |-> << >>]
        /\ projectIds = [c \in Ctx |-> NewPool]
        /\ taskIds = [c \in Ctx |-> NewPool]
        /\ rows = [c \in Ctx |-> << >>]
        /\ finished = [c \in Ctx |-> {}]
        /\ event = [c \in Ctx |-> {}]
        /\ announced = {} /\ used = {}
        /\ faults = MaxFaults

Fault == faults > 0 /\ faults' = faults - 1

-----------------------------------------------------------------------------
(* Life of a context *)

\* new() leaves the tables as they are and memory empty.
Open(c) == /\ pc[c] = "closed"
           /\ pc' = [pc EXCEPT ![c] = "idle"]
           /\ UNCHANGED <<db, memory, rows, finished, event, history, faults>>

\* Memory goes with the context; the tables stay.
Forget(c) == /\ pc' = [pc EXCEPT ![c] = "closed"]
             /\ projects' = [projects EXCEPT ![c] = << >>]
             /\ tasks' = [tasks EXCEPT ![c] = << >>]
             /\ projectIds' = [projectIds EXCEPT ![c] = NewPool]
             /\ taskIds' = [taskIds EXCEPT ![c] = NewPool]
             /\ rows' = [rows EXCEPT ![c] = << >>]
             /\ finished' = [finished EXCEPT ![c] = {}]
             /\ event' = [event EXCEPT ![c] = {}]
             /\ UNCHANGED <<db, history>>

\* A context is dropped between two calls, or its process dies there.
Close(c) == pc[c] = "idle" /\ Forget(c) /\ UNCHANGED faults

\* The process dies between two statements of one call.
Crash(c) == pc[c] \notin {"closed", "idle"} /\ Forget(c) /\ Fault

-----------------------------------------------------------------------------
(* Methods with one statement.  A call that returns an error before it, or  *)
(* whose DELETE fails, changes nothing and is a stuttering step.  A crash   *)
(* before the statement, or after it, is one before or after the call.      *)

\* add_project: the id is allocated before the row is inserted.
AddProject(c, item) ==
    /\ pc[c] = "idle"
    /\ CanAllocate(projectIds[c])
    /\ LET id == AllocatedId(projectIds[c])
       IN /\ id \notin DOMAIN dbProjects
          /\ dbProjects' = With(dbProjects, id, item)
          /\ projects' = [projects EXCEPT ![c] = With(@, id, item)]
    /\ projectIds' = [projectIds EXCEPT ![c] = AfterAllocate(@)]
    /\ used' = used \cup {item}
    /\ UNCHANGED <<dbTasks, meta, tasks, taskIds, control, announced, faults>>

\* Mutant: memory is changed before the INSERT is known to succeed.
AddProjectFailsInMemory(c) ==
    /\ pc[c] = "idle"
    /\ CanAllocate(projectIds[c])
    /\ Fault
    /\ projectIds' = [projectIds EXCEPT ![c] = AfterAllocate(@)]
    /\ \E item \in Items \ used :
          projects' = [projects EXCEPT
                         ![c] = With(@, AllocatedId(projectIds[c]), item)]
    /\ UNCHANGED <<db, tasks, taskIds, control, history>>

\* The INSERT fails, because the id is taken in the table or for a reason of
\* its own; the id stays allocated.
AddProjectFails(c) ==
    /\ pc[c] = "idle"
    /\ CanAllocate(projectIds[c])
    /\ IF AllocatedId(projectIds[c]) \in DOMAIN dbProjects
       THEN UNCHANGED faults ELSE Fault
    /\ projectIds' = [projectIds EXCEPT ![c] = AfterAllocate(@)]
    /\ UNCHANGED <<db, projects, tasks, taskIds, control, history>>

\* Mutant: the tasks stay in memory.
RemoveProjectOnly(c, p) ==
    /\ pc[c] = "idle"
    /\ p \in DOMAIN projects[c]
    /\ dbProjects' = Without(dbProjects, {p})
    /\ dbTasks' = Without(dbTasks, TasksOf(dbTasks, p))
    /\ projects' = [projects EXCEPT ![c] = Without(@, {p})]
    /\ projectIds' = [projectIds EXCEPT ![c] = AfterReleases(@, {p})]
    /\ UNCHANGED <<meta, tasks, taskIds, control, history, faults>>

\* Mutant: the tasks stay in the table, as without foreign keys.
RemoveProjectNoCascade(c, p) ==
    /\ pc[c] = "idle"
    /\ p \in DOMAIN projects[c]
    /\ dbProjects' = Without(dbProjects, {p})
    /\ projects' = [projects EXCEPT ![c] = Without(@, {p})]
    /\ tasks' = [tasks EXCEPT ![c] = Without(@, TasksOf(@, p))]
    /\ taskIds' = [taskIds EXCEPT ![c] =
                      AfterReleases(@, TasksOf(tasks[c], p))]
    /\ projectIds' = [projectIds EXCEPT ![c] = AfterReleases(@, {p})]
    /\ UNCHANGED <<dbTasks, meta, control, history, faults>>

\* remove_project: the row goes with all its tasks in the table; the tasks in
\* memory are removed and their ids released one by one.
RemoveProject(c, p) ==
    /\ pc[c] = "idle"
    /\ p \in DOMAIN projects[c]
    /\ dbProjects' = Without(dbProjects, {p})
    /\ dbTasks' = Without(dbTasks, TasksOf(dbTasks, p))
    /\ projects' = [projects EXCEPT ![c] = Without(@, {p})]
    /\ tasks' = [tasks EXCEPT ![c] = Without(@, TasksOf(@, p))]
    /\ taskIds' = [taskIds EXCEPT ![c] =
                      AfterReleases(@, TasksOf(tasks[c], p))]
    /\ projectIds' = [projectIds EXCEPT ![c] = AfterReleases(@, {p})]
    /\ UNCHANGED <<meta, control, history, faults>>

\* The INSERT of a task needs a free id and the project's row.
TaskInsertable(c, p) ==
    AllocatedId(taskIds[c]) \notin DOMAIN dbTasks /\ p \in DOMAIN dbProjects

\* add_task
AddTask(c, p, item) ==
    /\ pc[c] = "idle"
    /\ p \in DOMAIN projects[c]
    /\ CanAllocate(taskIds[c])
    /\ TaskInsertable(c, p)
    /\ LET id == AllocatedId(taskIds[c])
           row == [project |-> p, item |-> item]
       IN /\ dbTasks' = With(dbTasks, id, row)
          /\ tasks' = [tasks EXCEPT ![c] = With(@, id, Loaded(row))]
    /\ taskIds' = [taskIds EXCEPT ![c] = AfterAllocate(@)]
    /\ used' = used \cup {item}
    /\ UNCHANGED <<dbProjects, meta, projects, projectIds, control, announced,
                   faults>>

AddTaskFails(c, p) ==
    /\ pc[c] = "idle"
    /\ p \in DOMAIN projects[c]
    /\ CanAllocate(taskIds[c])
    /\ IF TaskInsertable(c, p) THEN Fault ELSE UNCHANGED faults
    /\ taskIds' = [taskIds EXCEPT ![c] = AfterAllocate(@)]
    /\ UNCHANGED <<db, projects, tasks, projectIds, control, history>>

\* Mutant: the id is left out of the condition.
DeleteRowsOfProject(t, p) == dbTasks' = Without(dbTasks, TasksOf(dbTasks, p))

\* DELETE FROM tasks WHERE id = t AND project_id = p; it may hit no row, which
\* the callers do not look at.
DeleteRow(t, p) ==
    dbTasks' = IF t \in DOMAIN dbTasks /\ dbTasks[t].project = p
               THEN Without(dbTasks, {t}) ELSE dbTasks

\* remove_task and update both delete the row, then forget the task and
\* release its id.
DropTask(c, t) ==
    /\ DeleteRow(t, tasks[c][t].project)
    /\ tasks' = [tasks EXCEPT ![c] = Without(@, {t})]
    /\ taskIds' = [taskIds EXCEPT ![c] = AfterReleases(@, {t})]
    /\ UNCHANGED <<dbProjects, meta, projects, projectIds>>

RemoveTask(c, t) ==
    /\ pc[c] = "idle"
    /\ t \in DOMAIN tasks[c]
    /\ DropTask(c, t)
    /\ UNCHANGED <<control, history, faults>>

-----------------------------------------------------------------------------
(* serialize and deserialize *)

\* Two statements; the second may fail, or never be reached.
Serialize(c) ==
    /\ pc[c] = "idle"
    /\ \/ /\ meta' = [project |-> projectIds[c].next, task |-> taskIds[c].next]
          /\ UNCHANGED faults
       \/ meta' = [meta EXCEPT !.project = projectIds[c].next] /\ Fault
    /\ UNCHANGED <<dbProjects, dbTasks, memory, control, history>>

\* deserialize: one query for the projects ...
LoadProjects(c) ==
    /\ pc[c] = "idle"
    /\ pc' = [pc EXCEPT ![c] = "loading"]
    /\ rows' = [rows EXCEPT ![c] = dbProjects]
    /\ UNCHANGED <<db, memory, finished, event, history, faults>>

\* ... another one for the tasks; then memory is replaced, every timer starts
\* again, and the pools are reseeded from the ids read.
LoadTasks(c) ==
    /\ pc[c] = "loading"
    /\ pc' = [pc EXCEPT ![c] = "idle"]
    /\ rows' = [rows EXCEPT ![c] = << >>]
    /\ projects' = [projects EXCEPT ![c] = rows[c]]
    /\ tasks' = [tasks EXCEPT ![c] =
                    [t \in DOMAIN dbTasks |-> Loaded(dbTasks[t])]]
    /\ projectIds' = [projectIds EXCEPT ![c] = Reseeded(DOMAIN rows[c])]
    /\ taskIds' = [taskIds EXCEPT ![c] = Reseeded(DOMAIN dbTasks)]
    /\ UNCHANGED <<db, finished, event, history, faults>>

\* The second query fails: memory keeps what it had.
LoadFails(c) ==
    /\ pc[c] = "loading"
    /\ Fault
    /\ pc' = [pc EXCEPT ![c] = "idle"]
    /\ rows' = [rows EXCEPT ![c] = << >>]
    /\ UNCHANGED <<db, memory, finished, event, history>>

-----------------------------------------------------------------------------
(* Timers and update *)

SetDue(c, t, due) ==
    /\ t \in DOMAIN tasks[c]
    /\ tasks[c][t].due # due
    /\ tasks' = [tasks EXCEPT ![c][t].due = due]
    /\ UNCHANGED <<db, projects, projectIds, taskIds, control, history>>

\* Time passes.
Elapse(c, t) == SetDue(c, t, TRUE) /\ UNCHANGED faults

\* The timer reads the wall clock, which may be set back.
ClockSetBack(c, t) == SetDue(c, t, FALSE) /\ Fault

\* update takes the elapsed tasks once, at its start (a pass that finds none
\* returns at once).
UpdateStart(c) ==
    /\ pc[c] = "idle"
    /\ \E t \in DOMAIN tasks[c] : tasks[c][t].due
    /\ finished' = [finished EXCEPT ![c] =
                       {t \in DOMAIN tasks[c] : tasks[c][t].due}]
    /\ pc' = [pc EXCEPT ![c] = "updating"]
    /\ UNCHANGED <<db, memory, rows, event, history, faults>>

\* Mutant: the row is not deleted.
UpdateKeepsRow(c) ==
    /\ pc[c] = "updating"
    /\ LET t == Min(finished[c])
       IN /\ tasks' = [tasks EXCEPT ![c] = Without(@, {t})]
          /\ taskIds' = [taskIds EXCEPT ![c] = AfterReleases(@, {t})]
          /\ event' = [event EXCEPT ![c] = {Row(tasks[c][t])}]
          /\ finished' = [finished EXCEPT ![c] = @ \ {t}]
    /\ pc' = [pc EXCEPT ![c] = "announcing"]
    /\ UNCHANGED <<db, projects, projectIds, rows, history, faults>>

\* Mutant: the task stays in memory.
UpdateKeepsTask(c) ==
    /\ pc[c] = "updating"
    /\ LET t == Min(finished[c])
       IN /\ DeleteRow(t, tasks[c][t].project)
          /\ event' = [event EXCEPT ![c] = {Row(tasks[c][t])}]
          /\ finished' = [finished EXCEPT ![c] = @ \ {t}]
    /\ pc' = [pc EXCEPT ![c] = "announcing"]
    /\ UNCHANGED <<dbProjects, meta, memory, rows, history, faults>>

\* Mutant: the task stays in the snapshot.
UpdateKeepsSnapshot(c) ==
    /\ pc[c] = "updating"
    /\ LET t == Min(finished[c])
       IN /\ DropTask(c, t)
          /\ event' = [event EXCEPT ![c] = {Row(tasks[c][t])}]
    /\ pc' = [pc EXCEPT ![c] = "announcing"]
    /\ UNCHANGED <<rows, finished, history, faults>>

\* One task after the other, by id.
UpdateDelete(c) ==
    /\ pc[c] = "updating"
    /\ LET t == Min(finished[c])
       IN /\ DropTask(c, t)
          /\ event' = [event EXCEPT ![c] = {Row(tasks[c][t])}]
          /\ finished' = [finished EXCEPT ![c] = @ \ {t}]
    /\ pc' = [pc EXCEPT ![c] = "announcing"]
    /\ UNCHANGED <<rows, history, faults>>

\* Mutant: the error of the DELETE is dropped and the event goes out.
UpdateIgnoresFailure(c) ==
    /\ pc[c] = "updating"
    /\ Fault
    /\ LET t == Min(finished[c])
       IN /\ event' = [event EXCEPT ![c] = {Row(tasks[c][t])}]
          /\ finished' = [finished EXCEPT ![c] = @ \ {t}]
    /\ pc' = [pc EXCEPT ![c] = "announcing"]
    /\ UNCHANGED <<db, memory, rows, history>>

\* A DELETE that fails ends the pass with the rest unhandled.
UpdateFails(c) ==
    /\ pc[c] = "updating"
    /\ Fault
    /\ finished' = [finished EXCEPT ![c] = {}]
    /\ pc' = [pc EXCEPT ![c] = "idle"]
    /\ UNCHANGED <<db, memory, rows, event, history>>

\* dispatch calls the handlers, after the row is gone.
UpdateAnnounce(c) ==
    /\ pc[c] = "announcing"
    /\ announced' = announced \cup {e.item : e \in event[c]}
    /\ event' = [event EXCEPT ![c] = {}]
    /\ pc' = [pc EXCEPT ![c] = IF finished[c] = {} THEN "idle" ELSE "updating"]
    /\ UNCHANGED <<db, memory, rows, finished, used, faults>>

-----------------------------------------------------------------------------
Next ==
    \E c \in Ctx :
       \/ Open(c)
       \/ Close(c)
       \/ Crash(c)
       \/ \E item \in Items \ used :
             \/ AddProject(c, item)
             \/ \E p \in Ids : AddTask(c, p, item)
       \/ AddProjectFails(c)
       \/ \E p \in Ids : AddTaskFails(c, p) \/ RemoveProject(c, p)
       \/ \E t \in Ids : \/ RemoveTask(c, t)
                         \/ Elapse(c, t)
                         \/ ClockSetBack(c, t)
       \/ Serialize(c)
       \/ LoadProjects(c)
       \/ LoadTasks(c)
       \/ LoadFails(c)
       \/ UpdateStart(c)
       \/ UpdateDelete(c)
       \/ UpdateFails(c)
       \/ UpdateAnnounce(c)

Spec == Init /\ [][Next]_vars

\* The host calls update again and again, and a call that has started is not
\* held up for ever.  Nothing forces it to make any other call.
Fairness == \A c \in Ctx : /\ WF_vars(UpdateStart(c))
                           /\ WF_vars(UpdateDelete(c))
                           /\ WF_vars(UpdateAnnounce(c))
                           /\ WF_vars(LoadTasks(c))

FairSpec == Spec /\ Fairness

-----------------------------------------------------------------------------
(* Properties *)

Rows == [project : Ids, item : Items]
MemTasks == [project : Ids, item : Items, due : BOOLEAN]

\* Tables and maps keyed by ids.
Maps(R) == UNION {[S -> R] : S \in SUBSET Ids}

\* Every variable stays in its type, and only an announcing context has an
\* event.
TypeOK ==
    /\ dbProjects \in Maps(Items)
    /\ dbTasks \in Maps(Rows)
    /\ meta \in [project : -1..MaxId, task : -1..MaxId]
    /\ pc \in [Ctx -> {"closed", "idle", "loading", "updating", "announcing"}]
    /\ projects \in [Ctx -> Maps(Items)]
    /\ tasks \in [Ctx -> Maps(MemTasks)]
    /\ projectIds \in [Ctx -> IdPools]
    /\ taskIds \in [Ctx -> IdPools]
    /\ rows \in [Ctx -> Maps(Items)]
    /\ finished \in [Ctx -> SUBSET Ids]
    /\ event \in [Ctx -> SUBSET Rows]
    /\ \A c \in Ctx : pc[c] # "announcing" => event[c] = {}
    /\ announced \in SUBSET Items /\ used \in SUBSET Items
    /\ faults \in 0..MaxFaults

\* However contexts interleave, fail and reload, no context hands out an id
\* that it uses, and none of its releases is refused (the bool that
\* context.rs:63, 65, 104 and 176 drop).
PoolsSound ==
    \A c \in Ctx : /\ PoolSound(projectIds[c], DOMAIN projects[c])
                   /\ PoolSound(taskIds[c], DOMAIN tasks[c])

\* update finds every task of its snapshot in memory: the TaskNotFound of
\* context.rs:173 is never returned.
UpdateFindsTasks == \A c \in Ctx : finished[c] \subseteq DOMAIN tasks[c]

\* A task whose event was sent, or is about to be, is gone from the database
\* for good, whichever context deletes, reloads or crashes (context.rs:174-182
\* deletes first and ignores whether a row was hit).
AnnouncedIsGone ==
    \A t \in DOMAIN dbTasks :
       /\ dbTasks[t].item \notin announced
       /\ \A c \in Ctx : \A e \in event[c] : e.item # dbTasks[t].item

\* With one context: what is in memory is in the database, though an insertion
\* may fail between the two and deletions cascade in SQL only.
WriteThrough ==
    \A c \in Ctx :
       /\ \A p \in DOMAIN projects[c] :
             p \in DOMAIN dbProjects /\ dbProjects[p] = projects[c][p]
       /\ \A t \in DOMAIN tasks[c] :
             t \in DOMAIN dbTasks /\ dbTasks[t] = Row(tasks[c][t])

InSync(c) == /\ projects[c] = dbProjects
             /\ [t \in DOMAIN tasks[c] |-> Row(tasks[c][t])] = dbTasks

\* With one context: once memory mirrors the database it does so until the
\* context is closed, also after failed calls and in the middle of a pass.
StaysInSync ==
    [][\A c \in Ctx : InSync(c) /\ pc'[c] # "closed" => InSync(c)']_vars

\* With one context: no task in memory belongs to a project that is not, so
\* get_project shows every task (context.rs:108-117).
NoOrphanTask ==
    \A c \in Ctx : \A t \in DOMAIN tasks[c] :
       tasks[c][t].project \in DOMAIN projects[c]

\* With one context: a task is announced at most once, also across a crash
\* between the DELETE and the handlers, and a reload.
AnnouncedOnce == \A c \in Ctx : \A e \in event[c] : e.item \notin announced

\* With one context: an update pass deletes nothing but the row of the task it
\* is about to announce.
UpdateDeletesWhatItAnnounces ==
    [][\A c \in Ctx : pc[c] = "updating" =>
          \A t \in DOMAIN dbTasks \ DOMAIN dbTasks' :
             event'[c] = {dbTasks[t]}]_vars

\* A task that is due leaves memory, or its timer starts again (a reload, the
\* clock set back): one task's failing DELETE, which ends the pass, does not
\* keep the others waiting for ever.
DueTaskLeaves ==
    \A c \in Ctx, t \in Ids :
       (t \in DOMAIN tasks[c] /\ tasks[c][t].due)
          ~> ~(t \in DOMAIN tasks[c] /\ tasks[c][t].due)

-----------------------------------------------------------------------------
(* What the crate promises *)

\* The tables are the book, without their ids; an event that was taken from
\* them and not yet given to the handlers is a task that leaves it.
Book == INSTANCE TaskBook WITH
           open <- {dbProjects[p] : p \in DOMAIN dbProjects},
           filed <- {<<dbTasks[t].item, dbProjects[dbTasks[t].project]>> :
                        t \in DOMAIN dbTasks},
           leaving <- UNION {{e.item : e \in event[c]} : c \in Ctx}

\* With one context: whatever fails, crashes and is reloaded, the tables go
\* through the operations of a book one at a time, and each is there whole or
\* not at all.
ImplementsTaskBook == Book!BookSpec

-----------------------------------------------------------------------------
(* What a test says and the code does not do *)

\* integration.rs:75 serialized_ids_continue_from_previous_context: after a
\* load the next project id is not below the one serialize wrote.
SerializedIdsContinue ==
    [][\A c \in Ctx :
          pc[c] = "loading" /\ pc'[c] = "idle" /\ faults' = faults
             => projectIds'[c].next >= meta.project]_vars
=============================================================================
