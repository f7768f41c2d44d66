------------------------------ MODULE EventLoop ------------------------------
(***************************************************************************)
(* The main program of the C++ core (core/main.cpp) with the facade it     *)
(* calls (core/selfma.cpp) and the timers of the tasks (core/inc/task.h),  *)
(* around the container of module Container.                               *)
(*                                                                         *)
(* A pass of the loop first lets the timers be looked at, and then either  *)
(* sleeps or handles one message.  Everything happens in one thread; what  *)
(* goes on beside it is time.  main.cpp fills its queue before the loop    *)
(* with two messages; here it may be filled with others in their place.    *)
(***************************************************************************)
EXTENDS Container, EventRegistry

CONSTANTS
    DefaultSleep,   \* DEFAULT_SLEEP_TIME, 5 in the code
    MaxSleep,       \* MAX_SLEEP_TIME, 10 in the code
    Scripts,        \* what the queue may hold when the loop starts
    EventFiles      \* what events.yaml may be

Ignored == {"SELFMA_OK", "UPDATE_PROJECT", "UPDATE_TASK", "GET_PROJECT",
            "GET_TASK"}
Commands == Ignored \cup
            {"ADD_PROJECT", "ADD_TASK", "REMOVE_PROJECT", "REMOVE_TASK",
             "EVENT_SYS_ON", "EVENT_SYS_OFF", "KILL"}

\* Named: name and description pass check_args.
Message == [cmd : Commands, project : ProjectIds, task : Garbage,
            named : BOOLEAN]

ASSUME SleepAssumption ==
    DefaultSleep \in Nat /\ MaxSleep \in Nat /\ DefaultSleep < MaxSleep
ASSUME ScriptsAssumption == Scripts \subseteq Seq(Message)
ASSUME EventFilesAssumption == EventFiles \subseteq EventFile

VARIABLES
    pc,          \* "update", "serve": the two halves of a pass; "shutdown";
                 \* "exit": main returns; "ended"; "undefined": freed memory
                 \* was used
    ctx,         \* _ctx: "null", "live", "destroyed"
    wrapper,     \* _wrapper
    callbacks,   \* _callbacks: event id |-> handler
    due,         \* the tasks, <<project, task>>, whose time has elapsed
    queue,       \* msgs
    sleep,       \* time_to_sleep
    told,        \* history: the handlers called in the last step, by event id
                 \* and by the task it was about, which the event does not say
    idle         \* history: passes that slept since the last message or event

container == <<projects, elements, ids, status>>
facade == <<ctx, wrapper, callbacks>>
loopVars == <<container, facade, pc, due, queue, sleep, told, idle>>

-----------------------------------------------------------------------------
(* The facade *)

\* Mutant: a registration forgets the others.
RegisteredAlone(cbs, id, handler) == [e \in {id} |-> handler]

Registered(cbs, id, handler) ==
    [e \in DOMAIN cbs \cup {id} |-> IF e = id THEN handler ELSE cbs[e]]

\* register_callback with a name: an unknown one is reported and forgotten.
RegisteredByName(cbs, registry, name, handler) ==
    LET id == IdFor(registry, name)
    IN IF id = NoEvent THEN cbs ELSE Registered(cbs, id, handler)

\* The handlers that an event with this id calls.
Tell(id, about) == {[event |-> id, handler |-> callbacks[id], about |-> about] :
                       e \in {id} \cap DOMAIN callbacks}

InTree(i, t) == i \in DOMAIN projects /\ t \in projects[i].tasks

\* Mutant: timers outlive their tasks.
KeepAllTimers == UNCHANGED due

\* A task that leaves the tree takes its timer with it; a new one is not due.
KeepTimers ==
    due' = {d \in due : d[1] \in DOMAIN projects' /\ d[2] \in projects'[d[1]].tasks}

Dangling == \E i \in DOMAIN projects : projects[i].dangling

-----------------------------------------------------------------------------
(* The constructor and what main does before the loop.  A context that      *)
(* cannot be allocated is reported as critical; the external error handler  *)
(* may return, and the program goes on with none.                           *)

Created == IF AllocFails THEN {"live", "null"} ELSE {"live"}

LoopInit ==
    /\ Init
    /\ ctx \in Created
    /\ wrapper = "on_update_on"
    /\ LET byId == Registered(<< >>, MaxTimeSleep, "on_event")
       IN \/ callbacks = byId
          \/ \E eventFile \in EventFiles :
                callbacks = RegisteredByName(byId, Load(eventFile),
                                             "TASK_TIME_ELAPSED", "on_elapsed")
    /\ pc = "update"
    /\ due = {}
    /\ queue \in Scripts
    /\ sleep = DefaultSleep
    /\ told = {}
    /\ idle = 0

\* Time passes.
Elapse(i, t) ==
    /\ Running
    /\ pc \in {"update", "serve"}
    /\ InTree(i, t)
    /\ due' = due \cup {<<i, t>>}
    /\ due' # due
    /\ told' = {}
    /\ UNCHANGED <<container, facade, pc, queue, sleep, idle>>

-----------------------------------------------------------------------------
(* A pass *)

\* Mutant: the walk ends at the first timer that has run out.
TaskOnTreeFirst ==
    \/ due = {} /\ UNCHANGED due /\ told' = {}
    \/ \E d \in due : due' = due \ {d} /\ told' = Tell(TaskTimeElapsed, d)

\* Each task is looked at.  A timer that has run out starts again, with one
\* second; then the handler for elapsed tasks is called, if there is one.
TaskOnTree ==
    /\ due' = {}
    /\ told' = UNION {Tell(TaskTimeElapsed, d) : d \in due}

\* Selfma::update walks all tasks of all projects.
Update ==
    /\ Running
    /\ pc = "update"
    /\ ~Dangling
    /\ IF ctx = "live" /\ wrapper = "on_update_on"
       THEN TaskOnTree
       ELSE UNCHANGED due /\ told' = {}
    /\ pc' = "serve"
    /\ UNCHANGED <<container, facade, queue, sleep, idle>>

\* Mutant: the time is raised by two steps.
RaisedByTwo == sleep + 2

\* time_to_sleep++, after the thread slept that long.
Raised == sleep + 1

\* Mutant: the time that was slept is compared.
AtMaximumBefore == sleep = MaxSleep

\* The time is compared once it was raised, and only for equality.
AtMaximum == Raised = MaxSleep

\* The thread sleeps and the time is raised; when it is the maximum it is set
\* back, and notify calls the handler registered for that event.
Sleep ==
    /\ Running
    /\ pc = "serve"
    /\ queue = <<>>
    /\ IF AtMaximum
       THEN sleep' = DefaultSleep /\ idle' = 0 /\ told' = Tell(MaxTimeSleep, <<>>)
       ELSE sleep' = Raised /\ idle' = idle + 1 /\ told' = {}
    /\ pc' = "update"
    /\ UNCHANGED <<container, facade, due, queue>>

-----------------------------------------------------------------------------
(* What the facade does with a message.  Errors are handed to the external  *)
(* error handler, which has no recovery actions, and change nothing.        *)

Refused == UNCHANGED container

ServeAddProject(msg) ==
    /\ msg.cmd = "ADD_PROJECT"
    /\ IF msg.named /\ ctx = "live"
       THEN AddProject \/ AddProjectHalts \/ (Exhausted(ids) /\ Refused)
       ELSE Refused
    /\ UNCHANGED facade

ServeAddTask(msg) ==
    /\ msg.cmd = "ADD_TASK"
    /\ IF msg.named /\ ctx = "live"
       THEN \/ AddTask(msg.project)
            \/ AddTaskHalts(msg.project)
            \/ msg.project \notin DOMAIN projects /\ Refused
       ELSE Refused
    /\ UNCHANGED facade

\* Name and description are checked although only the id is used.
ServeRemoveProject(msg) ==
    /\ msg.cmd = "REMOVE_PROJECT"
    /\ IF msg.named /\ ctx = "live"
       THEN \/ RemoveProject(msg.project)
            \/ RemoveProjectUndefined(msg.project)
            \/ /\ msg.project \notin DOMAIN projects \/ elements = 0
               /\ Refused
       ELSE Refused
    /\ UNCHANGED facade

ServeRemoveTask(msg) ==
    /\ msg.cmd = "REMOVE_TASK"
    /\ IF ctx = "live"
       THEN \/ RemoveTask(msg.project, msg.task)
            \/ ~InTree(msg.project, msg.task) /\ Refused
       ELSE Refused
    /\ UNCHANGED facade

\* Both commands switch the event system on.
ServeEventSystem(msg) ==
    /\ msg.cmd \in {"EVENT_SYS_ON", "EVENT_SYS_OFF"}
    /\ wrapper' = "on_update_on"
    /\ UNCHANGED <<container, ctx, callbacks>>

ServeNothing(msg) ==
    /\ msg.cmd \in Ignored \cup {"KILL"}
    /\ UNCHANGED <<container, facade>>

\* Mutant: the loop goes on after KILL.
AfterMessageGoesOn(msg) == "update"

\* earth_is_spinning is looked at after every message.
AfterMessage(msg) == IF msg.cmd = "KILL" THEN "shutdown" ELSE "update"

\* One message; the sleep time starts again whatever came of it.
Serve ==
    /\ Running
    /\ pc = "serve"
    /\ queue # <<>>
    /\ LET msg == Head(queue)
       IN /\ \/ ServeAddProject(msg)
             \/ ServeAddTask(msg)
             \/ ServeRemoveProject(msg)
             \/ ServeRemoveTask(msg)
             \/ ServeEventSystem(msg)
             \/ ServeNothing(msg)
          /\ pc' = AfterMessage(msg)
    /\ queue' = Tail(queue)
    /\ KeepTimers
    /\ sleep' = DefaultSleep
    /\ told' = {}
    /\ idle' = 0

-----------------------------------------------------------------------------
(* The end *)

\* Every task of the tree is visited: update, or a call that looks one up.
FollowStaleRoot ==
    /\ pc \in {"update", "serve"}
    /\ UseStaleRoot
    /\ told' = {}
    /\ UNCHANGED <<facade, pc, due, queue, sleep, idle>>

\* selfma_destroy deletes the container and frees the context, and leaves the
\* pointer to it as it is.
Shutdown ==
    /\ pc = "shutdown"
    /\ IF ctx = "live"
       THEN Recreate \/ RecreateUndefined
       ELSE Running /\ UNCHANGED container
    /\ ctx' = IF ctx = "live" THEN "destroyed" ELSE ctx
    /\ pc' = "exit"
    /\ due' = {}
    /\ told' = {}
    /\ UNCHANGED <<wrapper, callbacks, queue, sleep, idle>>

\* The destructor of Selfma destroys what its pointer points to: after a
\* shutdown, memory that was freed.
Exit ==
    /\ Running
    /\ pc = "exit"
    /\ pc' = IF ctx = "destroyed" THEN "undefined" ELSE "ended"
    /\ told' = {}
    /\ UNCHANGED <<container, facade, due, queue, sleep, idle>>

Advance == Update \/ Sleep \/ Serve \/ FollowStaleRoot \/ Shutdown \/ Exit

LoopNext == \/ Advance
            \/ \E i \in ProjectIds, t \in Garbage : Elapse(i, t)

\* The thread is not held up for ever, and time does not stand still.
LoopSpec == /\ LoopInit
            /\ [][LoopNext]_loopVars
            /\ WF_loopVars(Advance)
            /\ \A i \in ProjectIds, t \in Garbage : WF_loopVars(Elapse(i, t))

-----------------------------------------------------------------------------
(* Properties *)

Handlers == {"on_event", "on_elapsed"}

\* Every variable stays in its type, and only tasks of the tree have timers.
LoopTypeOK ==
    /\ TypeOK
    /\ pc \in {"update", "serve", "shutdown", "exit", "ended", "undefined"}
    /\ ctx \in {"null", "live", "destroyed"}
    /\ wrapper \in {"nop_stub", "on_update_on"}
    /\ callbacks \in [DOMAIN callbacks -> Handlers]
    /\ \A d \in due : d \in ProjectIds \X Garbage /\ InTree(d[1], d[2])
    /\ queue \in Seq(Message)
    /\ sleep \in Nat /\ idle \in Nat
    /\ \A x \in told : /\ x.event \in DOMAIN callbacks
                       /\ x.handler \in Handlers

\* The event for the maximum comes only from an empty queue, after the loop
\* slept without a message or such an event as often as there are sleep times
\* (main.cpp:96-112).
MaxEventAfterIdleRun ==
    [][\A x \in told' : x.event = MaxTimeSleep =>
          /\ queue = <<>>
          /\ idle + 1 = MaxSleep - DefaultSleep]_loopVars

Looping == Running /\ pc \in {"update", "serve"}

\* As long as the loop runs the event for the maximum comes again and again,
\* whatever messages came before: no message leaves the time at a value from
\* where it misses the maximum.
MaxSleepRecurs ==
    <>[]Looping => []<>(\E x \in told : x.event = MaxTimeSleep)

\* A task that stays in the tree while the event system is on is announced again
\* and again, however many others run out in the same pass or in between
\* (project.cpp:12-23 walks on after an announcement, and starts the timer anew).
ElapsedRecurs ==
    \A i \in ProjectIds, t \in Garbage :
       <>[](/\ Looping /\ wrapper = "on_update_on" /\ InTree(i, t)
            /\ TaskTimeElapsed \in DOMAIN callbacks)
          => []<>(\E x \in told : x.event = TaskTimeElapsed /\ x.about = <<i, t>>)

\* KILL ends the loop, behind whatever other messages it waits.
KillEnds == (\E k \in DOMAIN queue : queue[k].cmd = "KILL") ~> ~Looping

-----------------------------------------------------------------------------
(* What a comment and an assertion say and the code does not do *)

\* main.cpp:28-29: without a request the thread sleeps more in the next cycle,
\* until the maximum is reached, and from there on is in constant sleep.
SleepsMoreUntilMax == [][sleep' < sleep => queue # <<>>]_loopVars

\* selfma_api.cpp:204 asserts that a context to be destroyed has a container:
\* it is destroyed once.
DestroyedOnce == pc = "exit" => ctx # "destroyed"
=============================================================================
