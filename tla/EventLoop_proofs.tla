-------------------------- MODULE EventLoop_proofs --------------------------
(***************************************************************************)
(* Theorems about EventLoop, for any limits, sleep times, messages in the  *)
(* queue and files of events: its types; that project ids stay sound in    *)
(* the program, too; and when the event for the maximum sleep time comes.  *)
(***************************************************************************)
EXTENDS EventLoop, Container_proofs

-----------------------------------------------------------------------------
(* The queue *)

\* What is in the queue stays a sequence of messages.
Queued == queue \in Seq(Message)

LEMMA QueuedStep == Queued /\ [LoopNext]_loopVars => Queued'
<1> SUFFICES ASSUME Queued, [LoopNext]_loopVars
             PROVE  Queued'
  OBVIOUS
<1>1. ASSUME UNCHANGED queue PROVE Queued'
  BY <1>1 DEF Queued
<1>2. CASE Serve
  BY <1>2 DEF Serve, Queued
<1>3. CASE Update \/ Sleep \/ FollowStaleRoot \/ Shutdown \/ Exit
  BY <1>1, <1>3 DEF Update, Sleep, FollowStaleRoot, Shutdown, Exit
<1>4. ASSUME NEW i \in ProjectIds, NEW t \in Garbage, Elapse(i, t)
      PROVE  Queued'
  BY <1>1, <1>4 DEF Elapse
<1>5. CASE UNCHANGED loopVars
  BY <1>1, <1>5 DEF loopVars
<1> QED
  BY <1>2, <1>3, <1>4, <1>5 DEF LoopNext, Advance

\* The queue holds messages, whatever script it was filled with.
THEOREM QueueStays == LoopSpec => []Queued
<1>1. LoopInit => Queued
  BY ScriptsAssumption DEF LoopInit, Queued
<1> QED
  BY <1>1, QueuedStep, PTL DEF LoopSpec

-----------------------------------------------------------------------------
(* The container *)

\* What a message does to the container is an operation of the container, or
\* nothing.
LEMMA ServeContainer == ASSUME Queued, Serve PROVE [Next]_vars
<1> DEFINE msg == Head(queue)
<1>1. msg.project \in ProjectIds /\ msg.task \in Garbage
  <2>1. msg \in Message
    BY DEF Queued, Serve
  <2> QED
    BY <2>1 DEF Message
<1>2. \/ ServeAddProject(msg) \/ ServeAddTask(msg) \/ ServeRemoveProject(msg)
      \/ ServeRemoveTask(msg) \/ ServeEventSystem(msg) \/ ServeNothing(msg)
  BY DEF Serve
<1> HIDE DEF msg
<1>3. ASSUME Refused PROVE UNCHANGED vars
  BY <1>3 DEF Refused, container, vars
<1>4. CASE ServeAddProject(msg)
  BY <1>3, <1>4 DEF ServeAddProject, Next
<1>5. CASE ServeAddTask(msg)
  BY <1>1, <1>3, <1>5 DEF ServeAddTask, Next
<1>6. CASE ServeRemoveProject(msg)
  BY <1>1, <1>3, <1>6 DEF ServeRemoveProject, Next
<1>7. CASE ServeRemoveTask(msg)
  BY <1>1, <1>3, <1>7 DEF ServeRemoveTask, Next
<1>8. CASE ServeEventSystem(msg) \/ ServeNothing(msg)
  BY <1>8 DEF ServeEventSystem, ServeNothing, container, vars
<1> QED
  BY <1>2, <1>4, <1>5, <1>6, <1>7, <1>8

LEMMA LoopStepContainer == Queued /\ [LoopNext]_loopVars => [Next]_vars
<1> SUFFICES ASSUME Queued, [LoopNext]_loopVars
             PROVE  [Next]_vars
  OBVIOUS
<1>1. ASSUME UNCHANGED container PROVE UNCHANGED vars
  BY <1>1 DEF container, vars
<1>2. CASE Update \/ Sleep \/ Exit
  BY <1>1, <1>2 DEF Update, Sleep, Exit
<1>3. CASE Serve
  BY <1>3, ServeContainer
<1>4. CASE FollowStaleRoot
  BY <1>4 DEF FollowStaleRoot, Next
<1>5. CASE Shutdown
  BY <1>1, <1>5 DEF Shutdown, Next
<1>6. ASSUME NEW i \in ProjectIds, NEW t \in Garbage, Elapse(i, t)
      PROVE  [Next]_vars
  BY <1>1, <1>6 DEF Elapse
<1>7. CASE UNCHANGED loopVars
  BY <1>1, <1>7 DEF loopVars
<1> QED
  BY <1>2, <1>3, <1>4, <1>5, <1>6, <1>7 DEF LoopNext, Advance

\* The loop is put together from the operations of the container, so that what
\* is proved of the container holds here, too.
LEMMA LoopIsContainer == LoopSpec => Spec
<1>1. LoopInit => Init
  BY DEF LoopInit
<1> QED
  BY <1>1, LoopStepContainer, QueueStays, PTL DEF LoopSpec, Spec

\* Ids of projects stay sound in the program, too.
THEOREM LoopKeepsProjectIdsSound == LoopSpec => []ProjectIdsSound
BY LoopIsContainer, ProjectIdsStaySound, PTL

-----------------------------------------------------------------------------
(* The time to sleep *)

\* The sleep time is raised by every pass that sleeps, and set back before it is
\* the maximum.
SleepFollowsIdle == sleep = DefaultSleep + idle /\ sleep < MaxSleep

Asleep == sleep \in Nat /\ idle \in Nat /\ SleepFollowsIdle

LEMMA AsleepStep == Asleep /\ [LoopNext]_loopVars => Asleep'
<1> SUFFICES ASSUME Asleep, [LoopNext]_loopVars
             PROVE  Asleep'
  OBVIOUS
<1> USE SleepAssumption
<1>1. ASSUME sleep' = sleep, idle' = idle PROVE Asleep'
  BY <1>1 DEF Asleep, SleepFollowsIdle
<1>2. ASSUME sleep' = DefaultSleep, idle' = 0 PROVE Asleep'
  BY <1>2 DEF Asleep, SleepFollowsIdle
<1>3. CASE Sleep
  <2>1. CASE AtMaximum
    BY <1>2, <1>3, <2>1 DEF Sleep
  <2>2. CASE ~AtMaximum
    <3>1. sleep' = sleep + 1 /\ idle' = idle + 1 /\ sleep + 1 # MaxSleep
      BY <1>3, <2>2 DEF Sleep, AtMaximum, Raised
    <3> QED
      BY <3>1 DEF Asleep, SleepFollowsIdle
  <2> QED
    BY <2>1, <2>2
<1>4. CASE Serve
  BY <1>2, <1>4 DEF Serve
<1>5. CASE Update \/ FollowStaleRoot \/ Shutdown \/ Exit
  BY <1>1, <1>5 DEF Update, FollowStaleRoot, Shutdown, Exit
<1>6. ASSUME NEW i \in ProjectIds, NEW t \in Garbage, Elapse(i, t)
      PROVE  Asleep'
  BY <1>1, <1>6 DEF Elapse
<1>7. CASE UNCHANGED loopVars
  BY <1>1, <1>7 DEF loopVars
<1> QED
  BY <1>3, <1>4, <1>5, <1>6, <1>7 DEF LoopNext, Advance

\* Sleep time and idle passes stay numbers, and stay together.
THEOREM AsleepStays == LoopSpec => []Asleep
<1>1. LoopInit => Asleep
  BY SleepAssumption DEF LoopInit, Asleep, SleepFollowsIdle
<1> QED
  BY <1>1, AsleepStep, PTL DEF LoopSpec

\* The event for the maximum is sent only after a full run of sleeps on an
\* empty queue.
THEOREM MaxEventOnlyAfterIdleRun == LoopSpec => MaxEventAfterIdleRun
<1> DEFINE Earned == \A x \in told' : x.event = MaxTimeSleep =>
                        /\ queue = <<>>
                        /\ idle + 1 = MaxSleep - DefaultSleep
<1>1. Asleep /\ LoopNext => Earned
  <2> SUFFICES ASSUME Asleep, LoopNext
               PROVE  Earned
    OBVIOUS
  <2>1. ASSUME told' = {} PROVE Earned
    BY <2>1
  <2>2. ASSUME TaskOnTree PROVE Earned
    BY <2>2 DEF TaskOnTree, Tell, TaskTimeElapsed, MaxTimeSleep
  <2>3. CASE Update
    BY <2>1, <2>2, <2>3 DEF Update
  <2>4. CASE Sleep
    <3>1. CASE AtMaximum
      <4>1. sleep + 1 = MaxSleep /\ sleep = DefaultSleep + idle
        BY <3>1 DEF AtMaximum, Raised, Asleep, SleepFollowsIdle
      <4>2. idle + 1 = MaxSleep - DefaultSleep
        BY <4>1, SleepAssumption DEF Asleep
      <4> QED
        BY <2>4, <4>2 DEF Sleep
    <3>2. CASE ~AtMaximum
      BY <2>1, <2>4, <3>2 DEF Sleep
    <3> QED
      BY <3>1, <3>2
  <2>5. CASE Serve \/ FollowStaleRoot \/ Shutdown \/ Exit
    BY <2>1, <2>5 DEF Serve, FollowStaleRoot, Shutdown, Exit
  <2>6. ASSUME NEW i \in ProjectIds, NEW t \in Garbage, Elapse(i, t)
        PROVE  Earned
    BY <2>1, <2>6 DEF Elapse
  <2> QED
    BY <2>3, <2>4, <2>5, <2>6 DEF LoopNext, Advance
<1>2. Asleep /\ [LoopNext]_loopVars => [Earned]_loopVars
  BY <1>1
<1> QED
  BY <1>2, AsleepStays, PTL DEF LoopSpec, MaxEventAfterIdleRun

-----------------------------------------------------------------------------
(* Types *)

DueInTree == \A d \in due : d \in ProjectIds \X Garbage /\ InTree(d[1], d[2])

ToldRegistered ==
    \A x \in told : x.event \in DOMAIN callbacks /\ x.handler \in Handlers

FacadeType ==
    /\ pc \in {"update", "serve", "shutdown", "exit", "ended", "undefined"}
    /\ ctx \in {"null", "live", "destroyed"}
    /\ wrapper \in {"nop_stub", "on_update_on"}
    /\ callbacks \in [DOMAIN callbacks -> Handlers]

LoopShape == FacadeType /\ DueInTree /\ ToldRegistered

\* Who is told of an event is registered for it.
LEMMA TellType ==
    ASSUME callbacks \in [DOMAIN callbacks -> Handlers], NEW id, NEW about,
           NEW x \in Tell(id, about)
    PROVE  x.event \in DOMAIN callbacks /\ x.handler \in Handlers
BY DEF Tell

LEMMA FacadeStep == FacadeType /\ LoopNext => FacadeType'
<1> SUFFICES ASSUME FacadeType, LoopNext
             PROVE  FacadeType'
  OBVIOUS
<1> USE DEF FacadeType
<1>1. CASE Update
  BY <1>1 DEF Update, facade
<1>2. CASE Sleep
  BY <1>2 DEF Sleep, facade
<1>3. CASE Serve
  BY <1>3 DEF Serve, AfterMessage, facade, ServeAddProject, ServeAddTask,
              ServeRemoveProject, ServeRemoveTask, ServeEventSystem,
              ServeNothing
<1>4. CASE FollowStaleRoot
  BY <1>4 DEF FollowStaleRoot, facade
<1>5. CASE Shutdown
  BY <1>5 DEF Shutdown
<1>6. CASE Exit
  BY <1>6 DEF Exit, facade
<1>7. ASSUME NEW i \in ProjectIds, NEW t \in Garbage, Elapse(i, t)
      PROVE  FacadeType'
  BY <1>7 DEF Elapse, facade
<1> QED
  BY <1>1, <1>2, <1>3, <1>4, <1>5, <1>6, <1>7 DEF LoopNext, Advance

LEMMA DueStep == DueInTree /\ LoopNext => DueInTree'
<1> SUFFICES ASSUME DueInTree, LoopNext
             PROVE  DueInTree'
  OBVIOUS
<1> USE DEF DueInTree, InTree
<1>1. ASSUME due' \subseteq due, UNCHANGED projects PROVE DueInTree'
  BY <1>1
<1>2. ASSUME due' = {} PROVE DueInTree'
  BY <1>2
<1>3. CASE Update
  BY <1>1, <1>2, <1>3 DEF Update, TaskOnTree, container
<1>4. CASE Sleep \/ Exit
  BY <1>1, <1>4 DEF Sleep, Exit, container
<1>5. CASE Serve
  BY <1>5 DEF Serve, KeepTimers
<1>6. CASE FollowStaleRoot
  BY <1>1, <1>6 DEF FollowStaleRoot, UseStaleRoot, Stop
<1>7. CASE Shutdown
  BY <1>2, <1>7 DEF Shutdown
<1>8. ASSUME NEW i \in ProjectIds, NEW t \in Garbage, Elapse(i, t)
      PROVE  DueInTree'
  BY <1>8 DEF Elapse, container
<1> QED
  BY <1>3, <1>4, <1>5, <1>6, <1>7, <1>8 DEF LoopNext, Advance

LEMMA ToldStep == FacadeType /\ LoopNext => ToldRegistered'
<1> SUFFICES ASSUME FacadeType, LoopNext
             PROVE  ToldRegistered'
  OBVIOUS
<1>1. ASSUME told' = {} PROVE ToldRegistered'
  BY <1>1 DEF ToldRegistered
<1>2. ASSUME NEW id, \A x \in told' : \E about : x \in Tell(id, about),
             UNCHANGED callbacks
      PROVE  ToldRegistered'
  BY <1>2, TellType DEF ToldRegistered, FacadeType
<1>3. CASE Update
  BY <1>1, <1>2, <1>3 DEF Update, TaskOnTree, facade
<1>4. CASE Sleep
  BY <1>1, <1>2, <1>4 DEF Sleep, facade
<1>5. CASE Serve \/ FollowStaleRoot \/ Shutdown \/ Exit
  BY <1>1, <1>5 DEF Serve, FollowStaleRoot, Shutdown, Exit
<1>6. ASSUME NEW i \in ProjectIds, NEW t \in Garbage, Elapse(i, t)
      PROVE  ToldRegistered'
  BY <1>1, <1>6 DEF Elapse
<1> QED
  BY <1>3, <1>4, <1>5, <1>6 DEF LoopNext, Advance

LEMMA ShapeStays == LoopSpec => []LoopShape
<1>1. LoopInit => LoopShape
  <2> SUFFICES ASSUME LoopInit
               PROVE  LoopShape
    OBVIOUS
  <2> DEFINE byId == Registered(<< >>, MaxTimeSleep, "on_event")
  <2>1. byId = [e \in {MaxTimeSleep} |-> "on_event"]
    BY DEF Registered
  <2>2. byId \in [DOMAIN byId -> Handlers]
    BY <2>1 DEF Handlers
  <2>3. ASSUME NEW registry
        PROVE  LET cbs == RegisteredByName(byId, registry,
                                           "TASK_TIME_ELAPSED", "on_elapsed")
               IN cbs \in [DOMAIN cbs -> Handlers]
    BY <2>2 DEF RegisteredByName, Registered, Handlers
  <2>4. callbacks \in [DOMAIN callbacks -> Handlers]
    BY <2>2, <2>3 DEF LoopInit
  <2> QED
    BY <2>4 DEF LoopInit, Created, LoopShape, FacadeType, DueInTree,
                ToldRegistered
<1>2. LoopShape /\ [LoopNext]_loopVars => LoopShape'
  <2>1. ASSUME LoopShape, UNCHANGED loopVars PROVE LoopShape'
    BY <2>1 DEF LoopShape, FacadeType, DueInTree, ToldRegistered, InTree,
                loopVars, container, facade
  <2> QED
    BY <2>1, FacadeStep, DueStep, ToldStep DEF LoopShape
<1> QED
  BY <1>1, <1>2, PTL DEF LoopSpec

\* Every variable of the loop and of its container stays in its type, and only
\* tasks of the tree have timers that ran out.
THEOREM LoopTypeCorrect == LoopSpec => []LoopTypeOK
<1>1. TypeOK /\ Queued /\ Asleep /\ LoopShape => LoopTypeOK
  BY DEF Queued, Asleep, LoopShape, FacadeType, DueInTree, ToldRegistered,
         LoopTypeOK
<1> QED
  BY <1>1, LoopIsContainer, TypeCorrect, QueueStays, AsleepStays, ShapeStays,
     PTL

=============================================================================
