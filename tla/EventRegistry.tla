---------------------------- MODULE EventRegistry ----------------------------
(***************************************************************************)
(* The event registry of the C++ core (core/event_registry.cpp): which id  *)
(* an event name has.  It is read once from events.yaml, and falls back to *)
(* what is compiled in.  The YAML parser is external: a file is the        *)
(* entries its loop reads, and whether an exception ends the reading (no   *)
(* file, no sequence of events, an entry without id or name).              *)
(***************************************************************************)
EXTENDS Integers, Sequences, SequencesExt

\* Namespace EventID.
MaxTimeSleep == 0
TaskTimeElapsed == 1

EventIds == {MaxTimeSleep, TaskTimeElapsed}
EventNames == {"EVENT_MAX_TIME_SLEEP", "TASK_TIME_ELAPSED"}

\* The entries of a file, and whether reading them throws after the last one.
EventFile == [entries : Seq([id : Nat, name : EventNames]), throws : BOOLEAN]

\* UINT32_MAX
NoEvent == -1

\* What _register leaves of the entries read: the last one with a name decides
\* on the id of that name.
Registry(entries) ==
    [name \in {entries[k].name : k \in DOMAIN entries} |->
        entries[Max({k \in DOMAIN entries : entries[k].name = name})].id]

Defaults == [name \in EventNames |->
                IF name = "EVENT_MAX_TIME_SLEEP" THEN MaxTimeSleep
                ELSE TaskTimeElapsed]

\* An exception on the way throws away what was read.
Load(eventFile) == IF eventFile.throws THEN Defaults
                   ELSE Registry(eventFile.entries)

IdFor(registry, name) ==
    IF name \in DOMAIN registry THEN registry[name] ELSE NoEvent
=============================================================================
