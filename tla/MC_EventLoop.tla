---------------------------- MODULE MC_EventLoop ----------------------------
(* Small instances of EventLoop for TLC.                                    *)
EXTENDS EventLoop

CONSTANT MaxScript   \* the longest script

Msg(cmd, i, t, named) == [cmd |-> cmd, project |-> i, task |-> t, named |-> named]

Msgs == {Msg("ADD_PROJECT", 0, 0, TRUE), Msg("ADD_PROJECT", 0, 0, FALSE),
         Msg("ADD_TASK", 0, 0, TRUE), Msg("ADD_TASK", 1, 0, TRUE),
         Msg("REMOVE_PROJECT", 0, 0, TRUE),
         Msg("REMOVE_TASK", 0, 0, TRUE), Msg("REMOVE_TASK", 0, 1, TRUE),
         Msg("GET_TASK", 0, 0, TRUE), Msg("EVENT_SYS_ON", 0, 0, TRUE),
         Msg("EVENT_SYS_OFF", 0, 0, TRUE), Msg("KILL", 0, 0, TRUE)}

\* Every sequence of these messages; that of main.cpp:93-94 is one of them.
ShortScripts == UNION {[1..n -> Msgs] : n \in 0..MaxScript}

Entry(id, name) == [id |-> id, name |-> name]

\* No file or no events in it; one whose second entry cannot be read, after one
\* that gives its name another id; the one in config/; one that corrects an
\* entry by a second one; two that number the events otherwise than the program,
\* with the id of the other event and with that of none; one without events.
SomeFiles ==
    {[entries |-> <<>>, throws |-> TRUE],
     [entries |-> <<Entry(MaxTimeSleep, "TASK_TIME_ELAPSED")>>, throws |-> TRUE],
     [entries |-> <<Entry(MaxTimeSleep, "EVENT_MAX_TIME_SLEEP"),
                    Entry(TaskTimeElapsed, "TASK_TIME_ELAPSED")>>,
      throws |-> FALSE],
     [entries |-> <<Entry(MaxTimeSleep, "TASK_TIME_ELAPSED"),
                    Entry(TaskTimeElapsed, "TASK_TIME_ELAPSED")>>,
      throws |-> FALSE],
     [entries |-> <<Entry(TaskTimeElapsed, "EVENT_MAX_TIME_SLEEP"),
                    Entry(MaxTimeSleep, "TASK_TIME_ELAPSED")>>,
      throws |-> FALSE],
     [entries |-> <<Entry(TaskTimeElapsed + 1, "TASK_TIME_ELAPSED")>>,
      throws |-> FALSE],
     [entries |-> <<>>, throws |-> FALSE]}
=============================================================================
