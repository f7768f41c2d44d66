------------------------------ MODULE TaskBook ------------------------------
(***************************************************************************)
(* What the store of the Rust crate promises: a book of projects and of    *)
(* tasks that belong to one project each, in which every operation is      *)
(* atomic.  There are no ids, no memory beside the book, no failures and   *)
(* no restarts: an operation happens or it does not.  A task whose time is *)
(* up leaves the book and is announced, unless the process ends before.    *)
(***************************************************************************)
CONSTANT Items   \* what projects and tasks are created with, each once

VARIABLES
    open,        \* the projects in the book
    filed,       \* the tasks in the book: <<task, project>>
    leaving,     \* the tasks that left the book to be announced
    announced,   \* the tasks announced so far
    used         \* the items used so far

bookVars == <<open, filed, leaving, announced, used>>

BookInit == /\ open = {} /\ filed = {}
            /\ leaving = {} /\ announced = {} /\ used = {}

\* add_project
Begin(item) == /\ item \in Items \ used
               /\ used' = used \cup {item}
               /\ open' = open \cup {item}
               /\ UNCHANGED <<filed, leaving, announced>>

\* add_task
File(item, project) == /\ item \in Items \ used
                       /\ project \in open
                       /\ used' = used \cup {item}
                       /\ filed' = filed \cup {<<item, project>>}
                       /\ UNCHANGED <<open, leaving, announced>>

\* remove_project takes its tasks along.
Finish(project) == /\ project \in open
                   /\ open' = open \ {project}
                   /\ filed' = {x \in filed : x[2] # project}
                   /\ UNCHANGED <<leaving, announced, used>>

\* remove_task
Strike(x) == /\ x \in filed
             /\ filed' = filed \ {x}
             /\ UNCHANGED <<open, leaving, announced, used>>

\* update, for one task ...
Expire(x) == /\ x \in filed
             /\ leaving = {}
             /\ filed' = filed \ {x}
             /\ leaving' = {x[1]}
             /\ UNCHANGED <<open, announced, used>>

\* ... and its handlers, which a crash may keep from being called.
Announce == /\ leaving # {}
            /\ announced' = announced \cup leaving
            /\ leaving' = {}
            /\ UNCHANGED <<open, filed, used>>

Lose == leaving' = {} /\ UNCHANGED <<open, filed, announced, used>>

BookNext == \/ \E item \in Items : \/ Begin(item)
                                   \/ Finish(item)
                                   \/ \E project \in open : File(item, project)
            \/ \E x \in filed : Strike(x) \/ Expire(x)
            \/ Announce
            \/ Lose

BookSpec == BookInit /\ [][BookNext]_bookVars
=============================================================================
