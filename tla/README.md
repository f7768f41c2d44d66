# Models and proofs of selfma

selfma manages projects and the timed tasks inside them. The repository holds
two implementations of one idea that share no code: the C++ core (`src/core`),
which keeps AVL trees in memory and writes them to a file, and the Rust crate
(`src/rust/selfma`), which keeps maps in memory in front of an SQLite database.
The modules here model both, TLC checks them on small instances, and TLAPS
proves the main invariants for every value of the constants.

## The system

| Part | State | Operations | Talks to |
|---|---|---|---|
| C++ `IDs` (`ids_pool.h`) | `_next`, LIFO `_stack` of released ids, `_max_ids` | `init`, `clean`, `next`, `release` | one in the container, one in each project |
| C++ `Project` (`project.cpp`) | AVL root, `_cunter`, pool, configuration | `add`, `remove`, `get_task`, `to_vector`, `worker`, `clean` | lives inside a node of the container's tree |
| C++ `Container` (`container.cpp`) | AVL root, `_element_counter`, pool | `add_project`, `remove_project`, `add_task`, `remove_task`, `to_vector`, `update`, destructor | called by the C API |
| C++ C API and file (`selfma_api.cpp`, `selfma_file.*`) | one container, file name, caller's buffer | create, destroy, add and remove, `serialize`, `deserialize`, `update` | the container, one file |
| C++ `Selfma`, `EventRegistry`, `main` | callbacks, event switch, queue, sleep time | facade of the API, `notify`, `update`, loop | the C API, `events.yaml` |
| Rust `IdPool` (`ids.rs`) | `next`, set `freed`, `max` | `allocate`, `release`, `reseed` | two in each context |
| Rust `SelfmaContext` (`context.rs`) | maps of projects and tasks, two pools, handlers | add and remove, `serialize`, `deserialize`, `update` | the store, the host's handlers |
| Rust `Store` (`storage.rs`) | tables `projects`, `tasks`, `schema_meta` | one SQL statement per method | SQLite |

What is hard in this code:

- **Ids.** Ids are released and used again in all four pools, and results of
  `release` are dropped everywhere. If an id were free and in use at once, C++
  would construct a project over another one, and Rust would overwrite a task.
- **Counters beside trees.** In C++ the number of elements is counted apart from
  the tree, and `to_vector`, from which files are written, counts down from it.
- **Failing steps.** Ids are taken before insertions that may fail; Rust changes
  memory only after the database.
- **Several contexts.** Nothing stops two Rust contexts on one database, nor a
  process from dying between two statements of a method.
- **Freed memory.** `Project::remove` drops the new root that `avlt_delete`
  returns and reads the task after it was freed.
- **Files.** `serialize` truncates the only copy, writes the header with the sizes
  in one call and all data in another, and checks neither, so that the file may end
  at any byte; `deserialize` checks no read and gives everything a new id.
- **Timers.** In Rust, `update` works on a snapshot of elapsed tasks, deletes first
  and calls the handlers afterwards; one failing deletion ends the pass. In C++ a
  timer that ran out is set anew in the middle of the walk over the tree.
- **The loop.** Its sleep time is raised in one place, compared for equality in
  another and reset in two; one member function pointer decides whether tasks are
  looked at; two events share one map of callbacks, with ids from a file that may
  be absent or break off; the end of the program destroys what `shutdown` did.

What makes each part correct: a pool never hands out an id in use (`PoolSound`);
`to_vector` lists everything in the tree; a project in the tree is not
constructed again; one Rust context keeps memory and database equal; a task is
announced at most once and, once announced, is gone from the database; whatever
is due is handled in the end; a file gives back what was written to it, up to the
byte where the writing stopped; both events of the loop keep coming, for every task
and whatever messages it is given, and `KILL` ends it.

## Modules

| Module | Models | How |
|---|---|---|
| `IDs` | `ids_pool.h` | a pool is a record, operations are operators on it |
| `Project` | `project.cpp` | a project is a record, operations give the set of their possible results |
| `Container` | `container.cpp`, extends `Project` | one action per operation |
| `SelfmaFile` | `selfma_api.cpp`, extends `Container` | adds texts, the file as a sequence of cells, and loading one insertion at a time |
| `IdPool` | `ids.rs` | like `IDs` |
| `EventRegistry` | `event_registry.cpp` | a registry is a function from names to ids |
| `EventLoop` | `main.cpp`, `selfma.cpp`, `task.h`, extends `Container` and `EventRegistry` | one action per half of a pass |
| `SelfmaContext` | `context.rs`, `storage.rs`, timers of `models.rs`, extends `IdPool` | one action per SQL statement |
| `TaskBook` | what the Rust store promises | an abstract specification without ids, memory or failures |
| `SavedBook` | what the C API promises of a save and a load | an abstract specification without ids, trees, counters or cells |
| `MC_*` | | instances for TLC, symmetry and views |
| `IDs_proofs`, `Container_proofs`, `SelfmaFile_format_proofs`, `SelfmaFile_proofs`, `EventLoop_proofs` | | theorems about the C++ core |
| `IdPool_proofs`, `SelfmaContext_proofs`, `SelfmaContext_one_proofs` | | theorems about the Rust crate, each extending the one before |

**Container.** `projects` is the tree as a function from ids to `Project` records,
`elements` is `_element_counter`, `ids` is `_id`. The C++ code is single threaded,
so an operation is one step. `status` tells whether the process goes on: it is
`"halted"` after `QWISTYS_HALT` or an exception, and `"undefined"` after freed
memory was used, from where nothing is claimed. Calls that return an error
without changing anything are stuttering steps. `Recreate` is the destructor
followed by the constructor, as in `deserialize`.

The AVL tree, the stack and the allocator come from submodules that are not in the
repository, so they are external and modelled by what the calling code does with
them. An insertion returns the new root, or fails either with the tree as it was
or with a null root, which the assignment makes the whole tree (`InsertOutcomes`).
A deletion whose result is dropped leaves the old root dangling, still the root,
or below a new root with only part of the tree under it (`StaleRootOutcomes`;
every proper part is allowed once three nodes remain, more than any rotation
gives). A value read from freed memory is any of `Garbage`. Both trees are ordered
by id, which is what both comparison functions intend although one of them casts
its arguments to nodes and the other does not.

**SelfmaFile.** Texts stand for names and descriptions; every one is given once, so
they tell projects and tasks apart and show where each ends up. A cell is the
header up to its array, a size, a project or a task. The code writes header and
array with one call and all data with another, so after a full disk or a crash the
file may end at any byte: `Cuts` are the files that end between two cells or in the
middle of one (`Ends`). Of a text the beginning is left and zeros behind it (`Torn`;
how much is there makes no difference to what is read, and a torn text that is torn
again is one), of a size its low bytes, a remainder by one of `SizeCuts` (256, 65536
and 16777216 in the code, where a size has four bytes with the lowest first). A file
that ends within the header is as good as an empty one. The count in the header is
taken modulo `ChunkLimit`, 256 in the code; when it is below the number of sizes,
every text is `Noise`. A missing cell reads as zeros, `Blank`. `chunks` is what `deserialize` read and inserts, and `at` the
loop variables `i` and `j` of its next insertion; each insertion uses the actions of
`Container` with all their failures. `Ascending` is the scan of both `to_vector`s:
the k-th thing found is the one with k - 1 smaller ids below it.
`ProjectsToVec` is the facade's listing, which asks for ids from 0 and stops at the
first that is missing.

**EventRegistry.** A file is the entries that the loop of `load` reads and whether an
exception ends the reading after the last of them, which covers a file that is
absent, has no list of events, or breaks off in the middle. After an exception
what was read is thrown away and the compiled names are used.

**EventLoop.** A pass is `Update`, which looks at the timers, and then `Sleep` with an
empty queue or `Serve` with one message; `pc` says which half is next. `Serve`
composes the facade with the actions of `Container`, their failures included; what
the facade refuses leaves the container alone and is still a step, because the
sleep time is set back after it. `main.cpp` fills its queue once, before the loop,
with two messages. The model fills it with any script from `Scripts`, of which that
is one: the loop has a case for every command, and only other scripts reach them.
`due` holds the tasks whose timer has run out; a timer is part of the task's node
and goes with it (`KeepTimers`). `ctx` is the pointer `_ctx`: null when nothing could
be allocated, destroyed after `shutdown`, which does not clear it. Callbacks are a
map from event ids. The one for the maximal sleep time is registered by id, as
`main.cpp` does; another one may be registered by name for elapsed tasks, as the
comment there offers and a host would do, so that ids compiled in and ids read from
the file meet in one map. `told` holds what the last step called, with the task it
was about, which the code does not pass on, and `idle` counts passes that slept; both
are history variables.

**SelfmaContext.** A method holds its context exclusively, so only the statements
of different contexts interleave. A method with one statement is one action,
`deserialize` is `LoadProjects` and `LoadTasks`, and `update` is `UpdateStart`,
then `UpdateDelete` and `UpdateAnnounce` for each task. The two writes of
`serialize` touch only `schema_meta`, which no code reads, so they are one action
whose second half may be missing. SQLite is external: a statement is atomic and
durable or fails without effect, keys are unique, `ON DELETE CASCADE` works
because `Store::open` turns foreign keys on. `due` says whether a task's timer has
elapsed; time passes by `Elapse`, and since the timer reads the wall clock it may
be set back. Every creation uses a new item, so that a row is told apart from a
later one with the same id. `announced` and `used` are history variables.

**TaskBook.** A book has projects and tasks that belong to one project each. Every
operation is atomic and nothing fails; a task that expires leaves the book and is
announced, unless the process ends before. `SelfmaContext` maps its tables to it:
`open` are the projects in the table, `filed` the tasks with their projects, and
`leaving` what was deleted and not yet given to the handlers. Failed statements,
crashes elsewhere, `serialize` and `deserialize` change nothing of a book.

**SavedBook.** A book is a sequence of chunks, a title with tasks each, and `saved` is
the book that a load would give. A project or a task is put anywhere into the
book, because it may get an id that was used before; a removal takes one chunk, or
some tasks of one chunk; a save stores the book or a cut of it (`CutOf`: whole up to
one text, which may be torn, and blank behind it, or blank chunks with fewer tasks
when not all sizes were written); a load replaces the book. `SelfmaFile` maps to it what `to_vector` collects
(`Memory`) and what the cells of its file read as (`Readable`). From the moment a
load has read the file its chunks count as the book, so that the insertions one
after the other change nothing. Where allocations may fail (`Lossy`, which is mapped to
`AllocFails`) the last insertion is a second step of the load, to a part of the book
that was read: some of its chunks in their order, each with some of its own tasks in
theirs (`PartOf`). What the specification leaves open is what the code leaves open: a
task that is added may be lost (its id may be that of another task), an insertion
that fails may lose the tasks of its project or, when it adds a project, all
projects, which for a book is to be closed, and a save of `ChunkLimit` chunks or more
may give anything.

## Runs

| Run | Question | Bounds |
|---|---|---|
| `container` | Do pool, counter and tree of projects agree in every order of calls and failures, and does `Project::to_vector` list what the root reaches? | 3 projects, 4 task ids, counter to 5, allocations may fail; beside another project a project takes only one task id (`DeepAlone`) |
| `container_exhausted`, `container_task_ids` | What the documentation says and the code does not do | smallest that shows it |
| `context_one` | Does one context keep memory and database together, announce once, let what is due leave, and so implement `TaskBook`? | 1 context, 3 ids, 3 creations, 2 faults |
| `context_two` | What holds when two contexts share a database? | 2 contexts, 2 ids, 3 creations, 1 fault |
| `context_next_ids` | Do serialized ids continue, as a test says? | 1 context, no faults |
| `file_faults` | Where do tasks go when a load meets files that end anywhere and failed insertions, and is it still a `SavedBook`? | 3 projects, 2 task ids each, 4 texts, 3 counts, allocations may fail |
| `file_format` | Does the format give back what was written, up to where it ends, does the facade list what was loaded, and are container and file a `SavedBook`? | 2 projects, 3 task ids each, 4 texts, 3 counts, no failed allocation |
| `file_count` | Is the count in the header the number of projects? | 3 projects, 3 counts |
| `event_loop` | Do both events keep coming, for every task that stays, and does `KILL` end the loop? | 2 projects, 2 task ids each, every script of up to 4 of 11 messages, sleep times 1 to 3, maximum 4, 7 files of events, allocations may fail |
| `loop_max_sleep` | Does the thread sleep more until the maximum and stay there, as a comment says? | scripts of up to 2 messages |
| `loop_destroy` | Is the context destroyed once, as an assertion needs? | scripts of up to 2 messages |

The bounds are enough because ids of different projects or tasks do not interact
except through the pool: three ids give a used one, a released one and a new
one at once, and a released one in the middle; with two faults a failure can
follow the recovery from another one. In `container` task ids run out, and roots go
stale with three tasks left, only while a project is alone: no call on a project
reads or writes another one, so that this loses no behaviour of either. The counts of
`ChunkLimit = 3` are 0, 1 and 2, so a container of three projects is one that
overflows, in `file_faults` and `file_count`; `file_format` has no use for such a
container and takes a third task instead, so that a size of 3, cut by `SizeCuts = {2}`,
reads as 1: neither what was written nor nothing. Four texts let a chunk of two tasks
stand before or behind another one, with the tear in any of them. `MaxCount` only
bounds a counter that TLC could not enumerate, and `MaxFaults` bounds crashes,
failed statements and clock jumps; the proofs need neither to be small. The
files of events include two that number the events otherwise than the program. In
`event_loop` `MaxCount` is the length of the longest script, so that it keeps no
message from being handled; four messages are a project, a task, a third message
that switches, removes or fails, and `KILL` or one more. Three sleep times are
enough for one that is neither the first nor the last. Deadlock is checked for the
contexts, which can always be opened or closed. It is not checked for the C++ runs,
where the process may really stop.

Texts are interchangeable, and so are items and contexts: the runs of the file and
`context_two` use them as symmetry sets. `context_one` has liveness and a refinement
and uses none. The view `ReadState` of `context_two` leaves out `schema_meta`, which
no action reads.

What the passing runs show, beyond their properties:

- In C++ the id that a failed insertion loses is what keeps `deserialize` right:
  it adds the tasks of chunk `k` to project `k`, and ignores whether the project
  was added. Giving the id back would let the projects behind it slide under
  lower numbers than their chunks have, where their tasks do not find them
  (`TasksUnderTheirProject`, and its mutant).
- A load that loses projects or tasks to failed insertions neither moves nor mixes
  what it keeps (`ImplementsSavedBook` in `file_faults`). Nobody is told of the
  loss, and the next save makes it last.
- In C++ counter, tree and pool of a project drift apart, and yet `to_vector` lists
  every task that the root still reaches, because every error makes the counter too
  high. Tasks that a rebalancing put above a stale root are not reached by it: they
  are lost to `to_vector` and to the file, and `TasksListed` does not count them.
- A file that ends too early loads without an error, with a name or description that
  may be cut in the middle; nothing tells it from one that was written so
  (`PrefixReadsInPlace`, `ImplementsSavedBook`).
- In Rust, `WriteThrough`, `StaysInSync`, `NoOrphanTask`, `AnnouncedOnce` and
  `UpdateDeletesWhatItAnnounces` hold for one context only and are checked with
  one. With two, a context may delete a row that another one wrote under a
  reused id, load tasks whose project was removed between its two queries, or
  announce what another one announced. What still holds with two is in
  `context_two`.
- For the same reason only one context implements `TaskBook`: a second one announces
  a task a second time, or deletes a row which it does not announce.
- The test for equality of the sleep time is safe: the time is raised by one and
  starts below the maximum, so it cannot pass it (`MaxSleepRecurs`).
- In one pass every timer that ran out is announced: a handler's call does not end
  the walk, and a task waits for no other one (`ElapsedRecurs`). The property asks that
  the event system is on and promises nothing of what switches it.
- A file of events that breaks off cannot leave half of its ids in the registry, but
  one that numbers the events otherwise mixes them up: a handler registered by name
  for elapsed tasks gets the event of the maximal sleep, and pushes the handler that
  was registered by id out of the map. Nothing in the loop depends on which handler is
  called, so that no property is about it.
- A load leaves no holes in the ids, so that `projects_to_vec`, which stops at the
  first one, lists what was loaded (`LoadedAreListed`).

### Fairness

`context_one` assumes weak fairness of `UpdateStart`, `UpdateDelete`,
`UpdateAnnounce` and `LoadTasks` for each context: the host calls `update` again
and again, which is how the crate is meant to be used, and a call that has
started is executed. Nothing else is assumed; no call has to be made, and faults
are bounded by `MaxFaults`, for a database that fails for ever leaves nothing to
promise. `DueTaskLeaves` counts a task as handled as well when its timer starts
anew through a reload or a clock set back.

`event_loop` assumes weak fairness of `Advance`, the next step of the only thread,
which nothing in the program can block, and of `Elapse` for each task: time passes
while the program runs. No outcome is favoured: which of its results an insertion
has is not subject to fairness.

## Disagreements found

- A project id is not given back when the last project is removed or an insertion
  fails, so "All IDs have been allocated" comes while ids are unused.
- `Project::remove` releases an id read from freed memory, so a task id may be
  handed out while it is in use.
- `num_of_chunks` is cut to eight bits while 4096 projects are allowed.
- After `deserialize` the Rust pools do not continue from the serialized ids.
- The comment in `main.cpp:24-29` has the thread sleep more and more and stay at the
  maximal time; the code sets the time back when it gets there, and never sleeps that
  long (`loop_max_sleep`).
- `shutdown` destroys the context and the destructor of `Selfma` destroys it again.

Seen in the code and modelled as it is, without a run of its own:
`Project::get_task` may follow a freed root after a removal; `EVENT_SYS_OFF` calls
`evntsystem_on`, so that the event system is never off; the comment at `main.cpp:61`
calls registering by id and by name equivalent, which a file that numbers the events
otherwise makes untrue; `add_task` and `remove_project` without a context report
success.

## Proofs

All are over any values of the constants, from the named assumptions only: limits
are positive (`MaxTasksAssumption`, `MaxProjectsAssumption`, `MaxIdAssumption`,
`ChunkLimitAssumption`, and `SizeCutsAssumption` for what is left of a size),
`MaxFaults` is a natural number, `AllocFails` is a Boolean.

**`IDs_proofs`, `IdPool_proofs`**: each operation of a pool keeps its type and
`PoolSound`. For the C++ pool this needs that the stack has no repetition, which
is why `PoolSound` says so: popping the last id must take its only copy.

**`Container_proofs`**: `Invariance` proves one inductive invariant, type
correctness with `PoolSound` of the project ids, a bound of `elements` from both
sides and a bound of every task counter from below. The counter of elements lies
between the number of projects and the number of ids handed out and not free;
neither bound is inductive alone, since `remove_project` sets the counter to zero
on the way to an empty tree and leaves the id taken. From it follow `TypeCorrect`,
`ProjectIdsStaySound`, `CounterStaysWithinIds`, `ReleaseIsAccepted`,
`ProjectsAreListed`, `TasksAreListed` and, as a property of steps,
`NoProjectConstructedTwice`.

**`SelfmaContext_proofs`**: `Invariance` proves `TypeOK`, `PoolsSound` and
`PassShape` together, for any number of contexts. An action changes the memory of
one context, so each lemma shows what `Inv` says of that one (`Local`) and
`LocalStep` carries the rest. Soundness of the pools and the snapshot of `update`
need each other: a task is dropped and its id released only because it is still
in memory, and it is still in memory because passes of one context do not overlap
with its other calls. From it follow `TypeCorrect`, `PoolsStaySound` and
`UpdateAlwaysFindsTasks`.

In the same module `ItemInvariance` follows the item of a task, for any
number of contexts. `AnnouncedIsGone` is not inductive: `update` deletes by the id
and project that memory remembers, which may be those of another row by now. What
makes it right is that an item is in one row only (`OneRowPerItem`) and that a
memory which still holds it has it under that row's id and project
(`CopiesAgree`), so that a deletion by these values hits the row if it is there.
Every action but `add_task` only takes away or copies (`NothingNew`), and one lemma
handles all of them.

**`SelfmaContext_one_proofs`**: the assumption `OneContext` says that there is at most
one context. `SoloInv` adds to the above that the foreign key holds and that what
`deserialize` has read of the projects is still in the table when it reads the
tasks. `WriteThrough` needs the first, since a load would bring orphans into memory,
and `AnnouncedOnce` needs `WriteThrough`: what `update` takes from memory is in the
table, and what is in the table was not announced. From it follow
`StaysWrittenThrough`, `NeverAnOrphan`, `NeverAnnouncedTwice`,
`DeletesWhatItAnnounces` and `AlwaysInSync`, the last two about steps. In the same
module, `IsATaskBook` is the refinement. Each action is shown to be an operation of
the book or to leave it alone. It needs all invariants before it, and that no two
project rows are of one creation, without which `remove_project` would take the
tasks of both.

**`SelfmaFile_format_proofs`**: lemmas about the operators of the file, for sequences
of any length. The definitions are recursive functions, and `FlattenSeq` is one; that
the function a recursion defines exists and obeys its equation is proved by
induction over a set of numbers (`SetInduction` in `IDs_proofs`, from the library's
`NatLessThanWellFounded`; the library's own induction theorem takes an operator,
which the provers cannot instantiate). The lemmas say where `FlattenSeq` puts each
element, so where each cell lies (`CellsLayout`) and where each chunk begins
(`StartsRise`); what a file that ends at any byte still has of its cells (`CutCells`);
and that such a file reads every text from its own place, whole before the end, torn
at it and blank behind it (`TextInPlace`), so that it is a `CutOf` what was written
(`ReadsInPlace`). `AscendingPlaces` and those after it say what the scan of
`to_vector` finds, and how that changes when one id comes or some go.

**`SelfmaFile_proofs`**: `FileInvariance` carries the invariant of the container over
saves, loads of any file and restarts, and `FileKeepsProjectIdsSound` follows. While
a load has insertions to make nothing was released in the new container, so without
failed allocations its projects are numbered as they came (`Numbered`); from this
`LoadIsListed` follows.

`FInvariance` proves the invariant of memory and file: texts belong to what is in
memory, the file is some book cut somewhere, and a load goes through the chunks
that this file reads as. With the lemmas about the format it gives
`FileTypeCorrect`, `FileReadsBack` and `CutFileReadsInPlace`. The last two are about
every container that can come about, with any holes in its ids.

Two invariants follow a load. `Placed` says that after the insertions tried for `c`
chunks exactly `c` ids were taken, so that project `i` can only be that of chunk
`i + 1`; it needs no assumption about failures and gives `LoadKeepsTasksApart`. With
`~AllocFails`, `Filled` says that all of those chunks are in memory, with their tasks
numbered as they came; it gives `LoadRebuildsTheFile`. The assumption is needed:
a project whose insertion fails is not there after the load. What holds without it is
`Tried`: of the tasks that were tried each took the next id of its project, so that
those which are there have the text of their own number.

`IsASavedBook` is the refinement, without an assumption about failures. What `to_vector`
collects is rewritten without the counters (`CollectsAll`), which is where the
container's invariant is used; then an added project puts one chunk into the book, or
none, or empties it (`AddBegins`), a removed one takes one out (`RemoveEnds`), a task
touches one chunk (`TaskBegins`, `TasksEnd`), and a save stores a cut of the book. The
last insertion of a load leaves what was read when no allocation fails (`Filled`,
`FullCollects`). Otherwise it leaves a part: by `Placed` and `Tried` a project and a task
tell from their ids where in the file they were, and `to_vector` lists ids upward
(`AscendingRises`), so that what is listed is in the order of the file
(`PartialCollects`). `Loaded`, that the file is there until the load has ended, is what
makes this a part of something that can be loaded.

**`EventLoop_proofs`**: `MaxEventOnlyAfterIdleRun` rests on the invariant `Asleep`,
which adds types to the relation of sleep time and idle passes (`SleepFollowsIdle`):
the time is the default plus the number of passes slept, and stays below the maximum,
so that the comparison for equality can only come true after all of them.
`LoopTypeCorrect` shows that timers belong to tasks in the tree, for any scripts and
any files of events. Both use that a step of the loop is a step of the container or
leaves it alone (`LoopIsContainer`, a lemma), from which the types of the container
follow.

Checked by TLC only: `DueTaskLeaves`, `MaxSleepRecurs`, `ElapsedRecurs` and `KillEnds`,
since liveness under fairness is out of the prover's reach, and the properties of
the runs that are violated. Every other property of a passing run is a theorem.

## Not modelled

- `evntsystem_off`, `on_update_off`, `EventRegistry::has` and `all`, the recovery actions
  of `_setup_drp`: nothing calls them.
- Validation of names, descriptions and durations, in the Rust crate and behind the
  C API: it happens before any change of state, so a rejected call is a stuttering
  step. The facade's own check is in `EventLoop`, where the loop goes on after it.
- `get_project`, `list_projects`, printing: they change nothing. What they would
  show is covered by `NoOrphanTask` and the `to_vector` properties.
- The caller's user buffer, creation times and timers inside a saved file,
  compression (which copies), byte order helpers, `HeaderGuard`, `handle_security`: no
  state that decides anything, or no caller.
- Handlers that call back into the facade while the tree is walked: no handler in
  the repository does.
- `waight.h`, the build files, the external libraries.

## What is left

All components with behaviour of their own are modelled, and all safety properties
that passing runs check are proved. What could still be added are the timers in a
saved file: a load in another process, whose steady clock started at another time.
No document says when a loaded task should be due, so the first step would be to
decide that.
