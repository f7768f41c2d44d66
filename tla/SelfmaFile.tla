---------------------------- MODULE SelfmaFile ----------------------------
(***************************************************************************)
(* The C API of the core (core/selfma_api.cpp): one container and the file *)
(* it is serialized to and deserialized from.  The container is that of    *)
(* module Container; here its projects and tasks also have texts, which    *)
(* the file keeps, and new ids whenever they are loaded.                   *)
(*                                                                         *)
(* A cell of the file is the header up to its array, one size of that      *)
(* array, one project or one task.  serialize truncates the file and       *)
(* writes cells, header and sizes in one write and all data in another,    *)
(* that nobody checks: the file may end at any byte, between two cells or  *)
(* in the middle of one.                                                   *)
(***************************************************************************)
EXTENDS Container

CONSTANTS
    Texts,        \* names and descriptions, each given once, so that they tell
                  \* projects and tasks apart
    Blank,        \* a text of zero bytes
    Noise,        \* a text made of bytes read at a wrong offset
    ChunkLimit,   \* the values of num_of_chunks, a uint8_t (256 in the code)
    SizeCuts      \* the values of the first bytes of a size, a uint32_t with the
                  \* lowest byte first (256, 65536 and 16777216 in the code)

ASSUME ChunkLimitAssumption == ChunkLimit \in Nat \ {0}
ASSUME SizeCutsAssumption == SizeCuts \subseteq Nat \ {0}

\* header_t, of which only the count decides how the rest is read.
Header == [count : 0..ChunkLimit - 1]

VARIABLES
    titles,   \* project id |-> text
    texts,    \* project id |-> [task id |-> text]
    file,     \* {} when there is none, or its cells, in a set of one
    chunks,   \* deserialize: what it read and inserts; empty when it does not run
    at,       \* deserialize: its next insertion, task j of chunk k; with j = 0
              \* the project of the chunk
    used      \* history: the texts given so far

container == <<projects, elements, ids, status>>
loading == <<chunks, at>>
fileVars == <<container, titles, texts, file, loading, used>>

-----------------------------------------------------------------------------
(* The format *)

\* to_vector finds ids from 0 upward: the k-th is the one with k - 1 below it.
Ascending(S) == [k \in 1..Cardinality(S) |->
                    CHOOSE i \in S : Cardinality({j \in S : j < i}) = k - 1]

\* What serialize collects: to_vector of the container and of every project.
Chunks ==
    LET order == Ascending(ListedProjects)
        taskOrder(i) == Ascending(ListedTasks(projects[i]))
        chunk(i) == [title |-> titles[i],
                     tasks |-> [j \in DOMAIN taskOrder(i) |->
                                   texts[i][taskOrder(i)[j]]]]
    IN [k \in DOMAIN order |-> chunk(order[k])]

\* The cells written for them.  The number of chunks is cut to its width; the
\* array of sizes is not.
DataOf(chunk) == <<[text |-> chunk.title]>> \o
                 [j \in DOMAIN chunk.tasks |-> [text |-> chunk.tasks[j]]]

CellsOf(written) ==
    LET header == [count |-> Len(written) % ChunkLimit]
        sizes == [k \in DOMAIN written |-> [size |-> Len(written[k].tasks)]]
    IN <<header>> \o sizes
          \o FlattenSeq([k \in DOMAIN written |-> DataOf(written[k])])

\* The beginning of a text and zeros behind it.  How much of it is there makes
\* no difference, and what is left of a beginning is a beginning.
Torn(text) == IF text \in Texts THEN [torn |-> text] ELSE text

\* What the last cell of a file may be when this one was to be written: the cell
\* or, in the middle of it, a text whose end is missing or a size whose high
\* bytes are.
Ends(cell) ==
    {cell} \cup
    CASE "text" \in DOMAIN cell -> {[text |-> Torn(cell.text)]}
      [] "size" \in DOMAIN cell -> {[size |-> cell.size % m] : m \in SizeCuts}
      [] OTHER -> {}

\* What is in the file when the writing stops at any byte.  A file that ends
\* within the header is as good as empty.
Cuts(cells) ==
    {<<>>} \cup
    UNION {{[i \in 1..n |-> IF i = n THEN last ELSE cells[i]] :
               last \in Ends(cells[n])} : n \in 1..Len(cells)}

\* deserialize reads from cells that begin with a header.  Sizes and texts
\* that are not there read as zeros, in vectors that are cleared.
SizeAt(cells, k) == IF k + 1 <= Len(cells) THEN cells[k + 1].size ELSE 0

\* Mutant: the memory read into is not cleared.
TextAtUncleared(cells, n) ==
    IF n <= Len(cells) /\ "text" \in DOMAIN cells[n] THEN cells[n].text ELSE Noise

\* Texts are taken from right behind the sizes counted, which may not be where
\* they begin.
TextAt(cells, n) ==
    LET data == cells[1].count + 2
    IN CASE Len(cells) >= data /\ "size" \in DOMAIN cells[data] -> Noise
         [] n > Len(cells) -> Blank
         [] OTHER -> cells[n].text

\* Mutant: the offset is not moved behind the project.
ChunkStartsPacked(cells) ==
    LET start[k \in 1..cells[1].count] ==
            IF k = 1 THEN cells[1].count + 2
            ELSE start[k - 1] + SizeAt(cells, k - 1)
    IN start

\* Where each chunk begins.
ChunkStarts(cells) ==
    LET start[k \in 1..cells[1].count] ==
            IF k = 1 THEN cells[1].count + 2
            ELSE start[k - 1] + 1 + SizeAt(cells, k - 1)
    IN start

ReadChunks(cells) ==
    LET start == ChunkStarts(cells)
    IN [k \in 1..cells[1].count |->
           [title |-> TextAt(cells, start[k]),
            tasks |-> [j \in 1..SizeAt(cells, k) |->
                          TextAt(cells, start[k] + j)]]]

-----------------------------------------------------------------------------
(* Memory *)

Start == [chunk |-> 1, task |-> 0]

FileInit == /\ Init
            /\ titles = << >> /\ texts = << >>
            /\ file = {} /\ used = {}
            /\ chunks = <<>> /\ at = Start

Idle == chunks = <<>>

\* A new project has the text given and no tasks; the others keep theirs.
AddWithText(text) ==
    /\ AddProject
    /\ LET new == NextID(ids)
       IN /\ titles' = [i \in DOMAIN projects' |->
                           IF i = new THEN text ELSE titles[i]]
          /\ texts' = [i \in DOMAIN projects' |->
                          IF i = new THEN << >> ELSE texts[i]]

AddTaskWithText(i, text) ==
    /\ AddTask(i)
    /\ texts' = [texts EXCEPT
                   ![i] = [t \in projects'[i].tasks |->
                             IF t \in projects[i].tasks THEN @[t] ELSE text]]
    /\ UNCHANGED titles

\* What is left keeps its text.
KeepTexts ==
    /\ titles' = [i \in DOMAIN projects' |-> titles[i]]
    /\ texts' = [i \in DOMAIN projects' |->
                    [t \in projects'[i].tasks |-> texts[i][t]]]

Edit ==
    /\ Idle
    /\ \/ \E text \in Texts \ used :
             /\ \/ AddWithText(text)
                \/ \E i \in ProjectIds : AddTaskWithText(i, text)
             /\ used' = used \cup {text}
       \/ /\ \E i \in ProjectIds : \/ RemoveProject(i)
                                   \/ \E t \in Garbage : RemoveTask(i, t)
          /\ KeepTexts
          /\ UNCHANGED used
    /\ UNCHANGED <<file, loading>>

\* The process ends, or goes on with memory that nothing is known of.
Break ==
    /\ \/ AddProjectHalts
       \/ UseStaleRoot
       \/ \E i \in ProjectIds : AddTaskHalts(i) \/ RemoveProjectUndefined(i)
    /\ UNCHANGED <<titles, texts, file, loading, used>>

\* Selfma::projects_to_vec asks for one id after the other, up to the first
\* that no project has.
ProjectsToVec == {i \in DOMAIN projects : 0..i \subseteq DOMAIN projects}

-----------------------------------------------------------------------------
(* The file *)

Dangling == \E i \in DOMAIN projects : projects[i].dangling

\* serialize; a write that fails for want of space goes unnoticed, and one that
\* is not finished when the process ends leaves the same.
Serialize ==
    /\ Running
    /\ Idle
    /\ ~Dangling
    /\ \E cells \in Cuts(CellsOf(Chunks)) : file' = {cells}
    /\ UNCHANGED <<container, titles, texts, loading, used>>

\* A new process: nothing in memory, the file as it is.  The old one may have
\* ended in the middle of a call.
Restart ==
    /\ status \in {"running", "halted"}
    /\ Fresh
    /\ status' = "running"
    /\ titles' = << >> /\ texts' = << >>
    /\ chunks' = <<>> /\ at' = Start
    /\ UNCHANGED <<file, used>>

\* Mutant: the container is not replaced.
DeserializeOnTop ==
    /\ Running
    /\ Idle
    /\ \E cells \in file \ {<<>>} : chunks' = ReadChunks(cells)
    /\ at' = Start
    /\ UNCHANGED <<container, titles, texts, file, used>>

\* deserialize reads the whole file, then replaces the container.
DeserializeRead ==
    /\ Recreate
    /\ Idle
    /\ \E cells \in file \ {<<>>} : chunks' = ReadChunks(cells)
    /\ at' = Start
    /\ titles' = << >> /\ texts' = << >>
    /\ UNCHANGED <<file, used>>

\* The header of an empty file, or of one that ends within the header, is not
\* all set and looks valid by chance; or the container to be replaced still
\* has a project with a stale root.
DeserializeUndefined ==
    /\ Idle
    /\ file # {}
    /\ \/ <<>> \in file /\ Stop("undefined")
       \/ RecreateUndefined
    /\ UNCHANGED <<titles, texts, file, loading, used>>

\* Mutant: the last task of a chunk is left out.
FollowingButLast == IF at.task + 1 < Len(chunks[at.chunk].tasks)
                    THEN [at EXCEPT !.task = @ + 1]
                    ELSE [chunk |-> at.chunk + 1, task |-> 0]

\* The place of the insertion that follows.
Following == IF at.task < Len(chunks[at.chunk].tasks)
             THEN [at EXCEPT !.task = @ + 1]
             ELSE [chunk |-> at.chunk + 1, task |-> 0]

\* Chunk k is added, and its tasks to project k - 1, whatever id add_project
\* gave it.  Results are ignored: without the project its tasks are left out.
DeserializeInsert ==
    /\ Running
    /\ ~Idle
    /\ LET chunk == chunks[at.chunk]
           i == at.chunk - 1
       IN \/ at.task = 0 /\ AddWithText(chunk.title)
          \/ at.task > 0 /\ AddTaskWithText(i, chunk.tasks[at.task])
          \/ /\ IF at.task = 0 THEN Exhausted(ids) ELSE i \notin DOMAIN projects
             /\ UNCHANGED <<container, titles, texts>>
    /\ IF Following.chunk <= Len(chunks)
       THEN at' = Following /\ UNCHANGED chunks
       ELSE at' = Start /\ chunks' = <<>>
    /\ UNCHANGED <<file, used>>

FileNext == \/ Edit
            \/ Break
            \/ Serialize
            \/ Restart
            \/ DeserializeRead
            \/ DeserializeUndefined
            \/ DeserializeInsert

FileSpec == FileInit /\ [][FileNext]_fileVars

-----------------------------------------------------------------------------
(* Properties *)

AnyText == Texts \cup {Blank, Noise} \cup {Torn(text) : text \in Texts}
Chunk == [title : AnyText, tasks : Seq(AnyText)]

\* Every variable stays in its type, texts belong to what is in memory, and
\* the file begins with a header.
FileTypeOK ==
    /\ TypeOK
    /\ titles \in [DOMAIN projects -> AnyText]
    /\ DOMAIN texts = DOMAIN projects
    /\ \A i \in DOMAIN projects : texts[i] \in [projects[i].tasks -> AnyText]
    /\ Cardinality(file) <= 1
    /\ \A cells \in file \ {<<>>} : cells[1] \in Header
    /\ chunks \in Seq(Chunk)
    /\ IF Idle THEN at = Start
       ELSE /\ at.chunk \in DOMAIN chunks
            /\ at.task \in 0..Len(chunks[at.chunk].tasks)
    /\ used \subseteq Texts

\* Below the limit of chunks, what serialize writes reads back as it was,
\* whatever holes removals left in the ids (selfma_api.cpp:71-109, 118-174).
RoundTrip ==
    Len(Chunks) < ChunkLimit => ReadChunks(CellsOf(Chunks)) = Chunks

\* What module SavedBook sees of this one: a load counts as done when it begins,
\* and what failed insertions lost of it as lost when it ends.
Memory == IF Idle THEN Chunks ELSE chunks
Readable == {ReadChunks(cells) : cells \in file \ {<<>>}}

Saved == INSTANCE SavedBook WITH book <- Memory, saved <- Readable,
                                 Lossy <- AllocFails

\* A crash or a full disk that stops serialize at any byte leaves a file that
\* reads, though nothing checks what was read, as the same chunks at the same
\* places: whole up to one text, of which there may be a beginning, and blank
\* behind it; or as blank chunks, some with fewer tasks, when not all sizes are
\* there (selfma_api.cpp:68, 105, 137-148).
PrefixReadsInPlace ==
    Len(Chunks) < ChunkLimit =>
       \A cells \in Cuts(CellsOf(Chunks)) \ {<<>>} :
          Saved!CutOf(ReadChunks(cells), Chunks)

\* While a file is loaded every project has the text of its own chunk and no
\* task of another one, even when insertions fail (selfma_api.cpp:165, 172
\* pass the number of the chunk, not the id the project was given).
TasksUnderTheirProject ==
    [][\A cells \in file :
          ~Idle =>
             \A i \in DOMAIN projects' :
                LET chunk == ReadChunks(cells)[i + 1]
                IN /\ titles'[i] = chunk.title
                   /\ \A t \in DOMAIN texts'[i] :
                         \E j \in DOMAIN chunk.tasks :
                            texts'[i][t] = chunk.tasks[j]]_fileVars

\* When no allocation fails, a load ends with exactly the chunks of the file
\* in memory, in the same order.
LoadRebuilds ==
    [][\A cells \in file :
          ~Idle /\ Idle' /\ projects' # << >>
             => Chunks' = ReadChunks(cells)]_fileVars

\* When no allocation fails, projects_to_vec shows after a load every project
\* there is, whatever holes the removals before it left in the ids: the new
\* container numbers them from 0 without a hole (selfma.cpp:73-78).
LoadedAreListed ==
    [][~Idle /\ Idle' /\ projects' # << >>
          => ProjectsToVec' = DOMAIN projects']_fileVars

\* Memory and file are a SavedBook: whatever was removed before, cut off in the
\* file or numbered anew by a load, a load gives what the last save had in
\* memory up to the byte where it stopped and blanks behind, and every other
\* call changes one chunk only.
\* Where allocations fail, a load gives part of that, in its order and each
\* task in its chunk, and a call may lose the tasks of its chunk or, when it
\* adds a project, the whole book (selfma_api.cpp:71-174).
ImplementsSavedBook == Saved!BookSpec

-----------------------------------------------------------------------------
(* What the documentation says and the code does not do *)

\* selfma_file.h:68: num_of_chunks is the number of main tree nodes.
CountIsNodes ==
    [][\A cells \in file' \ {<<>>} :
          file' # file => cells[1].count = Cardinality(DOMAIN projects)]_fileVars
=============================================================================
