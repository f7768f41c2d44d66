----------------------------- MODULE SavedBook -----------------------------
(***************************************************************************)
(* What serialize and deserialize promise to who uses the C API: a book of *)
(* chunks, each a project with its tasks, and what the file gives when it  *)
(* is loaded.  There are no ids, trees, counters or cells.  A load is one  *)
(* step, or two when allocations may fail: all that the file gives, and    *)
(* what is left of it.                                                     *)
(***************************************************************************)
EXTENDS Naturals, SequencesExt

CONSTANTS
    Texts,        \* names and descriptions
    Blank,        \* a text that was not written
    Torn(_),      \* what is left of a text that was not written to its end
    ChunkLimit,   \* books as long as this do not fit into a file
    Lossy         \* whether a load may lose something, as an allocation may fail

VARIABLES
    book,    \* the chunks in memory
    saved    \* {} when there is nothing to load, or the book that a load
             \* gives, in a set of one

bookVars == <<book, saved>>

BookInit == book = <<>> /\ saved = {}

\* Its place among the others is not promised: an id may be used again.
BeginChunk ==
    \E k \in DOMAIN book' :
       /\ book'[k].title \in Texts
       /\ book'[k].tasks = <<>>
       /\ book = RemoveAt(book', k)

EndChunk == \E k \in DOMAIN book : book' = RemoveAt(book, k)

\* Nor is that of a task, which may also be lost.
BeginTask ==
    \E k \in DOMAIN book :
       \E j \in DOMAIN book'[k].tasks :
          /\ book'[k].tasks[j] \in Texts
          /\ book = [book' EXCEPT ![k].tasks = RemoveAt(@, j)]

\* tasks that are left of others, in their order
LeftOf(tasks, others) ==
    \E place \in [DOMAIN tasks -> DOMAIN others] :
       /\ \A i, j \in DOMAIN tasks : i < j => place[i] < place[j]
       /\ \A j \in DOMAIN tasks : tasks[j] = others[place[j]]

\* The removal of one task may take others along, and an insertion that fails
\* all of them, of the same chunk only.
EndTasks ==
    \E k \in DOMAIN book :
       /\ LeftOf(book'[k].tasks, book[k].tasks)
       /\ book' = [book EXCEPT ![k].tasks = book'[k].tasks]

Edit == /\ UNCHANGED saved
        /\ \/ Len(book') > Len(book) /\ BeginChunk
           \/ Len(book') < Len(book) /\ EndChunk
           \/ Len(book') = Len(book) /\ (BeginTask \/ EndTasks)

BlankChunk(chunk) == /\ chunk.title = Blank
                     /\ \A j \in DOMAIN chunk.tasks : chunk.tasks[j] = Blank

\* A chunk of a file that was not written to its end: up to some text it is as
\* it was, that text may be torn, and all behind it is blank.
CutChunk(read, written) ==
    LET remains(text) == {text, Torn(text), Blank}
    IN /\ read.title \in remains(written.title)
       /\ Len(read.tasks) <= Len(written.tasks)
       /\ \A j \in DOMAIN read.tasks :
             /\ read.tasks[j] \in remains(written.tasks[j])
             /\ \/ read.tasks[j] = Blank
                \/ /\ read.title = written.title
                   /\ \A i \in 1..j - 1 : read.tasks[i] = written.tasks[i]

\* What such a file gives.  Behind a chunk that is not whole all are blank; and
\* where tasks are missing, nothing but their number was written.
CutOf(read, written) ==
    /\ Len(read) = Len(written)
    /\ \A k \in DOMAIN read :
          /\ CutChunk(read[k], written[k])
          /\ read[k] # written[k] =>
                \A l \in k + 1..Len(read) : BlankChunk(read[l])
          /\ Len(read[k].tasks) < Len(written[k].tasks) =>
                \A l \in DOMAIN read : BlankChunk(read[l])

\* Nothing tells whether all was written.  What was saved before is lost.
Save == /\ UNCHANGED book
        /\ \/ saved' = {}
           \/ \E read \in saved' :
                 /\ saved' = {read}
                 /\ Len(book) < ChunkLimit => CutOf(read, book)

\* chunks that are left of others, in their order, each with tasks that are
\* left of its own
PartOf(part, whole) ==
    \E place \in [DOMAIN part -> DOMAIN whole] :
       /\ \A i, k \in DOMAIN part : i < k => place[i] < place[k]
       /\ \A k \in DOMAIN part :
             /\ part[k].title = whole[place[k]].title
             /\ LeftOf(part[k].tasks, whole[place[k]].tasks)

\* A load replaces the book, and may be done again.  It may lose chunks and
\* tasks, but neither moves nor mixes them.
Load == /\ \/ book' \in saved
           \/ Lossy /\ \E read \in saved : PartOf(book', read)
        /\ UNCHANGED saved

\* The process ends, or an insertion that fails loses all projects.
Close == book' = <<>> /\ UNCHANGED saved

BookNext == Save \/ Load \/ Close \/ Edit

BookSpec == BookInit /\ [][BookNext]_bookVars
=============================================================================
