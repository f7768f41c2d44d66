------------------------- MODULE SelfmaFile_proofs --------------------------
(***************************************************************************)
(* Theorems about the container behind the C API, which is also saved,     *)
(* loaded and started anew in another process: for every number of         *)
(* projects and tasks, any texts and any count that fits in a header.      *)
(***************************************************************************)
EXTENDS SelfmaFile_format_proofs, Container_proofs

-----------------------------------------------------------------------------
(* The container of the API *)

\* The invariant speaks of what is in memory, not of how the process fares.
LEMMA StatusInv ==
    ASSUME IInv, UNCHANGED <<projects, elements, ids>>,
           status' \in {"running", "halted", "undefined"}
    PROVE  IInv'
BY DEF IInv, TypeOK, ProjectIdsSound, CounterWithinIds, CountersCover

\* A new process has an empty container.
LEMMA RestartInv == ASSUME Restart PROVE IInv'
<1>1. /\ projects' = << >> /\ elements' = 0 /\ ids' = InitIDs(MaxProjects)
      /\ status' = "running"
  BY DEF Restart, Fresh
<1>2. /\ DOMAIN projects' = {}
      /\ projects' \in [DOMAIN projects' -> Projects]
      /\ ids' \in IDPools(MaxProjects)
      /\ PoolSound(ids', DOMAIN projects')
      /\ elements' + Len(ids'.stack) <= ids'.next
      /\ Cardinality(DOMAIN projects') <= elements'
  BY <1>1, FreshInv
<1> QED
  BY <1>1, <1>2 DEF IInv, TypeOK, ProjectIdsSound, CounterWithinIds,
                    CountersCover

\* What an edit, a fault or a load does to the container is an operation of it,
\* or stops, or is a new process.
LEMMA FileStepInv == IInv /\ [FileNext]_fileVars => IInv'
<1> SUFFICES ASSUME IInv, [FileNext]_fileVars PROVE IInv'
  OBVIOUS
<1>1. ASSUME [Next]_vars PROVE IInv'
  BY <1>1, NextInv
<1>2. ASSUME UNCHANGED container PROVE [Next]_vars
  BY <1>2 DEF container, vars
<1>3. CASE Edit
  <2>1. Next
    BY <1>3 DEF Edit, AddWithText, AddTaskWithText, Next
  <2> QED
    BY <1>1, <2>1
<1>4. CASE Break
  <2>1. Next
    BY <1>4 DEF Break, Next
  <2> QED
    BY <1>1, <2>1
<1>5. CASE Serialize
  BY <1>1, <1>2, <1>5 DEF Serialize
<1>6. CASE Restart
  BY <1>6, RestartInv
<1>7. CASE DeserializeRead
  <2>1. Next
    BY <1>7 DEF DeserializeRead, Next
  <2> QED
    BY <1>1, <2>1
<1>8. CASE DeserializeUndefined
  BY <1>8, StatusInv DEF DeserializeUndefined, RecreateUndefined, Stop
<1>9. CASE DeserializeInsert
  <2>1. \A i : AddTask(i) => i \in ProjectIds
    BY DEF AddTask, IInv, TypeOK
  <2>2. [Next]_vars
    BY <1>2, <1>9, <2>1 DEF DeserializeInsert, AddWithText, AddTaskWithText,
       Next
  <2> QED
    BY <1>1, <2>2
<1>10. CASE UNCHANGED fileVars
  BY <1>1, <1>2, <1>10 DEF fileVars
<1> QED
  BY <1>3, <1>4, <1>5, <1>6, <1>7, <1>8, <1>9, <1>10 DEF FileNext

\* The container's invariant holds of the API, however often it is loaded from
\* whatever a failed save left, and started anew.
THEOREM FileInvariance == FileSpec => []IInv
<1>1. FileInit => IInv
  BY InitInv DEF FileInit
<1> QED
  BY <1>1, FileStepInv, PTL DEF FileSpec

\* No load and no restart makes add_project hand out an id that is in use
\* (selfma_api.cpp:165 inserts through the same pool).
THEOREM FileKeepsProjectIdsSound == FileSpec => []ProjectIdsSound
<1>1. IInv => ProjectIdsSound
  BY DEF IInv
<1> QED
  BY <1>1, FileInvariance, PTL

-----------------------------------------------------------------------------
(* A load numbers the projects from 0 *)

\* While a load has insertions to make, its projects are numbered as they came:
\* nothing was released in the new container, and no insertion failed.
Numbered == ~Idle => /\ ids.stack = <<>>
                     /\ DOMAIN projects = 0..ids.next - 1

\* Without failed insertions an addition takes the next id.
LEMMA AddNumbers ==
    ASSUME ~AllocFails, IInv, AddProject,
           ids.stack = <<>>, DOMAIN projects = 0..ids.next - 1
    PROVE  ids'.stack = <<>> /\ DOMAIN projects' = 0..ids'.next - 1
<1>1. ids.next \in Nat
  BY MaxProjectsAssumption DEF IInv, TypeOK, IDPools
<1>2. ids' = [ids EXCEPT !.next = ids.next + 1] /\ NextID(ids) = ids.next
  BY DEF AddProject, AfterNext, NextID
<1>3. ids'.stack = <<>> /\ ids'.next = ids.next + 1
  BY <1>2 DEF IInv, TypeOK, IDPools
<1>4. DOMAIN projects' = DOMAIN projects \cup {ids.next}
  BY <1>2 DEF AddProject, InsertOutcomes
<1>5. 0..ids.next = (0..ids.next - 1) \cup {ids.next}
  BY <1>1
<1> QED
  BY <1>1, <1>3, <1>4, <1>5

\* One insertion of a load.
LEMMA InsertNumbers ==
    ASSUME ~AllocFails, IInv, Numbered, DeserializeInsert
    PROVE  ids'.stack = <<>> /\ DOMAIN projects' = 0..ids'.next - 1
<1>1. ids.stack = <<>> /\ DOMAIN projects = 0..ids.next - 1
  BY DEF Numbered, DeserializeInsert
<1>2. CASE AddProject
  BY <1>1, <1>2, AddNumbers
<1>3. ASSUME NEW i, AddTask(i)
      PROVE  ids' = ids /\ DOMAIN projects' = DOMAIN projects
  BY <1>3 DEF AddTask
<1>4. CASE UNCHANGED container
  BY <1>1, <1>4 DEF container
<1> QED
  BY <1>1, <1>2, <1>3, <1>4 DEF DeserializeInsert, AddWithText, AddTaskWithText

\* Every step keeps the numbering of a load.
LEMMA NumberedStep ==
    ASSUME ~AllocFails PROVE IInv /\ Numbered /\ [FileNext]_fileVars => Numbered'
<1> SUFFICES ASSUME IInv, Numbered, [FileNext]_fileVars PROVE Numbered'
  OBVIOUS
<1>1. CASE Idle'
  BY <1>1 DEF Numbered
<1>2. ASSUME UNCHANGED <<projects, ids, chunks>> PROVE Numbered'
  BY <1>2 DEF Numbered, Idle
<1>3. CASE Edit \/ Restart
  BY <1>1, <1>3 DEF Edit, Idle, Restart, loading
<1>4. CASE Break
  BY <1>2, <1>4 DEF Break, AddProjectHalts, UseStaleRoot, AddTaskHalts,
     RemoveProjectUndefined, Stop, loading
<1>5. CASE Serialize \/ DeserializeUndefined
  BY <1>2, <1>5 DEF Serialize, DeserializeUndefined, RecreateUndefined, Stop,
     container, loading
<1>6. CASE DeserializeRead
  <2>1. projects' = << >> /\ ids' = InitIDs(MaxProjects)
    BY <1>6 DEF DeserializeRead, Recreate, Fresh
  <2>2. DOMAIN projects' = {} /\ ids'.stack = <<>> /\ ids'.next = 0
    BY <2>1 DEF InitIDs
  <2>3. 0..0 - 1 = {}
    OBVIOUS
  <2> QED
    BY <2>2, <2>3 DEF Numbered
<1>7. CASE DeserializeInsert
  BY <1>7, InsertNumbers DEF Numbered
<1>8. CASE UNCHANGED fileVars
  BY <1>2, <1>8 DEF fileVars, container, loading
<1> QED
  BY <1>3, <1>4, <1>5, <1>6, <1>7, <1>8 DEF FileNext

\* When no allocation fails the facade lists every project after a load: asking
\* for ids from 0 up to the first hole meets all of them (selfma.cpp:73-78).
THEOREM LoadIsListed == ASSUME ~AllocFails PROVE FileSpec => LoadedAreListed
<1>1. FileInit => Numbered
  BY DEF FileInit, Numbered, Idle
<1>2. ASSUME IInv, Numbered, [FileNext]_fileVars
      PROVE  [~Idle /\ Idle' /\ projects' # << >>
                => ProjectsToVec' = DOMAIN projects']_fileVars
  <2> SUFFICES ASSUME FileNext, ~Idle, Idle', projects' # << >>
               PROVE  ProjectsToVec' = DOMAIN projects'
    BY <1>2
  <2>1. DeserializeInsert
    BY DEF FileNext, Edit, Break, Serialize, Restart, Fresh, DeserializeRead,
       DeserializeUndefined, Idle, loading
  <2>2. DOMAIN projects' = 0..ids'.next - 1
    BY <1>2, <2>1, InsertNumbers
  <2>3. ids'.next \in Nat
    BY <1>2, FileStepInv, MaxProjectsAssumption DEF IInv, TypeOK, IDPools
  <2>4. \A i \in 0..ids'.next - 1 : 0..i \subseteq 0..ids'.next - 1
    BY <2>3
  <2> QED
    BY <2>2, <2>4 DEF ProjectsToVec
<1> QED
  BY <1>1, <1>2, NumberedStep, FileInvariance, PTL DEF FileSpec, LoadedAreListed

-----------------------------------------------------------------------------
(* Memory and file *)

\* What serialize can write: no more chunks than there are project ids, and no
\* more tasks in one than there are task ids.
Books == {w \in Seq(Chunk) : /\ Len(w) <= MaxProjects
                             /\ \A k \in DOMAIN w : Len(w[k].tasks) <= MaxTasks}

LEMMA BooksAreSeqs == \A w \in Books : w \in Seq(Chunk)
BY DEF Books

\* Texts belong to what is in memory.
TextsBelong ==
    /\ titles \in [DOMAIN projects -> AnyText]
    /\ DOMAIN texts = DOMAIN projects
    /\ \A i \in DOMAIN projects : texts[i] \in [projects[i].tasks -> AnyText]

\* There is at most one file, and it is some book, cut somewhere.
FileIsCut == \/ file = {}
             \/ \E cells : /\ file = {cells}
                           /\ \/ cells = <<>>
                              \/ \E w \in Books : cells \in Cuts(CellsOf(w)) \ {<<>>}

\* A load goes through the chunks that the file reads as.
LoadsTheFile ==
    /\ chunks \in Books
    /\ at \in [chunk : Nat, task : Nat]
    /\ IF Idle THEN at = Start
       ELSE /\ at.chunk \in DOMAIN chunks
            /\ at.task \in 0..Len(chunks[at.chunk].tasks)
            /\ \A cells \in file : chunks = ReadChunks(cells)

FInv == /\ IInv
        /\ TextsBelong
        /\ FileIsCut
        /\ LoadsTheFile
        /\ used \subseteq Texts

\* What serialize collects is a book.
LEMMA ChunksType ==
    ASSUME IInv, TextsBelong
    PROVE  Chunks \in Books
<1> DEFINE order == Ascending(ListedProjects)
           taskOrder(i) == Ascending(ListedTasks(projects[i]))
           chunk(i) == [title |-> titles[i],
                        tasks |-> [j \in DOMAIN taskOrder(i) |->
                                      texts[i][taskOrder(i)[j]]]]
<1>1. /\ DOMAIN projects \in SUBSET ProjectIds /\ MaxProjects \in Nat
      /\ MaxTasks \in Nat
      /\ \A i \in DOMAIN projects :
            projects[i].tasks \in SUBSET Garbage /\ projects[i].ids.max = MaxTasks
  BY MaxProjectsAssumption, MaxTasksAssumption
  DEF IInv, TypeOK, Projects, IDPools
<1>2. \A m \in Nat : \A S \in SUBSET (0..m - 1) :
         /\ S \in SUBSET Nat /\ IsFiniteSet(S)
         /\ Cardinality(S) \in Nat /\ Cardinality(S) <= m
  <2> SUFFICES ASSUME NEW m \in Nat, NEW S \in SUBSET (0..m - 1)
               PROVE  /\ S \in SUBSET Nat /\ IsFiniteSet(S)
                      /\ Cardinality(S) \in Nat /\ Cardinality(S) <= m
    OBVIOUS
  <2>1. IsFiniteSet(0..m - 1) /\ Cardinality(0..m - 1) = m
    BY FS_Interval
  <2>2. S \in SUBSET Nat
    OBVIOUS
  <2>3. IsFiniteSet(S) /\ Cardinality(S) <= m
    BY <2>1, FS_Subset
  <2>4. Cardinality(S) \in Nat
    BY <2>3, FS_CardinalityType
  <2> QED
    BY <2>2, <2>3, <2>4
<1>3. PICK n \in Nat : /\ n = Cardinality(ListedProjects) /\ n <= MaxProjects
                       /\ order \in [1..n -> ListedProjects]
  <2>1. ListedProjects \in SUBSET (0..MaxProjects - 1)
    BY <1>1 DEF ListedProjects, ProjectIds
  <2> QED
    BY <1>1, <1>2, <2>1, AscendingType
<1>4. ASSUME NEW i \in DOMAIN projects
      PROVE  chunk(i) \in Chunk /\ Len(chunk(i).tasks) <= MaxTasks
  <2>1. /\ ListedTasks(projects[i]) \in SUBSET (0..MaxTasks - 1)
        /\ ListedTasks(projects[i]) \in SUBSET projects[i].tasks
    BY <1>1 DEF ListedTasks, Garbage
  <2>2. PICK c \in Nat : /\ c <= MaxTasks
                         /\ taskOrder(i) \in [1..c -> ListedTasks(projects[i])]
    BY <1>1, <1>2, <2>1, AscendingType
  <2> HIDE DEF taskOrder
  <2>3. [j \in DOMAIN taskOrder(i) |-> texts[i][taskOrder(i)[j]]]
           \in [1..c -> AnyText]
    BY <2>1, <2>2 DEF TextsBelong
  <2>4. /\ chunk(i).tasks \in Seq(AnyText) /\ Len(chunk(i).tasks) = c
        /\ chunk(i).title \in AnyText
    BY <2>3, SeqOfFunction DEF TextsBelong
  <2> QED
    BY <2>2, <2>4 DEF Chunk
<1> HIDE DEF chunk
<1>5. Chunks = [k \in DOMAIN order |-> chunk(order[k])]
  BY DEF Chunks, chunk
<1> HIDE DEF order
<1>6. \A k \in 1..n : order[k] \in DOMAIN projects
  BY <1>3 DEF ListedProjects
<1>7. Chunks \in [1..n -> Chunk] /\ \A k \in 1..n : Chunks[k] = chunk(order[k])
  BY <1>3, <1>4, <1>5, <1>6
<1>8. Chunks \in Seq(Chunk) /\ Len(Chunks) = n /\ DOMAIN Chunks = 1..n
  BY <1>7, SeqOfFunction
<1> QED
  BY <1>3, <1>4, <1>6, <1>7, <1>8 DEF Books

\* What an addition leaves: the other projects as they were, if at all.
LEMMA AdditionDoes ==
    ASSUME NEW text, AddWithText(text), NEW new, new = NextID(ids)
    PROVE  /\ DOMAIN projects' \in InsertOutcomes(DOMAIN projects, new)
           /\ DOMAIN titles' = DOMAIN projects' /\ DOMAIN texts' = DOMAIN projects'
           /\ new \in DOMAIN projects' => /\ projects'[new] = NewProject
                                          /\ titles'[new] = text
                                          /\ texts'[new] = << >>
           /\ \A i \in DOMAIN projects' :
                 i # new => /\ i \in DOMAIN projects
                            /\ projects'[i] = projects[i]
                            /\ titles'[i] = titles[i] /\ texts'[i] = texts[i]
<1>1. PICK keys \in InsertOutcomes(DOMAIN projects, new) :
         projects' = [i \in keys |-> IF i = new THEN NewProject ELSE projects[i]]
  BY DEF AddWithText, AddProject
<1>2. DOMAIN projects' = keys /\ keys \subseteq DOMAIN projects \cup {new}
  BY <1>1, InsertAdds
<1>3. /\ titles' = [i \in keys |-> IF i = new THEN text ELSE titles[i]]
      /\ texts' = [i \in keys |-> IF i = new THEN << >> ELSE texts[i]]
  BY <1>2 DEF AddWithText
<1> QED
  BY <1>1, <1>2, <1>3

\* What the addition of a task leaves: only the project asked for is another.
LEMMA TaskAdditionDoes ==
    ASSUME IInv, TextsBelong, NEW i, NEW text, AddTaskWithText(i, text)
    PROVE  /\ i \in DOMAIN projects /\ DOMAIN projects' = DOMAIN projects
           /\ ids' = ids /\ titles' = titles /\ DOMAIN texts' = DOMAIN texts
           /\ projects'[i] \in AddResults(projects[i]) /\ projects'[i] \in Projects
           /\ texts'[i] = [t \in projects'[i].tasks |->
                              IF t \in projects[i].tasks THEN texts[i][t] ELSE text]
           /\ \A k \in DOMAIN projects :
                 k # i => projects'[k] = projects[k] /\ texts'[k] = texts[k]
<1>1. i \in DOMAIN projects /\ ids' = ids
  BY DEF AddTaskWithText, AddTask
<1>2. PICK p \in AddResults(projects[i]) : projects' = [projects EXCEPT ![i] = p]
  BY DEF AddTaskWithText, AddTask
<1>3. p \in Projects
  BY <1>1, <1>2, AddResultsType DEF IInv, TypeOK, CountersCover
<1>4. /\ DOMAIN projects' = DOMAIN projects /\ projects'[i] = p
      /\ \A k \in DOMAIN projects : k # i => projects'[k] = projects[k]
  BY <1>1, <1>2 DEF IInv, TypeOK
<1>5. /\ titles' = titles
      /\ texts' = [texts EXCEPT ![i] =
                      [t \in projects'[i].tasks |->
                          IF t \in projects[i].tasks THEN texts[i][t] ELSE text]]
  BY DEF AddTaskWithText
<1>6. i \in DOMAIN texts /\ DOMAIN texts = DOMAIN projects
  BY <1>1 DEF TextsBelong
<1> HIDE DEF TextsBelong
<1>7. /\ DOMAIN texts' = DOMAIN texts
      /\ texts'[i] = [t \in projects'[i].tasks |->
                         IF t \in projects[i].tasks THEN texts[i][t] ELSE text]
      /\ \A k \in DOMAIN projects : k # i => texts'[k] = texts[k]
  BY <1>5, <1>6
<1> QED
  BY <1>1, <1>2, <1>3, <1>4, <1>5, <1>7

\* Texts stay with what they belong to when a project is added ...
LEMMA AdditionKeepsTexts ==
    ASSUME IInv, TextsBelong, NEW text \in AnyText, AddWithText(text)
    PROVE  TextsBelong'
<1> DEFINE new == NextID(ids)
<1>1. /\ DOMAIN titles' = DOMAIN projects' /\ DOMAIN texts' = DOMAIN projects'
      /\ new \in DOMAIN projects' => /\ projects'[new] = NewProject
                                     /\ titles'[new] = text
                                     /\ texts'[new] = << >>
      /\ \A i \in DOMAIN projects' :
            i # new => /\ i \in DOMAIN projects
                       /\ projects'[i] = projects[i]
                       /\ titles'[i] = titles[i] /\ texts'[i] = texts[i]
  BY AdditionDoes
<1> HIDE DEF new
<1>2. titles' \in [DOMAIN projects' -> AnyText]
  <2>1. titles' = [i \in DOMAIN projects' |-> titles'[i]]
    <3>1. \E f : titles' = [i \in DOMAIN projects' |-> f[i]]
      BY DEF AddWithText
    <3> QED
      BY <3>1
  <2>2. \A i \in DOMAIN projects' : titles'[i] \in AnyText
    BY <1>1 DEF TextsBelong
  <2> QED
    BY <2>1, <2>2
<1>3. \A i \in DOMAIN projects' : texts'[i] \in [projects'[i].tasks -> AnyText]
  <2>1. << >> \in [{} -> AnyText] /\ NewProject.tasks = {}
    BY DEF NewProject
  <2> QED
    BY <1>1, <2>1 DEF TextsBelong
<1> QED
  BY <1>1, <1>2, <1>3 DEF TextsBelong

\* ... or a task ...
LEMMA TaskAdditionKeepsTexts ==
    ASSUME IInv, TextsBelong, NEW i, NEW text \in AnyText, AddTaskWithText(i, text)
    PROVE  TextsBelong'
<1>1. /\ i \in DOMAIN projects /\ DOMAIN projects' = DOMAIN projects
      /\ titles' = titles /\ DOMAIN texts' = DOMAIN texts
      /\ texts'[i] = [t \in projects'[i].tasks |->
                         IF t \in projects[i].tasks THEN texts[i][t] ELSE text]
      /\ \A k \in DOMAIN projects :
            k # i => projects'[k] = projects[k] /\ texts'[k] = texts[k]
  BY TaskAdditionDoes
<1>2. /\ titles \in [DOMAIN projects -> AnyText] /\ DOMAIN texts = DOMAIN projects
      /\ \A k \in DOMAIN projects : texts[k] \in [projects[k].tasks -> AnyText]
  BY DEF TextsBelong
<1>3. texts'[i] \in [projects'[i].tasks -> AnyText]
  BY <1>1, <1>2
<1>4. \A k \in DOMAIN projects' : texts'[k] \in [projects'[k].tasks -> AnyText]
  BY <1>1, <1>2, <1>3
<1> QED
  BY <1>1, <1>2, <1>4 DEF TextsBelong

\* A removed task takes at most others with it.
LEMMA RemoveResultsShrink ==
    ASSUME NEW p \in Projects, NEW t, NEW q \in RemoveResults(p, t)
    PROVE  q.tasks \subseteq p.tasks
<1>1. CASE p.count = 0
  BY <1>1 DEF RemoveResults
<1>2. CASE p.count # 0
  <2>1. PICK s \in StaleRootOutcomes(p.tasks, t) : q.tasks = s.tasks
    BY <1>2 DEF RemoveResults
  <2> QED
    BY <2>1 DEF StaleRootOutcomes
<1> QED
  BY <1>1, <1>2

\* ... or something is removed.
LEMMA RemovalKeepsTexts ==
    ASSUME IInv, TextsBelong, KeepTexts, NEW i,
           RemoveProject(i) \/ \E t \in Garbage : RemoveTask(i, t)
    PROVE  TextsBelong'
<1>1. /\ DOMAIN projects' \subseteq DOMAIN projects
      /\ \A k \in DOMAIN projects' : projects'[k].tasks \subseteq projects[k].tasks
  <2>1. CASE RemoveProject(i)
    BY <2>1 DEF RemoveProject
  <2>2. ASSUME NEW t \in Garbage, RemoveTask(i, t)
        PROVE  /\ DOMAIN projects' = DOMAIN projects
               /\ \A k \in DOMAIN projects' :
                     projects'[k].tasks \subseteq projects[k].tasks
    <3>1. PICK p \in RemoveResults(projects[i], t) :
             projects' = [projects EXCEPT ![i] = p]
      BY <2>2 DEF RemoveTask
    <3>2. p.tasks \subseteq projects[i].tasks
      BY <2>2, <3>1, RemoveResultsShrink DEF RemoveTask, IInv, TypeOK
    <3> QED
      BY <3>1, <3>2 DEF IInv, TypeOK
  <2> QED
    BY <2>1, <2>2
<1>2. /\ titles' = [k \in DOMAIN projects' |-> titles[k]]
      /\ texts' = [k \in DOMAIN projects' |->
                      [t \in projects'[k].tasks |-> texts[k][t]]]
  BY DEF KeepTexts
<1>3. titles' \in [DOMAIN projects' -> AnyText]
  BY <1>1, <1>2 DEF TextsBelong
<1>4. ASSUME NEW k \in DOMAIN projects'
      PROVE  texts'[k] \in [projects'[k].tasks -> AnyText]
  <2>1. texts[k] \in [projects[k].tasks -> AnyText]
    BY <1>1 DEF TextsBelong
  <2> QED
    BY <1>1, <1>2, <2>1
<1> QED
  BY <1>2, <1>3, <1>4 DEF TextsBelong

\* A file that was cut reads as a book.
LEMMA CutReadsAsBook ==
    ASSUME NEW w \in Books, NEW cells \in Cuts(CellsOf(w)) \ {<<>>}
    PROVE  /\ cells[1] \in Header
           /\ ReadChunks(cells) \in Books
<1> DEFINE m == Len(w)
           count == m % ChunkLimit
           C == CellsOf(w)
           read == ReadChunks(cells)
<1>1. /\ w \in Seq(Chunk) /\ m \in Nat /\ m <= MaxProjects
      /\ \A k \in 1..m : Len(w[k].tasks) <= MaxTasks
      /\ MaxProjects \in Nat /\ MaxTasks \in Nat
  BY MaxProjectsAssumption, MaxTasksAssumption DEF Books
<1>2. PICK n \in 1..Len(C) : CutFile(cells, w, n)
  BY <1>1, CutCells
<1>3. count \in 0..m /\ count \in 0..ChunkLimit - 1
  BY <1>1, CountFits
<1>4. cells[1] \in Header
  <2>1. cells[1] = [count |-> count]
    BY <1>2 DEF CutFile
  <2> QED
    BY <1>3, <2>1 DEF Header
<1>5. PICK mm : mm = m
  OBVIOUS
<1>6. PICK CC : CC = C
  OBVIOUS
<1>7. PICK cc : cc = mm % ChunkLimit
  OBVIOUS
<1>8. PICK rr : rr = read
  OBVIOUS
<1>9. /\ mm = Len(w) /\ CC = CellsOf(w) /\ n \in 1..Len(CC)
      /\ rr = ReadChunks(cells) /\ cc \in 0..mm
  BY <1>3, <1>5, <1>6, <1>7, <1>8
<1>10. /\ rr \in Seq(Chunk) /\ Len(rr) = cc
       /\ \A k \in 1..cc : /\ Len(rr[k].tasks) = SizeAt(cells, k)
                           /\ SizeAt(cells, k) \in 0..Len(w[k].tasks)
  BY <1>1, <1>2, <1>7, <1>9, ReadType
<1> HIDE DEF C, m, count, read
<1>11. ASSUME NEW k \in 1..cc PROVE Len(rr[k].tasks) <= MaxTasks
  <2>1. k \in 1..mm /\ mm = m
    BY <1>1, <1>5, <1>9
  <2>2. PICK c : c = Len(w[k].tasks) /\ c <= MaxTasks /\ Len(rr[k].tasks) \in 0..c
    BY <1>1, <1>10, <2>1
  <2>3. c \in Nat
    <3>1. DOMAIN w = 1..mm
      BY <1>9
    <3>2. w[k] \in Chunk
      BY <1>1, <2>1, <3>1
    <3> QED
      BY <2>2, <3>2, ChunkParts
  <2> QED
    BY <1>1, <2>2, <2>3
<1>12. rr \in Books
  <2>1. DOMAIN rr = 1..cc /\ cc <= MaxProjects
    BY <1>1, <1>5, <1>9, <1>10
  <2> QED
    BY <1>10, <1>11, <2>1 DEF Books
<1> QED
  BY <1>4, <1>8, <1>12 DEF read

\* The place behind an insertion.
LEMMA FollowingPlace ==
    ASSUME NEW c \in DOMAIN chunks, chunks \in Seq(Chunk),
           at = [chunk |-> c, task |-> at.task],
           at.task \in 0..Len(chunks[c].tasks)
    PROVE  /\ c \in Nat /\ Len(chunks[c].tasks) \in Nat
           /\ Following \in [chunk : Nat, task : Nat]
           /\ \/ /\ Following = [chunk |-> c, task |-> at.task + 1]
                 /\ at.task < Len(chunks[c].tasks)
              \/ /\ Following = [chunk |-> c + 1, task |-> 0]
                 /\ at.task = Len(chunks[c].tasks)
<1>1. chunks[c] \in Chunk /\ c \in Nat
  OBVIOUS
<1>2. PICK l \in Nat : l = Len(chunks[c].tasks)
  BY <1>1, ChunkParts
<1>3. PICK j \in Nat : j = at.task /\ j <= l
  BY <1>2
<1>4. at = [chunk |-> c, task |-> j]
  BY <1>3
<1>5. Following = IF j < l THEN [chunk |-> c, task |-> j + 1]
                  ELSE [chunk |-> c + 1, task |-> 0]
  BY <1>2, <1>4 DEF Following
<1> QED
  BY <1>1, <1>2, <1>3, <1>5

\* The invariant holds at the beginning ...
LEMMA FInvInit == FileInit => FInv
<1> SUFFICES ASSUME FileInit PROVE FInv
  OBVIOUS
<1>1. IInv
  BY InitInv DEF FileInit
<1>2. TextsBelong
  BY DEF FileInit, Init, TextsBelong
<1>3. LoadsTheFile
  <2>1. << >> \in Seq(Chunk) /\ Len(<< >>) = 0 /\ DOMAIN << >> = {}
    OBVIOUS
  <2>2. << >> \in Books
    BY <2>1, MaxProjectsAssumption DEF Books
  <2>3. Start \in [chunk : Nat, task : Nat]
    BY DEF Start
  <2> QED
    BY <2>2, <2>3 DEF FileInit, LoadsTheFile, Idle
<1> QED
  BY <1>1, <1>2, <1>3 DEF FileInit, FInv, FileIsCut

\* ... an edit, a save, a step that ends the process and a new process keep it ...
LEMMA EmptyBelongs == ASSUME projects' = << >>, titles' = << >>, texts' = << >>
                      PROVE  TextsBelong'
BY DEF TextsBelong

LEMMA SameLoad ==
    ASSUME LoadsTheFile, UNCHANGED loading, Idle \/ UNCHANGED file
    PROVE  LoadsTheFile'
BY DEF LoadsTheFile, loading, Idle

LEMMA IdleLoads ==
    ASSUME chunks' = <<>>, at' = Start
    PROVE  LoadsTheFile'
<1>1. << >> \in Seq(Chunk) /\ Len(<< >>) = 0 /\ DOMAIN << >> = {}
  OBVIOUS
<1>2. << >> \in Books
  BY <1>1, MaxProjectsAssumption DEF Books
<1>3. Start \in [chunk : Nat, task : Nat]
  BY DEF Start
<1> QED
  BY <1>2, <1>3 DEF LoadsTheFile, Idle

LEMMA EditKeeps == ASSUME FInv, Edit PROVE TextsBelong' /\ used' \subseteq Texts
<1>1. IInv /\ TextsBelong /\ used \subseteq Texts
  BY DEF FInv
<1>2. ASSUME NEW text \in Texts \ used,
             AddWithText(text) \/ \E i \in ProjectIds : AddTaskWithText(i, text),
             used' = used \cup {text}
      PROVE  TextsBelong' /\ used' \subseteq Texts
  <2>1. text \in AnyText
    BY DEF AnyText
  <2> QED
    BY <1>1, <1>2, <2>1, AdditionKeepsTexts, TaskAdditionKeepsTexts
<1>3. ASSUME NEW i \in ProjectIds,
             RemoveProject(i) \/ \E t \in Garbage : RemoveTask(i, t),
             KeepTexts, UNCHANGED used
      PROVE  TextsBelong' /\ used' \subseteq Texts
  BY <1>1, <1>3, RemovalKeepsTexts
<1> QED
  BY <1>2, <1>3 DEF Edit

LEMMA SerializeKeeps == ASSUME FInv, Serialize PROVE FileIsCut'
<1>1. Chunks \in Books
  BY ChunksType DEF FInv
<1>2. PICK w \in Books : w = Chunks
  BY <1>1
<1>3. PICK cells \in Cuts(CellsOf(w)) : file' = {cells}
  BY <1>2 DEF Serialize
<1> QED
  BY <1>3 DEF FileIsCut

\* ... and so do the two parts of a load.
LEMMA ReadKeeps == ASSUME FInv, DeserializeRead PROVE LoadsTheFile'
<1>1. PICK cells \in file \ {<<>>} : chunks' = ReadChunks(cells)
  BY DEF DeserializeRead
<1>2. file' = file /\ file = {cells} /\ at' = Start
  BY <1>1 DEF DeserializeRead, FInv, FileIsCut
<1>3. PICK w \in Books : cells \in Cuts(CellsOf(w)) \ {<<>>}
  BY <1>1, <1>2 DEF FInv, FileIsCut
<1>4. chunks' \in Books
  BY <1>1, <1>3, CutReadsAsBook
<1>5. CASE chunks' = <<>>
  BY <1>2, <1>5, IdleLoads
<1>6. CASE chunks' # <<>>
  <2>1. /\ at' \in [chunk : Nat, task : Nat] /\ at'.chunk = 1 /\ at'.task = 0
    BY <1>2 DEF Start
  <2>2. 1 \in DOMAIN chunks' /\ chunks'[1] \in Chunk
    BY <1>4, <1>6 DEF Books
  <2>3. Len(chunks'[1].tasks) \in Nat
    BY <2>2, ChunkParts
  <2>4. at'.task \in 0..Len(chunks'[at'.chunk].tasks)
    BY <2>1, <2>3
  <2>5. \A c \in file' : chunks' = ReadChunks(c)
    BY <1>1, <1>2
  <2> QED
    BY <1>4, <1>6, <2>1, <2>2, <2>4, <2>5 DEF LoadsTheFile, Idle
<1> QED
  BY <1>5, <1>6

LEMMA InsertKeeps ==
    ASSUME FInv, DeserializeInsert PROVE LoadsTheFile' /\ TextsBelong'
<1>1. /\ IInv /\ TextsBelong /\ ~Idle /\ chunks \in Books /\ chunks \in Seq(Chunk)
      /\ at \in [chunk : Nat, task : Nat]
      /\ at.chunk \in DOMAIN chunks
      /\ at.task \in 0..Len(chunks[at.chunk].tasks)
      /\ \A cells \in file : chunks = ReadChunks(cells)
      /\ file' = file
  BY DEF FInv, LoadsTheFile, DeserializeInsert, Books
<1> DEFINE c == at.chunk
<1>2. /\ at = [chunk |-> c, task |-> at.task]
  BY <1>1
<1>3. LoadsTheFile'
  <2>1. CASE Following.chunk <= Len(chunks)
    <3>1. at' = Following /\ chunks' = chunks
      BY <2>1 DEF DeserializeInsert
    <3> HIDE DEF c
    <3>2. /\ c \in Nat /\ Len(chunks[c].tasks) \in Nat
          /\ Following \in [chunk : Nat, task : Nat]
          /\ \/ /\ Following = [chunk |-> c, task |-> at.task + 1]
                /\ at.task < Len(chunks[c].tasks)
             \/ /\ Following = [chunk |-> c + 1, task |-> 0]
                /\ at.task = Len(chunks[c].tasks)
      BY <1>1, <1>2, FollowingPlace DEF c
    <3>3. /\ Following.chunk \in DOMAIN chunks
          /\ Following.task \in 0..Len(chunks[Following.chunk].tasks)
      <4>1. CASE /\ Following = [chunk |-> c, task |-> at.task + 1]
                 /\ at.task < Len(chunks[c].tasks)
        BY <1>1, <3>2, <4>1 DEF c
      <4>2. CASE Following = [chunk |-> c + 1, task |-> 0]
        <5>1. c + 1 \in DOMAIN chunks
          BY <1>1, <2>1, <3>2, <4>2
        <5>2. Len(chunks[c + 1].tasks) \in Nat
          BY <1>1, <5>1, ChunkParts
        <5> QED
          BY <4>2, <5>1, <5>2
      <4> QED
        BY <3>2, <4>1, <4>2
    <3> QED
      BY <1>1, <3>1, <3>2, <3>3 DEF LoadsTheFile, Idle
  <2>2. CASE ~(Following.chunk <= Len(chunks))
    <3>1. at' = Start /\ chunks' = <<>>
      BY <2>2 DEF DeserializeInsert
    <3> QED
      BY <3>1, IdleLoads
  <2> QED
    BY <2>1, <2>2
<1>4. TextsBelong'
  <2>1. chunks[c] \in Chunk
    BY <1>1
  <2>2. CASE at.task = 0 /\ AddWithText(chunks[c].title)
    BY <1>1, <2>1, <2>2, ChunkParts, AdditionKeepsTexts
  <2>3. CASE at.task > 0 /\ AddTaskWithText(c - 1, chunks[c].tasks[at.task])
    <3>1. chunks[c].tasks[at.task] \in AnyText
      <4>1. at.task \in 1..Len(chunks[c].tasks)
        BY <1>1, <2>3
      <4> QED
        BY <2>1, <4>1, ChunkParts
    <3> QED
      BY <1>1, <2>3, <3>1, TaskAdditionKeepsTexts
  <2>4. CASE UNCHANGED <<container, titles, texts>>
    BY <1>1, <2>4 DEF TextsBelong, container
  <2> QED
    BY <2>2, <2>3, <2>4 DEF DeserializeInsert
<1> QED
  BY <1>3, <1>4

LEMMA FInvStep == FInv /\ [FileNext]_fileVars => FInv'
<1> SUFFICES ASSUME FInv, [FileNext]_fileVars PROVE FInv'
  OBVIOUS
<1>1. /\ IInv' /\ TextsBelong /\ FileIsCut /\ LoadsTheFile /\ used \subseteq Texts
  BY FileStepInv DEF FInv
<1>2. ASSUME UNCHANGED <<projects, titles, texts>> PROVE TextsBelong'
  BY <1>1, <1>2 DEF TextsBelong
<1>3. ASSUME UNCHANGED file PROVE FileIsCut'
  BY <1>1, <1>3 DEF FileIsCut
<1>4. CASE Edit
  BY <1>1, <1>3, <1>4, EditKeeps, SameLoad DEF Edit, FInv
<1>5. CASE Break
  BY <1>1, <1>2, <1>3, <1>5, SameLoad DEF Break, FInv, AddProjectHalts,
     UseStaleRoot, AddTaskHalts, RemoveProjectUndefined, Stop
<1>6. CASE Serialize
  BY <1>1, <1>2, <1>6, SerializeKeeps, SameLoad DEF Serialize, FInv, container
<1>7. CASE Restart
  BY <1>1, <1>3, <1>7, EmptyBelongs, IdleLoads DEF Restart, Fresh, FInv
<1>8. CASE DeserializeRead
  BY <1>1, <1>3, <1>8, EmptyBelongs, ReadKeeps
  DEF DeserializeRead, Recreate, Fresh, FInv
<1>9. CASE DeserializeUndefined
  BY <1>1, <1>2, <1>3, <1>9, SameLoad
  DEF DeserializeUndefined, RecreateUndefined, Stop, FInv
<1>10. CASE DeserializeInsert
  BY <1>1, <1>3, <1>10, InsertKeeps DEF DeserializeInsert, FInv
<1>11. CASE UNCHANGED fileVars
  BY <1>1, <1>2, <1>3, <1>11, SameLoad DEF fileVars, container, FInv
<1> QED
  BY <1>4, <1>5, <1>6, <1>7, <1>8, <1>9, <1>10, <1>11 DEF FileNext

\* The invariant holds of every state.
THEOREM FInvariance == FileSpec => []FInv
BY FInvInit, FInvStep, PTL DEF FileSpec

-----------------------------------------------------------------------------
(* What a file gives back *)

\* Every variable stays in its type, texts belong to what is in memory, and the
\* file begins with a header, wherever a save stopped.
THEOREM FileTypeCorrect == FileSpec => []FileTypeOK
<1>1. FInv => FileTypeOK
  <2> SUFFICES ASSUME FInv PROVE FileTypeOK
    OBVIOUS
  <2>1. /\ IInv /\ TextsBelong /\ FileIsCut /\ LoadsTheFile /\ used \subseteq Texts
    BY DEF FInv
  <2>2. TypeOK
    BY <2>1 DEF IInv
  <2>3. Cardinality(file) <= 1
    <3>1. Cardinality({}) = 0 /\ \A cells : Cardinality({cells}) = 1
      BY FS_EmptySet, FS_Singleton
    <3>2. file = {} \/ \E cells : file = {cells}
      BY <2>1 DEF FileIsCut
    <3>3. Cardinality(file) \in {0, 1}
      BY <3>1, <3>2
    <3> QED
      BY <3>3
  <2>4. ASSUME NEW cells \in file \ {<<>>} PROVE cells[1] \in Header
    <3>1. PICK w \in Books : cells \in Cuts(CellsOf(w)) \ {<<>>}
      BY <2>1 DEF FileIsCut
    <3> QED
      BY <3>1, CutReadsAsBook
  <2>5. /\ chunks \in Seq(Chunk)
        /\ IF Idle THEN at = Start
           ELSE /\ at.chunk \in DOMAIN chunks
                /\ at.task \in 0..Len(chunks[at.chunk].tasks)
    BY <2>1 DEF LoadsTheFile, Books
  <2>6. /\ titles \in [DOMAIN projects -> AnyText]
        /\ DOMAIN texts = DOMAIN projects
        /\ \A i \in DOMAIN projects : texts[i] \in [projects[i].tasks -> AnyText]
    BY <2>1 DEF TextsBelong
  <2> QED
    BY <2>1, <2>2, <2>3, <2>4, <2>5, <2>6 DEF FileTypeOK
<1> QED
  BY <1>1, FInvariance, PTL

\* Below the limit of chunks, whatever is in memory reads back as it was
\* written, for any number of projects, tasks and holes between their ids.
THEOREM FileReadsBack == FileSpec => []RoundTrip
<1>1. FInv => RoundTrip
  <2> SUFFICES ASSUME FInv, Len(Chunks) < ChunkLimit
               PROVE  ReadChunks(CellsOf(Chunks)) = Chunks
    BY DEF RoundTrip
  <2>1. PICK w \in Books : w = Chunks
    BY ChunksType DEF FInv
  <2>2. w \in Seq(Chunk) /\ Len(w) < ChunkLimit
    BY <2>1 DEF Books
  <2>3. PICK C : C = CellsOf(w)
    OBVIOUS
  <2>4. CutFile(C, w, Len(C)) /\ Len(C) \in 1..Len(C)
    BY <2>2, <2>3, WholeCells DEF CutFile
  <2>5. ReadChunks(C) = w
    BY <2>2, <2>3, <2>4, ReadsInPlace
  <2> QED
    BY <2>1, <2>3, <2>5
<1> QED
  BY <1>1, FInvariance, PTL

\* What a save that stops anywhere leaves is read at its own place.
LEMMA CutIsCut ==
    ASSUME NEW w \in Books, Len(w) < ChunkLimit,
           NEW cells \in Cuts(CellsOf(w)) \ {<<>>}
    PROVE  Saved!CutOf(ReadChunks(cells), w)
<1>1. PICK m \in Nat : m = Len(w) /\ m < ChunkLimit /\ w \in Seq(Chunk)
  BY DEF Books
<1>2. PICK C : C = CellsOf(w)
  OBVIOUS
<1>3. PICK n \in 1..Len(C) : CutFile(cells, w, n)
  BY <1>1, <1>2, CutCells
<1>4. PICK read : read = ReadChunks(cells)
  OBVIOUS
<1>5. Saved!CutOf(read, w)
  BY <1>1, <1>2, <1>3, <1>4, ReadsInPlace
<1> QED
  BY <1>4, <1>5

\* A save that stops at any byte leaves a file that reads as the same chunks at
\* the same places: whole up to one text, of which there may be a beginning, and
\* blank behind it; or blank altogether when not all sizes are there.
THEOREM CutFileReadsInPlace == FileSpec => []PrefixReadsInPlace
<1>1. FInv => PrefixReadsInPlace
  <2> SUFFICES ASSUME FInv, Len(Chunks) < ChunkLimit,
                      NEW cells \in Cuts(CellsOf(Chunks)) \ {<<>>}
               PROVE  Saved!CutOf(ReadChunks(cells), Chunks)
    BY DEF PrefixReadsInPlace
  <2>1. PICK w \in Books : w = Chunks
    BY ChunksType DEF FInv
  <2> QED
    BY <2>1, CutIsCut
<1> QED
  BY <1>1, FInvariance, PTL

-----------------------------------------------------------------------------
(* A load keeps tasks under their project *)

\* After the insertions tried for the first c chunks of a book, project i can
\* only be that of chunk i + 1: each of them took an id, in order, whether it
\* was inserted or not.
PlacedUpTo(book, c) ==
    /\ ids.stack = <<>> /\ ids.next = c
    /\ \A i \in DOMAIN projects :
          /\ i < c
          /\ titles[i] = book[i + 1].title
          /\ \A t \in DOMAIN texts[i] :
                \E j \in DOMAIN book[i + 1].tasks :
                   texts[i][t] = book[i + 1].tasks[j]

Placed == ~Idle => PlacedUpTo(chunks, IF at.task = 0 THEN at.chunk - 1
                                                     ELSE at.chunk)

\* What the invariant says of an insertion that is to be made.
LEMMA InsertionAt ==
    ASSUME FInv, ~Idle
    PROVE  /\ chunks \in Seq(Chunk) /\ MaxProjects \in Nat /\ MaxTasks \in Nat
           /\ at.chunk \in Nat /\ at.chunk \in 1..Len(chunks)
           /\ Len(chunks) \in Nat /\ Len(chunks) <= MaxProjects
           /\ chunks[at.chunk] \in Chunk
           /\ at = [chunk |-> at.chunk, task |-> at.task]
           /\ at.task \in Nat /\ at.task \in 0..Len(chunks[at.chunk].tasks)
           /\ Len(chunks[at.chunk].tasks) \in Nat
           /\ \A k \in 1..Len(chunks) : Len(chunks[k].tasks) <= MaxTasks
<1>1. /\ chunks \in Seq(Chunk) /\ Len(chunks) <= MaxProjects
      /\ \A k \in DOMAIN chunks : Len(chunks[k].tasks) <= MaxTasks
      /\ at \in [chunk : Nat, task : Nat]
      /\ at.chunk \in DOMAIN chunks
      /\ at.task \in 0..Len(chunks[at.chunk].tasks)
  BY DEF FInv, LoadsTheFile, Books
<1>2. DOMAIN chunks = 1..Len(chunks) /\ Len(chunks) \in Nat
  BY <1>1
<1>3. chunks[at.chunk] \in Chunk
  BY <1>1
<1>4. Len(chunks[at.chunk].tasks) \in Nat
  BY <1>3, ChunkParts
<1>5. at = [chunk |-> at.chunk, task |-> at.task]
  BY <1>1
<1> QED
  BY <1>1, <1>2, <1>3, <1>4, <1>5, MaxProjectsAssumption, MaxTasksAssumption

\* An insertion, the last one included.
LEMMA InsertPlaces ==
    ASSUME FInv, Placed, DeserializeInsert,
           NEW book, book = chunks, NEW c, c = at.chunk
    PROVE  PlacedUpTo(book, c)'
<1>1. /\ ~Idle /\ c \in Nat /\ c \in 1..Len(book) /\ Len(book) <= MaxProjects
      /\ MaxProjects \in Nat /\ Len(book) \in Nat
      /\ book[c] \in Chunk /\ at.task \in 0..Len(book[c].tasks)
      /\ at.task \in Nat /\ Len(book[c].tasks) \in Nat
  BY InsertionAt DEF DeserializeInsert
<1>2. IInv /\ TextsBelong /\ ids.max = MaxProjects /\ ids \in IDPools(MaxProjects)
  BY DEF FInv, IInv, TypeOK, IDPools
<1>3. CASE at.task = 0
  <2>1. PlacedUpTo(book, c - 1)
    BY <1>1, <1>3 DEF Placed
  <2>2. ids.stack = <<>> /\ ids.next = c - 1 /\ ~Exhausted(ids)
    BY <1>1, <1>2, <2>1 DEF PlacedUpTo, Exhausted
  <2>3. AddWithText(book[c].title)
    BY <1>3, <2>2 DEF DeserializeInsert
  <2>4. NextID(ids) = c - 1
    BY <2>2 DEF NextID
  <2>5. ids'.stack = <<>> /\ ids'.next = c
    <3>1. ids' = [ids EXCEPT !.next = @ + 1]
      BY <2>2, <2>3 DEF AddWithText, AddProject, AfterNext
    <3> QED
      BY <1>1, <1>2, <2>2, <3>1 DEF IDPools
  <2>6. /\ c - 1 \in DOMAIN projects' => /\ titles'[c - 1] = book[c].title
                                         /\ texts'[c - 1] = << >>
        /\ \A i \in DOMAIN projects' :
              i # c - 1 => /\ i \in DOMAIN projects
                           /\ titles'[i] = titles[i] /\ texts'[i] = texts[i]
    BY <2>3, <2>4, AdditionDoes
  <2>7. ASSUME NEW i \in DOMAIN projects', i = c - 1
        PROVE  /\ i < c /\ titles'[i] = book[i + 1].title
               /\ DOMAIN texts'[i] = {}
    <3>1. i + 1 = c /\ i < c
      BY <1>1, <2>7
    <3>2. titles'[i] = book[c].title /\ texts'[i] = << >>
      BY <2>6, <2>7
    <3> QED
      BY <3>1, <3>2
  <2>8. ASSUME NEW i \in DOMAIN projects', i # c - 1
        PROVE  /\ i < c /\ titles'[i] = book[i + 1].title
               /\ \A t \in DOMAIN texts'[i] :
                     \E j \in DOMAIN book[i + 1].tasks :
                        texts'[i][t] = book[i + 1].tasks[j]
    <3>1. i \in DOMAIN projects /\ titles'[i] = titles[i] /\ texts'[i] = texts[i]
      BY <2>6, <2>8
    <3>2. i \in Int
      BY <1>2, <3>1 DEF IInv, TypeOK, ProjectIds
    <3>3. i < c
      BY <1>1, <2>1, <3>1, <3>2 DEF PlacedUpTo
    <3> QED
      BY <2>1, <3>1, <3>3 DEF PlacedUpTo
  <2> QED
    BY <2>5, <2>7, <2>8 DEF PlacedUpTo
<1>4. CASE at.task # 0
  <2>1. PlacedUpTo(book, c)
    BY <1>1, <1>4 DEF Placed
  <2>2. CASE UNCHANGED <<container, titles, texts>>
    BY <2>1, <2>2 DEF PlacedUpTo, container
  <2>3. CASE ~UNCHANGED <<container, titles, texts>>
    <3>1. AddTaskWithText(c - 1, book[c].tasks[at.task])
      BY <1>4, <2>3 DEF DeserializeInsert
    <3> DEFINE k == c - 1
    <3>2. /\ k \in DOMAIN projects /\ DOMAIN projects' = DOMAIN projects
          /\ ids' = ids /\ titles' = titles
          /\ texts'[k] = [t \in projects'[k].tasks |->
                             IF t \in projects[k].tasks THEN texts[k][t]
                             ELSE book[c].tasks[at.task]]
          /\ \A i \in DOMAIN projects : i # k => texts'[i] = texts[i]
      BY <1>2, <3>1, TaskAdditionDoes
    <3>3. k + 1 = c
      BY <1>1
    <3>4. at.task \in DOMAIN book[c].tasks
      BY <1>1, <1>4, ChunkParts
    <3>5. DOMAIN texts[k] = projects[k].tasks
      BY <1>2, <3>2 DEF TextsBelong
    <3> HIDE DEF k
    <3>6. ASSUME NEW t \in DOMAIN texts'[k]
          PROVE  \E j \in DOMAIN book[c].tasks : texts'[k][t] = book[c].tasks[j]
      <4>1. CASE t \in projects[k].tasks
        <5>1. t \in DOMAIN texts[k] /\ texts'[k][t] = texts[k][t]
          BY <3>2, <3>5, <3>6, <4>1
        <5> QED
          BY <2>1, <3>2, <3>3, <5>1 DEF PlacedUpTo
      <4>2. CASE t \notin projects[k].tasks
        <5>1. texts'[k][t] = book[c].tasks[at.task]
          BY <3>2, <3>6, <4>2
        <5> QED
          BY <3>4, <5>1
      <4> QED
        BY <4>1, <4>2
    <3>7. ASSUME NEW i \in DOMAIN projects'
          PROVE  /\ i < c /\ titles'[i] = book[i + 1].title
                 /\ \A t \in DOMAIN texts'[i] :
                       \E j \in DOMAIN book[i + 1].tasks :
                          texts'[i][t] = book[i + 1].tasks[j]
      <4>1. CASE i = k
        BY <2>1, <3>2, <3>3, <3>6, <4>1 DEF PlacedUpTo
      <4>2. CASE i # k
        BY <2>1, <3>2, <4>2 DEF PlacedUpTo
      <4> QED
        BY <4>1, <4>2
    <3> QED
      BY <2>1, <3>2, <3>7 DEF PlacedUpTo
  <2> QED
    BY <2>2, <2>3
<1> QED
  BY <1>3, <1>4

\* What the next insertion finds.
LEMMA InsertMoves ==
    ASSUME FInv, DeserializeInsert, ~Idle',
           NEW c, c = at.chunk
    PROVE  /\ chunks' = chunks
           /\ \/ at'.chunk = c /\ at'.task = at.task + 1
              \/ /\ at'.chunk = c + 1 /\ at'.task = 0
                 /\ at.task = Len(chunks[c].tasks)
<1>1. at' = Following /\ chunks' = chunks
  BY DEF DeserializeInsert, Idle
<1>2. /\ c \in DOMAIN chunks /\ chunks \in Seq(Chunk)
      /\ at = [chunk |-> c, task |-> at.task]
      /\ at.task \in 0..Len(chunks[c].tasks)
  BY InsertionAt DEF DeserializeInsert
<1>3. \/ Following = [chunk |-> c, task |-> at.task + 1]
      \/ /\ Following = [chunk |-> c + 1, task |-> 0]
         /\ at.task = Len(chunks[c].tasks)
  BY <1>2, FollowingPlace
<1> QED
  BY <1>1, <1>3

\* Every step keeps the projects of a load with their chunks.
LEMMA PlacedStep == FInv /\ Placed /\ [FileNext]_fileVars => Placed'
<1> SUFFICES ASSUME FInv, Placed, [FileNext]_fileVars PROVE Placed'
  OBVIOUS
<1>1. CASE Idle'
  BY <1>1 DEF Placed
<1>2. ASSUME UNCHANGED <<projects, ids, titles, texts, chunks, at>> PROVE Placed'
  BY <1>2 DEF Placed, PlacedUpTo, Idle
<1>3. CASE Edit \/ Restart
  BY <1>1, <1>3 DEF Edit, Idle, Restart, loading
<1>4. CASE Break
  BY <1>2, <1>4 DEF Break, AddProjectHalts, UseStaleRoot, AddTaskHalts,
     RemoveProjectUndefined, Stop, loading
<1>5. CASE Serialize \/ DeserializeUndefined
  BY <1>2, <1>5 DEF Serialize, DeserializeUndefined, RecreateUndefined, Stop,
     container, loading
<1>6. CASE DeserializeRead
  <2>1. projects' = << >> /\ ids' = InitIDs(MaxProjects) /\ at' = Start
    BY <1>6 DEF DeserializeRead, Recreate, Fresh
  <2>2. /\ DOMAIN projects' = {} /\ ids'.stack = <<>> /\ ids'.next = 0
        /\ at'.chunk = 1 /\ at'.task = 0
    BY <2>1 DEF InitIDs, Start
  <2> QED
    BY <2>2 DEF Placed, PlacedUpTo
<1>7. CASE DeserializeInsert /\ ~Idle'
  <2>1. PICK book, c : book = chunks /\ c = at.chunk
    OBVIOUS
  <2>2. PlacedUpTo(book, c)'
    BY <1>7, <2>1, InsertPlaces
  <2>3. /\ chunks' = book /\ c \in Nat /\ at.task \in Nat
        /\ \/ at'.chunk = c /\ at'.task = at.task + 1
           \/ at'.chunk = c + 1 /\ at'.task = 0
    BY <1>7, <2>1, InsertMoves, InsertionAt DEF DeserializeInsert
  <2>4. (IF at'.task = 0 THEN at'.chunk - 1 ELSE at'.chunk) = c
    BY <2>3
  <2> QED
    BY <2>2, <2>3, <2>4 DEF Placed
<1>8. CASE UNCHANGED fileVars
  BY <1>2, <1>8 DEF fileVars, container, loading
<1> QED
  BY <1>1, <1>3, <1>4, <1>5, <1>6, <1>7, <1>8 DEF FileNext

\* While a file is loaded no project has a title or a task of another chunk,
\* whatever fails: a failed insertion of a project still takes its id, so the
\* number of the chunk and the id cannot drift apart (selfma_api.cpp:165, 172).
THEOREM LoadKeepsTasksApart == FileSpec => TasksUnderTheirProject
<1> DEFINE Apart ==
              \A cells \in file :
                 ~Idle =>
                    \A i \in DOMAIN projects' :
                       LET chunk == ReadChunks(cells)[i + 1]
                       IN /\ titles'[i] = chunk.title
                          /\ \A t \in DOMAIN texts'[i] :
                                \E j \in DOMAIN chunk.tasks :
                                   texts'[i][t] = chunk.tasks[j]
<1>1. FileInit => Placed
  BY DEF FileInit, Placed, Idle
<1>2. ASSUME FInv, Placed, [FileNext]_fileVars PROVE [Apart]_fileVars
  <2> SUFFICES ASSUME FileNext, NEW cells \in file, ~Idle,
                      NEW i \in DOMAIN projects'
               PROVE  LET chunk == ReadChunks(cells)[i + 1]
                      IN /\ titles'[i] = chunk.title
                         /\ \A t \in DOMAIN texts'[i] :
                               \E j \in DOMAIN chunk.tasks :
                                  texts'[i][t] = chunk.tasks[j]
    BY <1>2
  <2>1. PICK book, c : book = chunks /\ c = at.chunk
    OBVIOUS
  <2>2. book = ReadChunks(cells)
    BY <1>2, <2>1 DEF FInv, LoadsTheFile
  <2>3. \E d : PlacedUpTo(book, d)'
    <3>1. CASE DeserializeInsert
      BY <1>2, <2>1, <3>1, InsertPlaces
    <3>2. CASE Restart
      BY <3>2 DEF Restart, Fresh
    <3>3. CASE Break
      <4>1. UNCHANGED <<projects, ids, titles, texts>>
        BY <3>3 DEF Break, AddProjectHalts, UseStaleRoot, AddTaskHalts,
           RemoveProjectUndefined, Stop
      <4>2. PICK d : PlacedUpTo(book, d)
        BY <1>2, <2>1 DEF Placed
      <4> QED
        BY <4>1, <4>2 DEF PlacedUpTo
    <3> QED
      BY <3>1, <3>2, <3>3 DEF FileNext, Edit, Serialize, DeserializeRead,
         DeserializeUndefined
  <2> QED
    BY <2>2, <2>3 DEF PlacedUpTo
<1> QED
  BY <1>1, <1>2, PlacedStep, FInvariance, PTL DEF FileSpec, TasksUnderTheirProject

-----------------------------------------------------------------------------
(* A load rebuilds what was read *)

\* A project with the first n tasks of a chunk, numbered as they came.
HasTasks(p, names, tasks, n) ==
    /\ p \in Projects /\ p.tasks = 0..n - 1 /\ ~p.dangling
    /\ p.ids.stack = <<>> /\ p.ids.next = n
    /\ names = [t \in 0..n - 1 |-> tasks[t + 1]]

\* The first c chunks of a book are in memory, of the last of them n tasks.
FilledUpTo(book, c, n) ==
    /\ DOMAIN projects = 0..c - 1
    /\ \A i \in 0..c - 1 :
          HasTasks(projects[i], texts[i], book[i + 1].tasks,
                   IF i = c - 1 THEN n ELSE Len(book[i + 1].tasks))

Filled == ~Idle => IF at.task = 0
                   THEN FilledUpTo(chunks, at.chunk - 1,
                                   Len(chunks[at.chunk - 1].tasks))
                   ELSE FilledUpTo(chunks, at.chunk, at.task - 1)

\* One task more.
LEMMA TaskFills ==
    ASSUME ~AllocFails, NEW tasks, NEW n \in Nat, n < MaxTasks,
           NEW p, NEW names, HasTasks(p, names, tasks, n),
           NEW q \in AddResults(p), q \in Projects, NEW named,
           named = [t \in q.tasks |-> IF t \in p.tasks THEN names[t]
                                      ELSE tasks[n + 1]]
    PROVE  HasTasks(q, named, tasks, n + 1)
<1>1. /\ p \in Projects /\ p.tasks = 0..n - 1 /\ ~p.dangling
      /\ p.ids.stack = <<>> /\ p.ids.next = n
      /\ p.ids \in IDPools(MaxTasks) /\ p.ids.max = MaxTasks /\ MaxTasks \in Nat
  BY MaxTasksAssumption DEF HasTasks, Projects, IDPools
<1>2. ~Exhausted(p.ids) /\ NextID(p.ids) = n
  BY <1>1 DEF Exhausted, NextID
<1>3. AfterNext(p.ids) = [p.ids EXCEPT !.next = n + 1]
  BY <1>1 DEF AfterNext
<1>4. /\ AfterNext(p.ids).stack = <<>>
      /\ AfterNext(p.ids).next = n + 1
  BY <1>1, <1>3 DEF IDPools
<1>5. PICK k \in InsertOutcomes(p.tasks, n) :
         q = [p EXCEPT !.tasks = k, !.ids = AfterNext(p.ids), !.count = @ + 1]
  BY <1>2 DEF AddResults, Inserted
<1>6. k = (0..n - 1) \cup {n}
  BY <1>1, <1>5 DEF InsertOutcomes
<1>7. k = 0..(n + 1) - 1
  BY <1>6
<1>8. q.tasks = k /\ q.dangling = p.dangling /\ q.ids = AfterNext(p.ids)
  BY <1>1, <1>5 DEF Projects
<1>9. named = [t \in 0..(n + 1) - 1 |-> tasks[t + 1]]
  <2>1. ASSUME NEW t \in 0..(n + 1) - 1
        PROVE  (IF t \in p.tasks THEN names[t] ELSE tasks[n + 1]) = tasks[t + 1]
    <3>1. CASE t \in 0..n - 1
      BY <1>1, <3>1 DEF HasTasks
    <3>2. CASE t = n
      BY <1>1, <3>2
    <3> QED
      BY <3>1, <3>2
  <2> QED
    BY <1>7, <1>8, <2>1
<1> QED
  BY <1>1, <1>4, <1>7, <1>8, <1>9 DEF HasTasks

\* A project that was just added has none.
LEMMA NewFills ==
    ASSUME NEW tasks PROVE HasTasks(NewProject, << >>, tasks, 0)
<1>1. /\ NewProject \in Projects /\ NewProject.tasks = {} /\ ~NewProject.dangling
      /\ NewProject.ids.stack = <<>> /\ NewProject.ids.next = 0
  BY NewProjectType DEF NewProject, InitIDs
<1>2. 0..0 - 1 = {}
  OBVIOUS
<1> QED
  BY <1>1, <1>2 DEF HasTasks

\* An insertion, the last one included.
LEMMA InsertFills ==
    ASSUME ~AllocFails, FInv, Placed, Numbered, Filled, DeserializeInsert,
           NEW book, book = chunks, NEW c, c = at.chunk, NEW n, n = at.task
    PROVE  FilledUpTo(book, c, n)'
<1>1. /\ ~Idle /\ c \in Nat /\ c \in 1..Len(book) /\ Len(book) <= MaxProjects
      /\ MaxProjects \in Nat /\ Len(book) \in Nat /\ MaxTasks \in Nat
      /\ n \in 0..Len(book[c].tasks) /\ n \in Nat
      /\ Len(book[c].tasks) \in Nat /\ Len(book[c].tasks) <= MaxTasks
  BY InsertionAt DEF DeserializeInsert
<1>2. IInv /\ TextsBelong /\ ids.max = MaxProjects
  BY DEF FInv, IInv, TypeOK, IDPools
<1>3. DOMAIN projects' = 0..c - 1
  <2>1. DOMAIN projects' = 0..ids'.next - 1
    BY InsertNumbers DEF FInv
  <2>2. ids'.next = c
    BY InsertPlaces DEF PlacedUpTo
  <2> QED
    BY <2>1, <2>2
<1>4. CASE n = 0
  <2> DEFINE k == c - 1
  <2>1. /\ ids.stack = <<>> /\ ids.next = k /\ ~Exhausted(ids)
        /\ DOMAIN projects = 0..k - 1
    BY <1>1, <1>2, <1>4 DEF Placed, PlacedUpTo, Numbered, Exhausted
  <2>2. FilledUpTo(book, k, Len(book[k].tasks))
    BY <1>1, <1>4 DEF Filled
  <2>3. /\ AddWithText(book[c].title) /\ NextID(ids) = k
    BY <1>4, <2>1 DEF DeserializeInsert, NextID
  <2>4. /\ k \in DOMAIN projects' => /\ projects'[k] = NewProject
                                     /\ texts'[k] = << >>
        /\ \A i \in DOMAIN projects' :
              i # k => /\ i \in DOMAIN projects
                       /\ projects'[i] = projects[i]
                       /\ texts'[i] = texts[i]
    BY <2>3, AdditionDoes
  <2>5. ASSUME NEW i \in 0..c - 1
        PROVE  HasTasks(projects'[i], texts'[i], book[i + 1].tasks,
                        IF i = c - 1 THEN n ELSE Len(book[i + 1].tasks))
    <3>1. CASE i = k
      <4>1. projects'[i] = NewProject /\ texts'[i] = << >>
        BY <1>3, <2>4, <3>1
      <4>2. HasTasks(NewProject, << >>, book[i + 1].tasks, 0)
        BY NewFills
      <4> QED
        BY <1>4, <3>1, <4>1, <4>2
    <3>2. CASE i # k
      <4>1. i \in 0..k - 1 /\ projects'[i] = projects[i] /\ texts'[i] = texts[i]
        BY <1>1, <1>3, <2>1, <2>4, <3>2
      <4>2. (IF i = k - 1 THEN Len(book[k].tasks) ELSE Len(book[i + 1].tasks))
               = Len(book[i + 1].tasks)
        BY <1>1, <4>1
      <4>3. HasTasks(projects[i], texts[i], book[i + 1].tasks,
                     IF i = k - 1 THEN Len(book[k].tasks)
                     ELSE Len(book[i + 1].tasks))
        BY <2>2, <4>1 DEF FilledUpTo
      <4>4. HasTasks(projects[i], texts[i], book[i + 1].tasks,
                     Len(book[i + 1].tasks))
        BY <4>2, <4>3
      <4> QED
        BY <3>2, <4>1, <4>4
    <3> QED
      BY <3>1, <3>2
  <2> QED
    BY <1>3, <2>5 DEF FilledUpTo
<1>5. CASE n # 0
  <2> DEFINE k == c - 1
  <2>1. FilledUpTo(book, c, n - 1)
    BY <1>1, <1>5 DEF Filled
  <2>2. k \in DOMAIN projects /\ DOMAIN projects = 0..c - 1 /\ k + 1 = c
    BY <1>1, <2>1 DEF FilledUpTo
  <2>3. AddTaskWithText(k, book[c].tasks[n])
    BY <1>5, <2>2 DEF DeserializeInsert
  <2>4. /\ projects'[k] \in AddResults(projects[k]) /\ projects'[k] \in Projects
        /\ texts'[k] = [t \in projects'[k].tasks |->
                           IF t \in projects[k].tasks THEN texts[k][t]
                           ELSE book[c].tasks[n]]
        /\ \A i \in DOMAIN projects :
              i # k => projects'[i] = projects[i] /\ texts'[i] = texts[i]
    BY <1>2, <2>3, TaskAdditionDoes
  <2> HIDE DEF k
  <2>5. HasTasks(projects'[k], texts'[k], book[c].tasks, n)
    <3>1. PICK m \in Nat : n = m + 1 /\ m < MaxTasks /\ n - 1 = m
      <4>1. n - 1 \in Nat /\ n - 1 < MaxTasks /\ n = (n - 1) + 1
        BY <1>1, <1>5
      <4> QED
        BY <4>1
    <3>2. HasTasks(projects[k], texts[k], book[c].tasks, m)
      BY <2>1, <2>2, <3>1 DEF FilledUpTo, k
    <3>3. HasTasks(projects'[k], texts'[k], book[c].tasks, m + 1)
      BY <2>4, <3>1, <3>2, TaskFills
    <3> QED
      BY <3>1, <3>3
  <2>6. ASSUME NEW i \in 0..c - 1
        PROVE  HasTasks(projects'[i], texts'[i], book[i + 1].tasks,
                        IF i = c - 1 THEN n ELSE Len(book[i + 1].tasks))
    <3>1. CASE i = k
      BY <2>2, <2>5, <3>1 DEF k
    <3>2. CASE i # k
      <4>1. projects'[i] = projects[i] /\ texts'[i] = texts[i] /\ i # c - 1
        BY <2>2, <2>4, <3>2 DEF k
      <4>2. HasTasks(projects[i], texts[i], book[i + 1].tasks,
                     Len(book[i + 1].tasks))
        BY <2>1, <4>1 DEF FilledUpTo
      <4> QED
        BY <4>1, <4>2
    <3> QED
      BY <3>1, <3>2
  <2> QED
    BY <1>3, <2>6 DEF FilledUpTo
<1> QED
  BY <1>4, <1>5

\* Every step of a load keeps what was rebuilt.
LEMMA FilledStep ==
    ASSUME ~AllocFails
    PROVE  FInv /\ Placed /\ Numbered /\ Filled /\ [FileNext]_fileVars => Filled'
<1> SUFFICES ASSUME FInv, Placed, Numbered, Filled, [FileNext]_fileVars
             PROVE  Filled'
  OBVIOUS
<1>1. CASE Idle'
  BY <1>1 DEF Filled
<1>2. ASSUME UNCHANGED <<projects, texts, chunks, at>> PROVE Filled'
  BY <1>2 DEF Filled, FilledUpTo, Idle
<1>3. CASE Edit \/ Restart
  BY <1>1, <1>3 DEF Edit, Idle, Restart, loading
<1>4. CASE Break
  BY <1>2, <1>4 DEF Break, AddProjectHalts, UseStaleRoot, AddTaskHalts,
     RemoveProjectUndefined, Stop, loading
<1>5. CASE Serialize \/ DeserializeUndefined
  BY <1>2, <1>5 DEF Serialize, DeserializeUndefined, RecreateUndefined, Stop,
     container, loading
<1>6. CASE DeserializeRead
  <2>1. projects' = << >> /\ at' = Start
    BY <1>6 DEF DeserializeRead, Recreate, Fresh
  <2>2. DOMAIN projects' = {} /\ at'.chunk - 1 = 0 /\ at'.task = 0 /\ 0..0 - 1 = {}
    BY <2>1 DEF Start
  <2> QED
    BY <2>2 DEF Filled, FilledUpTo
<1>7. CASE DeserializeInsert /\ ~Idle'
  <2>1. PICK book, c, n : book = chunks /\ c = at.chunk /\ n = at.task
    OBVIOUS
  <2>2. FilledUpTo(book, c, n)'
    BY <1>7, <2>1, InsertFills
  <2>3. /\ chunks' = book /\ c \in Nat /\ n \in Nat
        /\ \/ at'.chunk = c /\ at'.task = n + 1
           \/ at'.chunk = c + 1 /\ at'.task = 0 /\ n = Len(book[c].tasks)
    BY <1>7, <2>1, InsertMoves, InsertionAt DEF DeserializeInsert
  <2>4. CASE at'.chunk = c /\ at'.task = n + 1
    <3>1. at'.task # 0 /\ at'.task - 1 = n
      BY <2>3, <2>4
    <3> QED
      BY <2>2, <2>3, <2>4, <3>1 DEF Filled
  <2>5. CASE at'.chunk = c + 1 /\ at'.task = 0 /\ n = Len(book[c].tasks)
    <3>1. at'.chunk - 1 = c
      BY <2>3, <2>5
    <3> QED
      BY <2>2, <2>3, <2>5, <3>1 DEF Filled
  <2> QED
    BY <2>3, <2>4, <2>5
<1>8. CASE UNCHANGED fileVars
  BY <1>2, <1>8 DEF fileVars, container, loading
<1> QED
  BY <1>1, <1>3, <1>4, <1>5, <1>6, <1>7, <1>8 DEF FileNext

\* Memory filled with all chunks of a book ...
Full(book) ==
    /\ DOMAIN projects = 0..Len(book) - 1
    /\ \A i \in 0..Len(book) - 1 :
          /\ titles[i] = book[i + 1].title
          /\ HasTasks(projects[i], texts[i], book[i + 1].tasks,
                      Len(book[i + 1].tasks))

\* ... collects into that book.
LEMMA FullCollects == IInv => \A book \in Books : Full(book) => Chunks = book
<1> SUFFICES ASSUME IInv, NEW book \in Books, Full(book) PROVE Chunks = book
  OBVIOUS
<1> DEFINE order == Ascending(ListedProjects)
           taskOrder(i) == Ascending(ListedTasks(projects[i]))
           chunk(i) == [title |-> titles[i],
                        tasks |-> [j \in DOMAIN taskOrder(i) |->
                                      texts[i][taskOrder(i)[j]]]]
<1>1. PICK m \in Nat :
         /\ m = Len(book) /\ book \in Seq(Chunk) /\ DOMAIN book = 1..m
         /\ \A k \in 1..m : Len(book[k].tasks) <= MaxTasks
         /\ MaxTasks \in Nat
  BY MaxTasksAssumption DEF Books
<1>2. order = [k \in 1..m |-> k - 1]
  <2>1. ListedProjects = 0..m - 1
    BY <1>1, InvListsProjects DEF ProjectsListed, Full
  <2> QED
    BY <1>1, <2>1, AscendingInterval
<1>3. ASSUME NEW k \in 1..m PROVE chunk(k - 1) = book[k]
  <2> DEFINE i == k - 1
  <2>1. i \in 0..m - 1 /\ i + 1 = k /\ book[k] \in Chunk
    BY <1>1
  <2>2. PICK c \in Chunk : c = book[k]
    BY <2>1
  <2>3. /\ c.title \in AnyText /\ c.tasks \in Seq(AnyText)
        /\ DOMAIN c.tasks = 1..Len(c.tasks) /\ Len(c.tasks) \in Nat
    BY ChunkParts
  <2>4. PICK n \in Nat : n = Len(c.tasks) /\ n <= MaxTasks
    BY <1>1, <2>2, <2>3
  <2>5. titles[i] = c.title /\ HasTasks(projects[i], texts[i], c.tasks, n)
    BY <1>1, <2>1, <2>2, <2>4 DEF Full
  <2> HIDE DEF i
  <2>6. taskOrder(i) = [j \in 1..n |-> j - 1]
    <3>1. ListedTasks(projects[i]) = {t \in 0..n - 1 : t < MaxTasks}
      BY <1>1, <2>1, <2>5, InvListsTasks DEF TasksListed, HasTasks, Full
    <3>2. ListedTasks(projects[i]) = 0..n - 1
      BY <1>1, <2>4, <3>1
    <3> QED
      BY <3>2, AscendingInterval
  <2>7. ASSUME NEW j \in 1..n PROVE texts[i][j - 1] = c.tasks[j]
    <3>1. texts[i] = [t \in 0..n - 1 |-> c.tasks[t + 1]]
      BY <2>5 DEF HasTasks
    <3>2. j - 1 \in 0..n - 1 /\ (j - 1) + 1 = j
      OBVIOUS
    <3> QED
      BY <3>1, <3>2
  <2>8. [j \in DOMAIN taskOrder(i) |-> texts[i][taskOrder(i)[j]]] = c.tasks
    <3> HIDE DEF taskOrder
    <3>1. \A j \in 1..n : taskOrder(i)[j] = j - 1
      BY <2>6
    <3>2. DOMAIN taskOrder(i) = 1..n
      BY <2>6
    <3>3. [j \in DOMAIN taskOrder(i) |-> texts[i][taskOrder(i)[j]]]
             = [j \in 1..n |-> c.tasks[j]]
      BY <2>7, <3>1, <3>2
    <3>4. c.tasks = [j \in 1..n |-> c.tasks[j]]
      BY <2>3, <2>4
    <3> QED
      BY <3>3, <3>4
  <2> HIDE DEF taskOrder
  <2>9. chunk(i) \in Chunk /\ chunk(i).title = c.title /\ chunk(i).tasks = c.tasks
    BY <2>3, <2>5, <2>8 DEF Chunk
  <2>10. chunk(i) = c
    BY <2>9, ChunkParts
  <2> QED
    BY <2>2, <2>10 DEF i
<1> HIDE DEF chunk
<1>4. Chunks = [k \in DOMAIN order |-> chunk(order[k])]
  BY DEF Chunks, chunk
<1>5. Chunks = [k \in 1..m |-> book[k]]
  BY <1>2, <1>3, <1>4
<1> QED
  BY <1>1, <1>5

\* What the last insertion finds.
LEMMA LastInsertion ==
    ASSUME FInv, DeserializeInsert, Idle',
           NEW book, book = chunks, NEW c, c = at.chunk, NEW n, n = at.task
    PROVE  /\ c = Len(book) /\ n = Len(book[c].tasks)
           /\ c \in Nat /\ c \in 1..Len(book) /\ book \in Books
<1>1. ~(Following.chunk <= Len(book)) /\ book # <<>>
  BY DEF DeserializeInsert, Idle
<1>2. /\ c \in DOMAIN chunks /\ chunks \in Seq(Chunk) /\ c \in Nat
      /\ at = [chunk |-> c, task |-> at.task]
      /\ at.task \in 0..Len(chunks[c].tasks)
      /\ c \in 1..Len(book) /\ Len(book) \in Nat
  BY InsertionAt DEF DeserializeInsert
<1>3. \/ Following = [chunk |-> c, task |-> at.task + 1]
      \/ /\ Following = [chunk |-> c + 1, task |-> 0]
         /\ at.task = Len(chunks[c].tasks)
  BY <1>2, FollowingPlace
<1>4. book \in Books
  BY DEF FInv, LoadsTheFile
<1> QED
  BY <1>1, <1>2, <1>3, <1>4

\* It completes the book.
LEMMA LastInsertFills ==
    ASSUME ~AllocFails, FInv, Placed, Numbered, Filled, DeserializeInsert, Idle',
           NEW book, book = chunks
    PROVE  book \in Books /\ Full(book)'
<1>1. PICK c, n : c = at.chunk /\ n = at.task
  OBVIOUS
<1>2. /\ c = Len(book) /\ n = Len(book[c].tasks)
      /\ c \in Nat /\ c \in 1..Len(book) /\ book \in Books
  BY <1>1, LastInsertion
<1>3. FilledUpTo(book, c, n)' /\ PlacedUpTo(book, c)'
  BY <1>1, InsertFills, InsertPlaces
<1>4. DOMAIN projects' = 0..c - 1
  BY <1>3 DEF FilledUpTo
<1>5. ASSUME NEW i \in 0..c - 1
      PROVE  /\ titles'[i] = book[i + 1].title
             /\ HasTasks(projects'[i], texts'[i], book[i + 1].tasks,
                         Len(book[i + 1].tasks))
  <2>1. titles'[i] = book[i + 1].title
    BY <1>3, <1>4 DEF PlacedUpTo
  <2>2. HasTasks(projects'[i], texts'[i], book[i + 1].tasks,
                 IF i = c - 1 THEN n ELSE Len(book[i + 1].tasks))
    BY <1>3 DEF FilledUpTo
  <2>3. i = c - 1 => i + 1 = c
    BY <1>2
  <2> QED
    BY <1>2, <2>1, <2>2, <2>3
<1> QED
  BY <1>2, <1>4, <1>5 DEF Full

\* When no allocation fails a load ends with exactly the chunks of the file, in
\* their order: what is saved next is what was read (selfma_api.cpp:158-174).
THEOREM LoadRebuildsTheFile == ASSUME ~AllocFails PROVE FileSpec => LoadRebuilds
<1> DEFINE Rebuilt == \A cells \in file :
                         ~Idle /\ Idle' /\ projects' # << >>
                            => Chunks' = ReadChunks(cells)
<1>1. FileInit => Placed /\ Numbered /\ Filled
  BY DEF FileInit, Placed, Numbered, Filled, Idle
<1>2. (IInv => \A book \in Books : Full(book) => Chunks = book)'
  BY FullCollects, PTL
<1>3. ASSUME FInv, Placed, Numbered, Filled, [FileNext]_fileVars
      PROVE  [Rebuilt]_fileVars
  <2> SUFFICES ASSUME FileNext, NEW cells \in file, ~Idle, Idle', projects' # << >>
               PROVE  Chunks' = ReadChunks(cells)
    BY <1>3
  <2>1. DeserializeInsert
    BY DEF FileNext, Edit, Break, Serialize, Restart, Fresh, DeserializeRead,
       DeserializeUndefined, Idle, loading
  <2>2. PICK book : book = chunks /\ book = ReadChunks(cells)
    BY <1>3 DEF FInv, LoadsTheFile
  <2>3. book \in Books /\ Full(book)' /\ IInv'
    BY <1>3, <2>1, <2>2, LastInsertFills, FileStepInv DEF FInv
  <2> QED
    BY <1>2, <2>2, <2>3
<1> QED
  BY <1>1, <1>3, PlacedStep, NumberedStep, FilledStep, FInvariance, PTL
  DEF FileSpec, LoadRebuilds, FInv

-----------------------------------------------------------------------------
(* What failing insertions leave of a load *)

\* A project to which the first n tasks of a chunk were added, or were not:
\* each took the next id, and those that are there have the text of their own.
TriedTasks(p, names, tasks, n) ==
    /\ p.ids.stack = <<>> /\ p.ids.next = n
    /\ \A t \in p.tasks : t \in 0..n - 1 /\ names[t] = tasks[t + 1]

\* The same of all projects, after n tasks of chunk c of a book.
TriedUpTo(book, c, n) ==
    \A i \in DOMAIN projects :
       TriedTasks(projects[i], texts[i], book[i + 1].tasks,
                  IF i = c - 1 THEN n ELSE Len(book[i + 1].tasks))

Tried == ~Idle => IF at.task = 0
                  THEN TriedUpTo(chunks, at.chunk - 1,
                                 Len(chunks[at.chunk - 1].tasks))
                  ELSE TriedUpTo(chunks, at.chunk, at.task - 1)

\* One task more is tried.
LEMMA TaskTries ==
    ASSUME NEW tasks, NEW n \in Nat, n < MaxTasks,
           NEW p \in Projects, NEW names, TriedTasks(p, names, tasks, n),
           NEW q \in AddResults(p), NEW named,
           named = [t \in q.tasks |-> IF t \in p.tasks THEN names[t]
                                      ELSE tasks[n + 1]]
    PROVE  TriedTasks(q, named, tasks, n + 1)
<1>1. /\ p.ids.stack = <<>> /\ p.ids.next = n
      /\ p.ids \in IDPools(MaxTasks) /\ p.ids.max = MaxTasks /\ MaxTasks \in Nat
  BY MaxTasksAssumption DEF TriedTasks, Projects, IDPools
<1>2. ~Exhausted(p.ids) /\ NextID(p.ids) = n
  BY <1>1 DEF Exhausted, NextID
<1>3. AfterNext(p.ids) = [p.ids EXCEPT !.next = n + 1]
  BY <1>1 DEF AfterNext
<1>4. /\ AfterNext(p.ids).stack = <<>>
      /\ AfterNext(p.ids).next = n + 1
  BY <1>1, <1>3 DEF IDPools
<1>5. PICK k \in InsertOutcomes(p.tasks, n) :
         q = [p EXCEPT !.tasks = k, !.ids = AfterNext(p.ids), !.count = @ + 1]
  BY <1>2 DEF AddResults, Inserted
<1>6. k \subseteq p.tasks \cup {n}
  BY <1>5, InsertAdds
<1>7. q.tasks = k /\ q.ids = AfterNext(p.ids)
  BY <1>5 DEF Projects
<1>8. ASSUME NEW t \in q.tasks
      PROVE  t \in 0..(n + 1) - 1 /\ named[t] = tasks[t + 1]
  <2>1. CASE t \in p.tasks
    <3>1. t \in 0..n - 1 /\ names[t] = tasks[t + 1]
      BY <2>1 DEF TriedTasks
    <3> QED
      BY <2>1, <3>1
  <2>2. CASE t \notin p.tasks
    <3>1. t = n /\ named[t] = tasks[n + 1]
      BY <1>6, <1>7, <2>2
    <3> QED
      BY <3>1
  <2> QED
    BY <2>1, <2>2
<1> QED
  BY <1>4, <1>7, <1>8 DEF TriedTasks

\* A project that was just added has none.
LEMMA NewTries == ASSUME NEW tasks PROVE TriedTasks(NewProject, << >>, tasks, 0)
<1>1. /\ NewProject.tasks = {}
      /\ NewProject.ids.stack = <<>> /\ NewProject.ids.next = 0
  BY DEF NewProject, InitIDs
<1> QED
  BY <1>1 DEF TriedTasks

\* An insertion, the last one included.
LEMMA InsertTries ==
    ASSUME FInv, Placed, Tried, DeserializeInsert,
           NEW book, book = chunks, NEW c, c = at.chunk, NEW n, n = at.task
    PROVE  TriedUpTo(book, c, n)'
<1>1. /\ ~Idle /\ c \in Nat /\ c \in 1..Len(book) /\ Len(book) <= MaxProjects
      /\ MaxProjects \in Nat /\ Len(book) \in Nat /\ MaxTasks \in Nat
      /\ n \in 0..Len(book[c].tasks) /\ n \in Nat
      /\ Len(book[c].tasks) \in Nat /\ Len(book[c].tasks) <= MaxTasks
  BY InsertionAt DEF DeserializeInsert
<1>2. IInv /\ TextsBelong /\ ids.max = MaxProjects
  BY DEF FInv, IInv, TypeOK, IDPools
<1> DEFINE k == c - 1
           Whole(i, p, names) == TriedTasks(p, names, book[i + 1].tasks,
                                            Len(book[i + 1].tasks))
<1>3. CASE n = 0
  <2>1. /\ ids.stack = <<>> /\ ids.next = k /\ ~Exhausted(ids)
        /\ \A i \in DOMAIN projects : i < k
    BY <1>1, <1>2, <1>3 DEF Placed, PlacedUpTo, Exhausted
  <2>2. TriedUpTo(book, k, Len(book[k].tasks))
    BY <1>1, <1>3 DEF Tried
  <2>3. /\ AddWithText(book[c].title) /\ NextID(ids) = k
    BY <1>3, <2>1 DEF DeserializeInsert, NextID
  <2>4. /\ k \in DOMAIN projects' => /\ projects'[k] = NewProject
                                     /\ texts'[k] = << >>
        /\ \A i \in DOMAIN projects' :
              i # k => /\ i \in DOMAIN projects
                       /\ projects'[i] = projects[i]
                       /\ texts'[i] = texts[i]
    BY <2>3, AdditionDoes
  <2>5. ASSUME NEW i \in DOMAIN projects', i # k
        PROVE  Whole(i, projects'[i], texts'[i])
    <3>1. i \in DOMAIN projects /\ projects'[i] = projects[i] /\ texts'[i] = texts[i]
      BY <2>4, <2>5
    <3>2. i \in Nat
      BY <1>2, <3>1, MaxProjectsAssumption DEF IInv, TypeOK, ProjectIds
    <3>3. (IF i = k - 1 THEN Len(book[k].tasks) ELSE Len(book[i + 1].tasks))
             = Len(book[i + 1].tasks)
      BY <1>1, <3>2
    <3>4. TriedTasks(projects[i], texts[i], book[i + 1].tasks,
                     IF i = k - 1 THEN Len(book[k].tasks)
                     ELSE Len(book[i + 1].tasks))
      BY <2>2, <3>1 DEF TriedUpTo
    <3> QED
      BY <3>1, <3>3, <3>4
  <2>6. ASSUME k \in DOMAIN projects'
        PROVE  TriedTasks(projects'[k], texts'[k], book[k + 1].tasks, n)
    BY <1>3, <2>4, <2>6, NewTries
  <2> QED
    BY <2>5, <2>6 DEF TriedUpTo
<1>4. CASE n # 0
  <2>1. TriedUpTo(book, c, n - 1)
    BY <1>1, <1>4 DEF Tried
  <2>2. CASE UNCHANGED <<container, titles, texts>> /\ k \notin DOMAIN projects
    <3>1. DOMAIN projects' = DOMAIN projects /\ projects' = projects /\ texts' = texts
      BY <2>2 DEF container
    <3> QED
      BY <2>1, <2>2, <3>1 DEF TriedUpTo
  <2>3. CASE AddTaskWithText(k, book[c].tasks[n])
    <3>1. /\ k \in DOMAIN projects /\ DOMAIN projects' = DOMAIN projects
          /\ projects'[k] \in AddResults(projects[k])
          /\ texts'[k] = [t \in projects'[k].tasks |->
                             IF t \in projects[k].tasks THEN texts[k][t]
                             ELSE book[c].tasks[n]]
          /\ \A i \in DOMAIN projects :
                i # k => projects'[i] = projects[i] /\ texts'[i] = texts[i]
      BY <1>2, <2>3, TaskAdditionDoes
    <3>2. k + 1 = c
      BY <1>1
    <3> HIDE DEF k
    <3>3. TriedTasks(projects'[k], texts'[k], book[c].tasks, n)
      <4>1. PICK m \in Nat : n = m + 1 /\ m < MaxTasks /\ n - 1 = m
        <5>1. n - 1 \in Nat /\ n - 1 < MaxTasks /\ n = (n - 1) + 1
          BY <1>1, <1>4
        <5> QED
          BY <5>1
      <4>2. TriedTasks(projects[k], texts[k], book[c].tasks, m)
        BY <2>1, <3>1, <3>2, <4>1 DEF TriedUpTo, k
      <4>3. projects[k] \in Projects
        BY <1>2, <3>1 DEF IInv, TypeOK
      <4>4. TriedTasks(projects'[k], texts'[k], book[c].tasks, m + 1)
        BY <3>1, <4>1, <4>2, <4>3, TaskTries
      <4> QED
        BY <4>1, <4>4
    <3>4. ASSUME NEW i \in DOMAIN projects', i # k
          PROVE  Whole(i, projects'[i], texts'[i])
      <4>1. i \in DOMAIN projects /\ projects'[i] = projects[i] /\ texts'[i] = texts[i]
        BY <3>1, <3>4
      <4> QED
        BY <2>1, <3>4, <4>1 DEF TriedUpTo, k
    <3> QED
      BY <3>2, <3>3, <3>4 DEF TriedUpTo, k
  <2> QED
    BY <1>4, <2>2, <2>3 DEF DeserializeInsert
<1> QED
  BY <1>3, <1>4

\* Every step of a load keeps that.
LEMMA TriedStep == FInv /\ Placed /\ Tried /\ [FileNext]_fileVars => Tried'
<1> SUFFICES ASSUME FInv, Placed, Tried, [FileNext]_fileVars PROVE Tried'
  OBVIOUS
<1>1. CASE Idle'
  BY <1>1 DEF Tried
<1>2. ASSUME UNCHANGED <<projects, texts, chunks, at>> PROVE Tried'
  BY <1>2 DEF Tried, TriedUpTo, Idle
<1>3. CASE Edit \/ Restart
  BY <1>1, <1>3 DEF Edit, Idle, Restart, loading
<1>4. CASE Break
  BY <1>2, <1>4 DEF Break, AddProjectHalts, UseStaleRoot, AddTaskHalts,
     RemoveProjectUndefined, Stop, loading
<1>5. CASE Serialize \/ DeserializeUndefined
  BY <1>2, <1>5 DEF Serialize, DeserializeUndefined, RecreateUndefined, Stop,
     container, loading
<1>6. CASE DeserializeRead
  BY <1>6 DEF DeserializeRead, Recreate, Fresh, Tried, TriedUpTo
<1>7. CASE DeserializeInsert /\ ~Idle'
  <2>1. PICK book, c, n : book = chunks /\ c = at.chunk /\ n = at.task
    OBVIOUS
  <2>2. TriedUpTo(book, c, n)'
    BY <1>7, <2>1, InsertTries
  <2>3. /\ chunks' = book /\ c \in Nat /\ n \in Nat
        /\ \/ at'.chunk = c /\ at'.task = n + 1
           \/ at'.chunk = c + 1 /\ at'.task = 0 /\ n = Len(book[c].tasks)
    BY <1>7, <2>1, InsertMoves, InsertionAt DEF DeserializeInsert
  <2>4. CASE at'.chunk = c /\ at'.task = n + 1
    <3>1. at'.task # 0 /\ at'.task - 1 = n
      BY <2>3, <2>4
    <3> QED
      BY <2>2, <2>3, <2>4, <3>1 DEF Tried
  <2>5. CASE at'.chunk = c + 1 /\ at'.task = 0 /\ n = Len(book[c].tasks)
    <3>1. at'.chunk - 1 = c
      BY <2>3, <2>5
    <3> QED
      BY <2>2, <2>3, <2>5, <3>1 DEF Tried
  <2> QED
    BY <2>3, <2>4, <2>5
<1>8. CASE UNCHANGED fileVars
  BY <1>2, <1>8 DEF fileVars, container, loading
<1> QED
  BY <1>1, <1>3, <1>4, <1>5, <1>6, <1>7, <1>8 DEF FileNext

\* The file is there as long as it is loaded.
Loaded == ~Idle => file \ {<<>>} # {}

LEMMA LoadedStep == Loaded /\ [FileNext]_fileVars => Loaded'
<1> SUFFICES ASSUME Loaded, [FileNext]_fileVars, ~Idle' PROVE file' \ {<<>>} # {}
  BY DEF Loaded
<1>1. CASE DeserializeRead
  BY <1>1 DEF DeserializeRead
<1>2. ASSUME UNCHANGED file, ~Idle PROVE file' \ {<<>>} # {}
  BY <1>2 DEF Loaded
<1>3. CASE Edit \/ Break \/ DeserializeUndefined
  BY <1>2, <1>3 DEF Edit, Break, DeserializeUndefined, loading, Idle
<1>4. CASE Serialize \/ Restart
  BY <1>4 DEF Serialize, Restart, loading, Idle
<1>5. CASE DeserializeInsert
  BY <1>2, <1>5 DEF DeserializeInsert
<1>6. CASE UNCHANGED fileVars
  BY <1>2, <1>6 DEF fileVars, loading, Idle
<1> QED
  BY <1>1, <1>3, <1>4, <1>5, <1>6 DEF FileNext

\* Memory with some of the chunks of a book, and some of the tasks of each.
Partial(book) ==
    \A i \in DOMAIN projects :
       /\ i + 1 \in DOMAIN book
       /\ titles[i] = book[i + 1].title
       /\ TriedTasks(projects[i], texts[i], book[i + 1].tasks,
                     Len(book[i + 1].tasks))

LEMMA LastInsertKeepsPart ==
    ASSUME FInv, FInv', Placed, Tried, DeserializeInsert, Idle',
           NEW book, book = chunks
    PROVE  book \in Books /\ Partial(book)'
<1>1. PICK c, n : c = at.chunk /\ n = at.task
  OBVIOUS
<1>2. /\ c = Len(book) /\ n = Len(book[c].tasks)
      /\ c \in Nat /\ c \in 1..Len(book) /\ book \in Books
  BY <1>1, LastInsertion
<1>3. TriedUpTo(book, c, n)' /\ PlacedUpTo(book, c)'
  BY <1>1, InsertTries, InsertPlaces
<1>4. ASSUME NEW i \in DOMAIN projects'
      PROVE  /\ i + 1 \in DOMAIN book
             /\ titles'[i] = book[i + 1].title
             /\ TriedTasks(projects'[i], texts'[i], book[i + 1].tasks,
                           Len(book[i + 1].tasks))
  <2>1. i < c /\ titles'[i] = book[i + 1].title
    BY <1>3 DEF PlacedUpTo
  <2>2. i \in Nat
    BY MaxProjectsAssumption DEF FInv, IInv, TypeOK, ProjectIds
  <2>3. TriedTasks(projects'[i], texts'[i], book[i + 1].tasks,
                   IF i = c - 1 THEN n ELSE Len(book[i + 1].tasks))
    BY <1>3 DEF TriedUpTo
  <2>4. i = c - 1 => i + 1 = c
    BY <1>2
  <2>5. i + 1 \in DOMAIN book
    <3>1. book \in Seq(Chunk) /\ i + 1 \in 1..Len(book)
      BY <1>2, <2>1, <2>2 DEF Books
    <3> QED
      BY <3>1
  <2> QED
    BY <1>2, <2>1, <2>3, <2>4, <2>5
<1> QED
  BY <1>2, <1>4 DEF Partial

-----------------------------------------------------------------------------
(* The book that is saved and loaded *)

\* A part of a sequence, and one sequence behind another.
LEMMA SliceIs ==
    ASSUME NEW T, NEW s \in Seq(T), NEW n \in Nat, n = Len(s), NEW a \in 1..n + 1,
           NEW l \in Nat, a + l - 1 <= n, NEW b, b = a + l - 1,
           NEW r, r = SubSeq(s, a, b)
    PROVE  r \in Seq(T) /\ Len(r) = l /\ \A i \in 1..l : r[i] = s[a + i - 1]
<1>1. \A i \in a..b : s[i] \in T
  OBVIOUS
<1>2. /\ SubSeq(s, a, b) \in Seq(T)
      /\ Len(SubSeq(s, a, b)) = IF a <= b THEN b - a + 1 ELSE 0
      /\ \A i \in 1..b - a + 1 : SubSeq(s, a, b)[i] = s[a + i - 1]
  <2>1. a \in Int /\ b \in Int
    OBVIOUS
  <2> QED
    BY <1>1, <2>1, SubSeqProperties
<1>3. b - a + 1 = l /\ (IF a <= b THEN b - a + 1 ELSE 0) = l
  OBVIOUS
<1> QED
  BY <1>2, <1>3

Join(r, s, m, t, n, T) ==
    /\ r \in Seq(T) /\ Len(r) = m + n
    /\ \A i \in 1..m : r[i] = s[i]
    /\ \A i \in 1..n : r[m + i] = t[i]

LEMMA JoinIs ==
    ASSUME NEW T, NEW s \in Seq(T), NEW m \in Nat, m = Len(s),
           NEW t \in Seq(T), NEW n \in Nat, n = Len(t), NEW r, r = s \o t
    PROVE  Join(r, s, m, t, n, T)
<1>1. /\ r \in Seq(T) /\ Len(r) = m + n
      /\ \A i \in 1..m + n : r[i] = IF i <= m THEN s[i] ELSE t[i - m]
  BY ConcatProperties
<1>2. ASSUME NEW i \in 1..n PROVE r[m + i] = t[i]
  <2>1. PICK j \in 1..m + n : j = m + i /\ ~(j <= m) /\ j - m = i
    OBVIOUS
  <2>2. r[j] = t[j - m]
    BY <1>1, <2>1
  <2> QED
    BY <2>1, <2>2
<1>3. ASSUME NEW i \in 1..m PROVE r[i] = s[i]
  <2>1. i \in 1..m + n /\ i <= m
    OBVIOUS
  <2> QED
    BY <1>1, <2>1
<1> QED
  BY <1>1, <1>2, <1>3 DEF Join

\* Removing what was put somewhere undoes that.
LEMMA PutIsRemoved ==
    ASSUME NEW T, NEW s \in Seq(T), NEW n, n = Len(s), NEW r \in Seq(T), NEW e,
           NEW k, PutAt(r, s, n, k, e)
    PROVE  k \in DOMAIN r /\ r[k] = e /\ s = Saved!RemoveAt(r, k)
<1>1. /\ n \in Nat /\ k \in 1..n + 1 /\ DOMAIN r = 1..n + 1 /\ r[k] = e
      /\ \A i \in 1..k - 1 : r[i] = s[i]
      /\ \A i \in k..n : r[i + 1] = s[i]
  BY DEF PutAt
<1>2. Len(r) = n + 1 /\ e \in T
  BY <1>1
<1>3. PICK p \in Nat, q \in Nat : p = k - 1 /\ q = n + 1 - k /\ k = p + 1 /\ n = p + q
  <2>1. k - 1 \in Nat /\ n + 1 - k \in Nat /\ k = (k - 1) + 1
        /\ n = (k - 1) + (n + 1 - k)
    BY <1>1
  <2> QED
    BY <2>1
<1>4. /\ \A i \in 1..p : r[i] = s[i]
      /\ \A i \in 1..q : r[p + 1 + i] = s[p + i]
  <2>1. \A i \in 1..q : p + i \in k..n /\ p + i + 1 = p + 1 + i
    BY <1>1, <1>3
  <2>2. \A i \in 1..q : r[p + i + 1] = s[p + i]
    BY <1>1, <2>1
  <2> QED
    BY <1>1, <1>3, <2>1, <2>2
<1>5. s = Saved!RemoveAt(r, k)
  <2>1. PICK c, d : c = SubSeq(r, 1, p) /\ d = SubSeq(r, k + 1, n + 1)
    OBVIOUS
  <2>2. PICK n1 \in Nat, k1 \in Nat : n1 = n + 1 /\ k1 = k + 1
    BY <1>1
  <2>3. c \in Seq(T) /\ Len(c) = p /\ \A i \in 1..p : c[i] = r[i]
    <3>1. 1 \in 1..n1 + 1 /\ 1 + p - 1 <= n1 /\ p = 1 + p - 1
      BY <1>1, <1>3, <2>2
    <3>2. /\ c \in Seq(T) /\ Len(c) = p /\ \A i \in 1..p : c[i] = r[1 + i - 1]
      BY <1>2, <2>1, <2>2, <3>1, SliceIs
    <3> QED
      BY <3>2
  <2>4. d \in Seq(T) /\ Len(d) = q /\ \A i \in 1..q : d[i] = r[p + 1 + i]
    <3>1. k1 \in 1..n1 + 1 /\ k1 + q - 1 <= n1 /\ n1 = k1 + q - 1
      BY <1>1, <1>3, <2>2
    <3>2. d \in Seq(T) /\ Len(d) = q /\ \A i \in 1..q : d[i] = r[k1 + i - 1]
      <4>1. d = SubSeq(r, k1, n1) /\ r \in Seq(T)
        BY <1>2, <2>1, <2>2
      <4>2. n1 = Len(r)
        BY <1>2, <2>2
      <4> QED
        BY ONLY <1>1, <2>2, <3>1, <4>1, <4>2, SliceIs
    <3>3. \A i \in 1..q : k1 + i - 1 = p + 1 + i
      BY <1>3, <2>2
    <3> QED
      BY <3>2, <3>3
  <2>5. PICK f : f = c \o d
    OBVIOUS
  <2>6. /\ f \in Seq(T) /\ Len(f) = p + q
        /\ \A i \in 1..p : f[i] = c[i]
        /\ \A i \in 1..q : f[p + i] = d[i]
    <3>1. Join(f, c, p, d, q, T)
      BY <2>3, <2>4, <2>5, JoinIs
    <3> QED
      BY <3>1 DEF Join
  <2>7. ASSUME NEW i \in 1..n PROVE f[i] = s[i]
    <3>1. CASE i \in 1..p
      BY <1>4, <2>3, <2>6, <3>1
    <3>2. CASE i > p
      <4>1. PICK j \in 1..q : i = p + j
        <5>1. i - p \in 1..q /\ i = p + (i - p)
          BY <1>3, <3>2
        <5> QED
          BY <5>1
      <4> QED
        BY <1>4, <2>4, <2>6, <4>1
    <3> QED
      BY <3>1, <3>2
  <2>8. f = s
    BY <1>3, <2>6, <2>7, SeqEqual
  <2>9. Saved!RemoveAt(r, k) = f
    BY <1>2, <1>3, <2>1, <2>5 DEF Saved!RemoveAt
  <2> QED
    BY <2>8, <2>9
<1>11. k \in DOMAIN r
  BY <1>1
<1> QED
  BY <1>1, <1>5, <1>11

\* What to_vector collects, spelled out: no counter hides a project or a task.
TextsOf(p, names) ==
    LET order == Ascending({t \in p.tasks : t < MaxTasks})
    IN [j \in DOMAIN order |-> names[order[j]]]

BookOf(ps, ts, xs) ==
    LET order == Ascending(DOMAIN ps)
    IN [k \in DOMAIN order |-> [title |-> ts[order[k]],
                                tasks |-> TextsOf(ps[order[k]], xs[order[k]])]]

LEMMA CollectsAll == IInv => Chunks = BookOf(projects, titles, texts)
<1> SUFFICES ASSUME IInv PROVE Chunks = BookOf(projects, titles, texts)
  OBVIOUS
<1> DEFINE order == Ascending(ListedProjects)
           taskOrder(i) == Ascending(ListedTasks(projects[i]))
<1>1. order = Ascending(DOMAIN projects)
  BY InvListsProjects DEF ProjectsListed
<1>2. order \in [DOMAIN order -> DOMAIN projects]
  <2>1. DOMAIN projects \in SUBSET Nat /\ IsFiniteSet(DOMAIN projects)
    <3>1. DOMAIN projects \in SUBSET ProjectIds
      BY DEF IInv, TypeOK
    <3> QED
      BY <3>1, ProjectIdsFinite, MaxProjectsAssumption DEF ProjectIds
  <2>2. Ascending(DOMAIN projects)
           \in [1..Cardinality(DOMAIN projects) -> DOMAIN projects]
    BY <2>1, AscendingType
  <2> QED
    BY <1>1, <2>2
<1>3. \A i \in DOMAIN projects :
         [j \in DOMAIN taskOrder(i) |-> texts[i][taskOrder(i)[j]]]
            = TextsOf(projects[i], texts[i])
  BY InvListsTasks DEF TasksListed, TextsOf
<1> DEFINE chunk(i) == [title |-> titles[i],
                        tasks |-> [j \in DOMAIN taskOrder(i) |->
                                      texts[i][taskOrder(i)[j]]]]
<1>4. Chunks = [k \in DOMAIN order |-> chunk(order[k])]
  BY DEF Chunks
<1>5. \A i \in DOMAIN projects :
         chunk(i) = [title |-> titles[i], tasks |-> TextsOf(projects[i], texts[i])]
  BY <1>3
<1>6. BookOf(projects, titles, texts)
         = [k \in DOMAIN order |->
               [title |-> titles[order[k]],
                tasks |-> TextsOf(projects[order[k]], texts[order[k]])]]
  BY <1>1 DEF BookOf
<1> HIDE DEF chunk, order
<1>7. \A k \in DOMAIN order :
         chunk(order[k]) = [title |-> titles[order[k]],
                            tasks |-> TextsOf(projects[order[k]], texts[order[k]])]
  BY <1>2, <1>5
<1> QED
  BY <1>4, <1>6, <1>7

\* Two sets of projects that differ by one collect into books that differ by
\* its chunk.
LEMMA BookPut ==
    ASSUME NEW ps, NEW ts, NEW xs, NEW qs, NEW us, NEW ys,
           DOMAIN ps \in SUBSET Nat, IsFiniteSet(DOMAIN ps),
           NEW x \in Nat \ DOMAIN ps, DOMAIN qs = DOMAIN ps \cup {x},
           \A i \in DOMAIN ps : qs[i] = ps[i] /\ us[i] = ts[i] /\ ys[i] = xs[i]
    PROVE  \E k : PutAt(BookOf(qs, us, ys), BookOf(ps, ts, xs),
                        Len(BookOf(ps, ts, xs)), k,
                        [title |-> us[x], tasks |-> TextsOf(qs[x], ys[x])])
<1> DEFINE S == DOMAIN ps
           old(i) == [title |-> ts[i], tasks |-> TextsOf(ps[i], xs[i])]
           new(i) == [title |-> us[i], tasks |-> TextsOf(qs[i], ys[i])]
<1>1. PICK n : n = Cardinality(S)
  OBVIOUS
<1>2. PICK a \in [1..n -> S] : a = Ascending(S) /\ n \in Nat
  BY <1>1, AscendingPlaces
<1>3. PICK b : b = Ascending(DOMAIN qs)
  OBVIOUS
<1>4. PICK k : PutAt(b, a, n, k, x)
  BY <1>1, <1>2, <1>3, AscendingPut
<1>5. \A i \in S : new(i) = old(i)
  OBVIOUS
<1>6. BookOf(ps, ts, xs) = [l \in 1..n |-> old(a[l])]
  BY <1>2 DEF BookOf
<1>7. BookOf(qs, us, ys) = [l \in DOMAIN b |-> new(b[l])]
  BY <1>3 DEF BookOf
<1> HIDE DEF old, new, S
<1>8. PICK f, g : /\ f = [l \in 1..n |-> old(a[l])]
                  /\ g = [l \in DOMAIN b |-> new(b[l])]
  OBVIOUS
<1>9. DOMAIN f = 1..n /\ Len(f) = n
  BY <1>2, <1>8
<1>10. PutAt(g, f, n, k, new(x))
  <2>1. /\ k \in 1..n + 1 /\ DOMAIN b = 1..n + 1 /\ b[k] = x
        /\ \A i \in 1..k - 1 : b[i] = a[i]
        /\ \A i \in k..n : b[i + 1] = a[i]
    BY <1>4 DEF PutAt
  <2>2. \A i \in 1..n + 1 : g[i] = new(b[i])
    BY <1>8, <2>1
  <2>3. \A i \in 1..n : f[i] = new(a[i])
    BY <1>2, <1>5, <1>8
  <2>4. DOMAIN g = 1..n + 1 /\ g[k] = new(x)
    BY <1>8, <2>1
  <2>5. ASSUME NEW i \in 1..k - 1 PROVE g[i] = f[i]
    <3>1. i \in 1..n + 1 /\ i \in 1..n
      BY <1>2, <2>1
    <3> QED
      BY <2>1, <2>2, <2>3, <3>1
  <2>6. ASSUME NEW i \in k..n PROVE g[i + 1] = f[i]
    <3>1. i + 1 \in 1..n + 1 /\ i \in 1..n
      BY <1>2, <2>1
    <3> QED
      BY <2>1, <2>2, <2>3, <3>1
  <2> QED
    BY <2>1, <2>4, <2>5, <2>6 DEF PutAt
<1> QED
  BY <1>6, <1>7, <1>8, <1>9, <1>10 DEF new

\* A project with one task more ...
LEMMA TextsPut ==
    ASSUME NEW p, NEW names, NEW q, NEW named, p.tasks \in SUBSET Garbage,
           NEW x \in 0..MaxTasks - 1, x \notin p.tasks, q.tasks = p.tasks \cup {x},
           \A t \in p.tasks : named[t] = names[t]
    PROVE  \E k : PutAt(TextsOf(q, named), TextsOf(p, names),
                        Len(TextsOf(p, names)), k, named[x])
<1> DEFINE S == {t \in p.tasks : t < MaxTasks}
<1>1. /\ S \in SUBSET Nat /\ IsFiniteSet(S) /\ x \in Nat \ S
      /\ {t \in q.tasks : t < MaxTasks} = S \cup {x}
  <2>1. MaxTasks \in Nat /\ S \in SUBSET Garbage
    BY MaxTasksAssumption
  <2>2. x < MaxTasks
    BY <2>1
  <2>3. S \in SUBSET Nat
    BY <2>1 DEF Garbage
  <2> QED
    BY <2>1, <2>2, <2>3, TasksFinite
<1>2. \A t \in S : named[t] = names[t]
  OBVIOUS
<1>3. TextsOf(p, names) = [j \in DOMAIN Ascending(S) |-> names[Ascending(S)[j]]]
  BY DEF TextsOf
<1> HIDE DEF S
<1>4. PICK n : n = Cardinality(S)
  OBVIOUS
<1>5. PICK a \in [1..n -> S] : a = Ascending(S) /\ n \in Nat
  BY <1>1, <1>4, AscendingPlaces
<1>6. PICK b : b = Ascending(S \cup {x})
  OBVIOUS
<1>7. PICK k : PutAt(b, a, n, k, x)
  BY <1>1, <1>4, <1>5, <1>6, AscendingPut
<1>8. PICK f, g : /\ f = [j \in 1..n |-> names[a[j]]]
                  /\ g = [j \in DOMAIN b |-> named[b[j]]]
  OBVIOUS
<1>9. TextsOf(p, names) = f /\ TextsOf(q, named) = g
  BY <1>1, <1>3, <1>5, <1>6, <1>8 DEF TextsOf
<1>10. DOMAIN f = 1..n /\ Len(f) = n
  BY <1>5, <1>8
<1>11. PutAt(g, f, n, k, named[x])
  <2>1. /\ k \in 1..n + 1 /\ DOMAIN b = 1..n + 1 /\ b[k] = x
        /\ \A i \in 1..k - 1 : b[i] = a[i]
        /\ \A i \in k..n : b[i + 1] = a[i]
    BY <1>7 DEF PutAt
  <2>2. \A i \in 1..n + 1 : g[i] = named[b[i]]
    BY <1>8, <2>1
  <2>3. \A i \in 1..n : f[i] = named[a[i]]
    BY <1>2, <1>5, <1>8
  <2>4. DOMAIN g = 1..n + 1 /\ g[k] = named[x]
    BY <1>8, <2>1
  <2>5. ASSUME NEW i \in 1..k - 1 PROVE g[i] = f[i]
    <3>1. i \in 1..n + 1 /\ i \in 1..n
      BY <1>5, <2>1
    <3> QED
      BY <2>1, <2>2, <2>3, <3>1
  <2>6. ASSUME NEW i \in k..n PROVE g[i + 1] = f[i]
    <3>1. i + 1 \in 1..n + 1 /\ i \in 1..n
      BY <1>5, <2>1
    <3> QED
      BY <2>1, <2>2, <2>3, <3>1
  <2> QED
    BY <2>1, <2>4, <2>5, <2>6 DEF PutAt
<1> QED
  BY <1>9, <1>10, <1>11

\* ... and with fewer.
LEMMA TextsLeft ==
    ASSUME NEW p, NEW names, NEW q, NEW named, p.tasks \in SUBSET Garbage,
           q.tasks \in SUBSET p.tasks, \A t \in q.tasks : named[t] = names[t]
    PROVE  Saved!LeftOf(TextsOf(q, named), TextsOf(p, names))
<1> DEFINE S == {t \in p.tasks : t < MaxTasks}
           U == {t \in q.tasks : t < MaxTasks}
<1>1. S \in SUBSET Nat /\ IsFiniteSet(S) /\ U \in SUBSET S
  <2>1. MaxTasks \in Nat /\ S \in SUBSET Garbage /\ U \in SUBSET S
    BY MaxTasksAssumption
  <2>2. S \in SUBSET Nat
    BY <2>1 DEF Garbage
  <2> QED
    BY <2>1, <2>2, TasksFinite
<1>2. \A t \in U : named[t] = names[t]
  OBVIOUS
<1>3. /\ TextsOf(p, names) = [j \in DOMAIN Ascending(S) |-> names[Ascending(S)[j]]]
      /\ TextsOf(q, named) = [j \in DOMAIN Ascending(U) |-> named[Ascending(U)[j]]]
  BY DEF TextsOf
<1> HIDE DEF S, U
<1>4. PICK n, m : n = Cardinality(S) /\ m = Cardinality(U)
  OBVIOUS
<1>5. IsFiniteSet(U) /\ U \in SUBSET Nat
  BY <1>1, FS_Subset
<1>6. PICK a \in [1..n -> S], b \in [1..m -> U] :
         a = Ascending(S) /\ b = Ascending(U)
  BY <1>1, <1>4, <1>5, AscendingPlaces
<1>7. PICK place \in [1..m -> 1..n] :
         /\ \A i, j \in 1..m : i < j => place[i] < place[j]
         /\ \A j \in 1..m : b[j] = a[place[j]]
  <2>1. KeepsOrder(b, m, a, n)
    BY <1>1, <1>4, <1>6, AscendingPart
  <2> QED
    BY <2>1 DEF KeepsOrder
<1>8. PICK f, g : /\ f = [j \in 1..n |-> names[a[j]]]
                  /\ g = [j \in 1..m |-> named[b[j]]]
  OBVIOUS
<1>9. TextsOf(p, names) = f /\ TextsOf(q, named) = g
  BY <1>3, <1>6, <1>8
<1>10. DOMAIN f = 1..n /\ DOMAIN g = 1..m
  BY <1>8
<1>11. \A j \in 1..m : g[j] = f[place[j]]
  BY <1>2, <1>6, <1>7, <1>8
<1>12. Saved!LeftOf(g, f)
  BY <1>7, <1>10, <1>11 DEF Saved!LeftOf
<1> QED
  BY <1>9, <1>12

\* Of the tasks that were tried those that are there are left of the chunk ...
LEMMA TriedLeft ==
    ASSUME NEW tasks \in Seq(AnyText), Len(tasks) <= MaxTasks,
           NEW p, NEW names, TriedTasks(p, names, tasks, Len(tasks))
    PROVE  Saved!LeftOf(TextsOf(p, names), tasks)
<1>1. PICK n \in Nat : n = Len(tasks) /\ DOMAIN tasks = 1..n /\ n <= MaxTasks
  OBVIOUS
<1>2. PICK S : S = {t \in p.tasks : t < MaxTasks}
  OBVIOUS
<1>3. \A t \in S : t \in 0..n - 1 /\ names[t] = tasks[t + 1]
  BY <1>1, <1>2 DEF TriedTasks
<1>4. S \in SUBSET Nat /\ IsFiniteSet(S)
  <2>1. PICK T : T = 0..n - 1
    OBVIOUS
  <2>2. IsFiniteSet(T) /\ T \in SUBSET Nat
    BY <1>1, <2>1, FS_Interval
  <2>3. S \in SUBSET T
    BY <1>3, <2>1
  <2> QED
    BY <2>2, <2>3, FS_Subset
<1>5. PICK m : m = Cardinality(S)
  OBVIOUS
<1>6. PICK a \in [1..m -> S] :
         /\ a = Ascending(S) /\ m \in Nat
         /\ \A i, j \in 1..m : i < j => a[i] < a[j]
  BY <1>4, <1>5, AscendingPlaces, AscendingRises
<1>7. PICK g : g = [j \in 1..m |-> names[a[j]]]
  OBVIOUS
<1>8. TextsOf(p, names) = g
  BY <1>2, <1>6, <1>7 DEF TextsOf
<1>9. PICK place : place = [j \in 1..m |-> a[j] + 1]
  OBVIOUS
<1>10. place \in [1..m -> 1..n]
  <2>1. \A j \in 1..m : a[j] \in 0..n - 1
    BY <1>3, <1>6
  <2> QED
    BY <1>1, <1>9, <2>1
<1>11. \A i, j \in 1..m : i < j => place[i] < place[j]
  <2>1. \A j \in 1..m : a[j] \in Int
    BY <1>3, <1>6
  <2> QED
    BY <1>6, <1>9, <2>1
<1>12. \A j \in 1..m : g[j] = tasks[place[j]]
  BY <1>3, <1>6, <1>7, <1>9
<1>13. DOMAIN g = 1..m
  BY <1>7
<1>14. Saved!LeftOf(g, tasks)
  BY <1>1, <1>10, <1>11, <1>12, <1>13 DEF Saved!LeftOf
<1> QED
  BY <1>8, <1>14

\* There are finitely many projects.
LEMMA ProjectsFinite ==
    ASSUME IInv PROVE DOMAIN projects \in SUBSET Nat /\ IsFiniteSet(DOMAIN projects)
<1>1. DOMAIN projects \in SUBSET ProjectIds
  BY DEF IInv, TypeOK
<1> QED
  BY <1>1, ProjectIdsFinite, MaxProjectsAssumption DEF ProjectIds

\* ... and so are the projects of a book.
LEMMA PartialCollects ==
    IInv => \A book \in Books :
               Partial(book) => Saved!PartOf(BookOf(projects, titles, texts), book)
<1> SUFFICES ASSUME IInv, NEW book \in Books, Partial(book)
             PROVE  Saved!PartOf(BookOf(projects, titles, texts), book)
  OBVIOUS
<1>1. DOMAIN projects \in SUBSET Nat /\ IsFiniteSet(DOMAIN projects)
  BY ProjectsFinite
<1>2. PICK m : m = Cardinality(DOMAIN projects)
  OBVIOUS
<1>3. PICK a \in [1..m -> DOMAIN projects] :
         /\ a = Ascending(DOMAIN projects) /\ m \in Nat
         /\ \A i, j \in 1..m : i < j => a[i] < a[j]
  BY <1>1, <1>2, AscendingPlaces, AscendingRises
<1>4. PICK g : g = [k \in 1..m |->
                      [title |-> titles[a[k]],
                       tasks |-> TextsOf(projects[a[k]], texts[a[k]])]]
  OBVIOUS
<1>5. BookOf(projects, titles, texts) = g
  BY <1>3, <1>4 DEF BookOf
<1>6. PICK place : place = [k \in 1..m |-> a[k] + 1]
  OBVIOUS
<1>7. ASSUME NEW k \in 1..m
      PROVE  /\ place[k] \in DOMAIN book
             /\ g[k].title = book[place[k]].title
             /\ Saved!LeftOf(g[k].tasks, book[place[k]].tasks)
  <2>1. PICK i \in DOMAIN projects : i = a[k]
    BY <1>3
  <2>2. PICK l : l = i + 1 /\ l = place[k]
    BY <1>6, <2>1
  <2>3. /\ l \in DOMAIN book /\ titles[i] = book[l].title
        /\ TriedTasks(projects[i], texts[i], book[l].tasks, Len(book[l].tasks))
    BY <2>2 DEF Partial
  <2>4. book[l].tasks \in Seq(AnyText) /\ Len(book[l].tasks) <= MaxTasks
    <3>1. book \in Seq(Chunk) /\ Len(book[l].tasks) <= MaxTasks
      BY <2>3 DEF Books
    <3>2. book[l] \in Chunk
      BY <2>3, <3>1
    <3> QED
      BY <3>1, <3>2, ChunkParts
  <2>5. Saved!LeftOf(TextsOf(projects[i], texts[i]), book[l].tasks)
    BY <2>3, <2>4, TriedLeft
  <2>6. /\ g[k].title = titles[i]
        /\ g[k].tasks = TextsOf(projects[i], texts[i])
    BY <1>4, <2>1
  <2> QED
    BY <2>2, <2>3, <2>5, <2>6
<1>8. place \in [1..m -> DOMAIN book] /\ DOMAIN g = 1..m
  BY <1>4, <1>6, <1>7
<1>9. \A i, k \in 1..m : i < k => place[i] < place[k]
  <2>1. \A k \in 1..m : a[k] \in Nat
    BY <1>1, <1>3
  <2> QED
    BY <1>3, <1>6, <2>1
<1>10. Saved!PartOf(g, book)
  BY <1>7, <1>8, <1>9 DEF Saved!PartOf
<1> QED
  BY <1>5, <1>10

\* The book in the words of the lemmas below.
Collected == Chunks \in Books /\ Chunks = BookOf(projects, titles, texts)

LEMMA CollectedInv == FInv => Collected
BY ChunksType, CollectsAll DEF FInv, Collected

\* Only the tasks of one chunk are others.
Changed(r, s, old, new) ==
    \E k \in DOMAIN s : s[k].tasks = old /\ r = [s EXCEPT ![k].tasks = new]

LEMMA BookChanges ==
    ASSUME NEW ps, NEW ts, NEW xs, NEW qs, NEW ys,
           DOMAIN ps \in SUBSET Nat, IsFiniteSet(DOMAIN ps),
           DOMAIN qs = DOMAIN ps, NEW i \in DOMAIN ps,
           \A j \in DOMAIN ps : j # i => qs[j] = ps[j] /\ ys[j] = xs[j]
    PROVE  Changed(BookOf(qs, ts, ys), BookOf(ps, ts, xs),
                   TextsOf(ps[i], xs[i]), TextsOf(qs[i], ys[i]))
<1> DEFINE S == DOMAIN ps
           old(j) == [title |-> ts[j], tasks |-> TextsOf(ps[j], xs[j])]
           new(j) == [title |-> ts[j], tasks |-> TextsOf(qs[j], ys[j])]
<1>1. PICK n : n = Cardinality(S)
  OBVIOUS
<1>2. PICK a \in [1..n -> S] :
         /\ a = Ascending(S) /\ n \in Nat
         /\ \A l \in 1..n : Cardinality(Below(S, a[l])) = l - 1
  BY <1>1, AscendingPlaces
<1>3. PICK k \in 1..n : a[k] = i
  <2>1. Cardinality(Below(S, i)) \in Nat
    BY BelowGrows
  <2>2. PICK k \in Nat : k = Cardinality(Below(S, i)) + 1
    BY <2>1
  <2>3. Cardinality(Below(S, i)) = k - 1
    BY <2>1, <2>2
  <2>4. k \in 1..n /\ Ascending(S)[k] = i
    BY <1>1, <2>3, AscendingMeets
  <2> QED
    BY <1>2, <2>4
<1>4. ASSUME NEW l \in 1..n, l # k PROVE a[l] \in S /\ a[l] # i
  BY <1>2, <1>3, <1>4
<1>5. \A j \in S : j # i => new(j) = old(j)
  OBVIOUS
<1>6. BookOf(ps, ts, xs) = [l \in 1..n |-> old(a[l])]
  BY <1>2 DEF BookOf
<1>7. BookOf(qs, ts, ys) = [l \in 1..n |-> new(a[l])]
  BY <1>2 DEF BookOf
<1>8. PICK f, g : /\ f = [l \in 1..n |-> old(a[l])]
                  /\ g = [l \in 1..n |-> new(a[l])]
  OBVIOUS
<1>9. /\ k \in DOMAIN f /\ f[k].tasks = TextsOf(ps[i], xs[i])
      /\ [f[k] EXCEPT !.tasks = TextsOf(qs[i], ys[i])] = new(i)
  <2>1. k \in DOMAIN f /\ f[k] = old(i)
    BY <1>3, <1>8
  <2> QED
    BY <2>1
<1>10. g = [f EXCEPT ![k].tasks = TextsOf(qs[i], ys[i])]
  <2> HIDE DEF old, new, S
  <2>1. DOMAIN f = 1..n /\ DOMAIN g = 1..n
    BY <1>8
  <2>2. g[k] = new(i)
    BY <1>3, <1>8
  <2>3. \A l \in 1..n : l # k => g[l] = f[l]
    BY <1>4, <1>5, <1>8
  <2>4. g = [l \in 1..n |-> g[l]]
    BY <1>8
  <2> QED
    BY <1>9, <2>1, <2>2, <2>3, <2>4
<1>11. BookOf(ps, ts, xs) = f /\ BookOf(qs, ts, ys) = g
  BY <1>6, <1>7, <1>8
<1>12. Changed(g, f, TextsOf(ps[i], xs[i]), TextsOf(qs[i], ys[i]))
  BY <1>9, <1>10 DEF Changed
<1> QED
  BY <1>11, <1>12

\* Without ids, or projects, there is nothing to collect.
LEMMA NoIds == DOMAIN Ascending({}) = {}
BY FS_EmptySet DEF Ascending

LEMMA NothingCollected ==
    ASSUME NEW ps, NEW ts, NEW xs, DOMAIN ps = {} PROVE BookOf(ps, ts, xs) = <<>>
<1>1. PICK f : f = Ascending({}) /\ DOMAIN f = {}
  BY NoIds
<1>2. BookOf(ps, ts, xs) = [k \in DOMAIN f |->
         [title |-> ts[f[k]], tasks |-> TextsOf(ps[f[k]], xs[f[k]])]]
  BY <1>1 DEF BookOf
<1>3. PICK b : b = BookOf(ps, ts, xs) /\ DOMAIN b = {}
  BY <1>1, <1>2
<1>4. b = [k \in {} |-> b[k]]
  BY <1>1, <1>2, <1>3
<1> QED
  BY <1>3, <1>4

\* A project that is added begins a chunk ...
LEMMA NoTexts == TextsOf(NewProject, << >>) = <<>>
<1>1. {t \in NewProject.tasks : t < MaxTasks} = {}
  BY DEF NewProject
<1>2. DOMAIN Ascending({}) = {}
  BY NoIds
<1>3. PICK f : f = Ascending({}) /\ DOMAIN f = {}
  BY <1>2
<1>4. TextsOf(NewProject, << >>) = [j \in DOMAIN f |-> << >>[f[j]]]
  BY <1>1, <1>3 DEF TextsOf
<1>5. \A g : DOMAIN g = {} => [j \in DOMAIN g |-> << >>[g[j]]] = <<>>
  OBVIOUS
<1> QED
  BY <1>3, <1>4, <1>5

\* (the same projects, titles and texts make the same book)
LEMMA BookSame ==
    ASSUME NEW ps, NEW ts, NEW xs, NEW qs, NEW us, NEW ys,
           DOMAIN ps \in SUBSET Nat, IsFiniteSet(DOMAIN ps), DOMAIN qs = DOMAIN ps,
           \A i \in DOMAIN ps : qs[i] = ps[i] /\ us[i] = ts[i] /\ ys[i] = xs[i]
    PROVE  BookOf(qs, us, ys) = BookOf(ps, ts, xs)
<1>1. PICK n : n = Cardinality(DOMAIN ps)
  OBVIOUS
<1>2. PICK a \in [1..n -> DOMAIN ps] : a = Ascending(DOMAIN ps)
  BY <1>1, AscendingPlaces
<1>3. /\ BookOf(ps, ts, xs) = [l \in 1..n |->
             [title |-> ts[a[l]], tasks |-> TextsOf(ps[a[l]], xs[a[l]])]]
      /\ BookOf(qs, us, ys) = [l \in 1..n |->
             [title |-> us[a[l]], tasks |-> TextsOf(qs[a[l]], ys[a[l]])]]
  BY <1>2 DEF BookOf
<1>4. \A l \in 1..n : /\ us[a[l]] = ts[a[l]]
                      /\ TextsOf(qs[a[l]], ys[a[l]]) = TextsOf(ps[a[l]], xs[a[l]])
  <2>1. \A l \in 1..n : a[l] \in DOMAIN ps
    BY <1>2
  <2> QED
    BY <2>1
<1> QED
  BY <1>3, <1>4

LEMMA AddBegins ==
    ASSUME FInv, Collected, Collected', NEW text, AddWithText(text),
           NEW b, b = Chunks, NEW d, d = Chunks'
    PROVE  \/ /\ Len(d) > Len(b)
              /\ \E k \in DOMAIN d : /\ d[k].title = text /\ d[k].tasks = <<>>
                                     /\ b = Saved!RemoveAt(d, k)
           \/ d = b
           \/ d = <<>>
<1>1. IInv /\ ids \in IDPools(MaxProjects) /\ PoolSound(ids, DOMAIN projects)
      /\ MaxProjects \in Nat
  BY MaxProjectsAssumption DEF FInv, IInv, TypeOK, ProjectIdsSound
<1>2. PICK x : x = NextID(ids)
  OBVIOUS
<1>3. x \in Nat \ DOMAIN projects
  <2>1. ~Exhausted(ids)
    BY DEF AddWithText, AddProject
  <2>2. x \in 0..MaxProjects - 1 /\ x \notin DOMAIN projects
    BY <1>1, <1>2, <2>1, NextSound
  <2> QED
    BY <1>1, <2>2
<1>4. DOMAIN projects' \in {DOMAIN projects \cup {x}, DOMAIN projects, {}}
  <2>1. DOMAIN projects' \in InsertOutcomes(DOMAIN projects, x)
    BY <1>2, AdditionDoes
  <2> QED
    BY <2>1 DEF InsertOutcomes
<1>5. /\ x \in DOMAIN projects' => /\ projects'[x] = NewProject
                                   /\ titles'[x] = text /\ texts'[x] = << >>
      /\ \A i \in DOMAIN projects \cap DOMAIN projects' :
            projects'[i] = projects[i] /\ titles'[i] = titles[i] /\ texts'[i] = texts[i]
  BY <1>2, <1>3, AdditionDoes
<1>6. PICK ps, ts, xs, qs, us, ys :
         /\ ps = projects /\ ts = titles /\ xs = texts
         /\ qs = projects' /\ us = titles' /\ ys = texts'
  OBVIOUS
<1>7. b = BookOf(ps, ts, xs) /\ d = BookOf(qs, us, ys) /\ b \in Books /\ d \in Books
  BY <1>6 DEF Collected
<1>8. DOMAIN ps \in SUBSET Nat /\ IsFiniteSet(DOMAIN ps)
  BY <1>1, <1>6, ProjectsFinite
<1>9. CASE DOMAIN projects' = DOMAIN projects \cup {x}
  <2>1. qs[x] = NewProject /\ us[x] = text /\ ys[x] = << >>
    BY <1>5, <1>6, <1>9
  <2>2. /\ DOMAIN qs = DOMAIN ps \cup {x}
        /\ \A i \in DOMAIN ps : qs[i] = ps[i] /\ us[i] = ts[i] /\ ys[i] = xs[i]
    BY <1>5, <1>6, <1>9
  <2>3. \E k : PutAt(BookOf(qs, us, ys), BookOf(ps, ts, xs), Len(BookOf(ps, ts, xs)),
                     k, [title |-> us[x], tasks |-> TextsOf(qs[x], ys[x])])
    BY <1>3, <1>6, <1>8, <2>2, BookPut
  <2>4. PICK k, e : PutAt(d, b, Len(b), k, e) /\ e = [title |-> text, tasks |-> <<>>]
    BY <1>7, <2>1, <2>3, NoTexts
  <2>5. b \in Seq(Chunk) /\ d \in Seq(Chunk)
    BY <1>7 DEF Books
  <2>6. k \in DOMAIN d /\ b = Saved!RemoveAt(d, k) /\ d[k] = e
    BY <2>4, <2>5, PutIsRemoved
  <2>7. Len(d) > Len(b)
    <3>1. DOMAIN d = 1..Len(b) + 1 /\ Len(b) \in Nat /\ Len(d) \in Nat
      BY <2>4, <2>5 DEF PutAt
    <3> QED
      BY <2>5, <3>1
  <2> QED
    BY <2>4, <2>6, <2>7
<1>10. CASE DOMAIN projects' = DOMAIN projects
  <2>1. /\ DOMAIN qs = DOMAIN ps
        /\ \A i \in DOMAIN ps : qs[i] = ps[i] /\ us[i] = ts[i] /\ ys[i] = xs[i]
    BY <1>5, <1>6, <1>10
  <2> QED
    BY <1>7, <1>8, <2>1, BookSame
<1>11. CASE DOMAIN projects' = {}
  <2>1. DOMAIN qs = {}
    BY <1>6, <1>11
  <2> QED
    BY <1>7, <2>1, NothingCollected
<1> QED
  BY <1>4, <1>9, <1>10, <1>11

\* ... and one that is removed ends its own.
LEMMA RemoveEnds ==
    ASSUME FInv, Collected, Collected', NEW i, RemoveProject(i), KeepTexts,
           NEW b, b = Chunks, NEW d, d = Chunks'
    PROVE  Len(d) < Len(b) /\ \E k \in DOMAIN b : d = Saved!RemoveAt(b, k)
<1>1. IInv /\ TextsBelong
  BY DEF FInv
<1>2. /\ DOMAIN projects' = DOMAIN projects \ {i} /\ i \in DOMAIN projects
      /\ \A k \in DOMAIN projects' : projects'[k] = projects[k]
  BY DEF RemoveProject
<1>3. ASSUME NEW k \in DOMAIN projects'
      PROVE  titles'[k] = titles[k] /\ texts'[k] = texts[k]
  <2>1. texts[k] \in [projects[k].tasks -> AnyText]
    BY <1>1, <1>2 DEF TextsBelong
  <2> QED
    BY <1>2, <2>1 DEF KeepTexts
<1>4. PICK ps, ts, xs, qs, us, ys :
         /\ ps = projects' /\ ts = titles' /\ xs = texts'
         /\ qs = projects /\ us = titles /\ ys = texts
  OBVIOUS
<1>5. d = BookOf(ps, ts, xs) /\ b = BookOf(qs, us, ys) /\ b \in Books /\ d \in Books
  BY <1>4 DEF Collected
<1>6. \E k : PutAt(BookOf(qs, us, ys), BookOf(ps, ts, xs), Len(BookOf(ps, ts, xs)), k,
                   [title |-> us[i], tasks |-> TextsOf(qs[i], ys[i])])
  <2>1. DOMAIN qs \in SUBSET Nat /\ IsFiniteSet(DOMAIN qs)
    BY <1>1, <1>4, ProjectsFinite
  <2>2. DOMAIN ps \in SUBSET Nat /\ IsFiniteSet(DOMAIN ps) /\ i \in Nat \ DOMAIN ps
    BY <1>2, <1>4, <2>1, FS_Subset
  <2>3. DOMAIN qs = DOMAIN ps \cup {i}
    BY <1>2, <1>4
  <2> QED
    BY <1>2, <1>3, <1>4, <2>2, <2>3, BookPut
<1>7. PICK k, e : PutAt(b, d, Len(d), k, e)
  BY <1>5, <1>6
<1>8. b \in Seq(Chunk) /\ d \in Seq(Chunk)
  BY <1>5 DEF Books
<1>9. k \in DOMAIN b /\ d = Saved!RemoveAt(b, k)
  BY <1>7, <1>8, PutIsRemoved
<1>10. Len(d) < Len(b)
  <2>1. DOMAIN b = 1..Len(d) + 1 /\ Len(b) \in Nat /\ Len(d) \in Nat
    BY <1>7, <1>8 DEF PutAt
  <2> QED
    BY <1>8, <2>1
<1> QED
  BY <1>9, <1>10

\* A task that is added begins one, unless its id is that of another task or
\* no valid one; a failed insertion loses it, or all tasks of its project.
LEMMA AddResultsGrow ==
    ASSUME NEW p \in Projects, NEW q \in AddResults(p)
    PROVE  \E v \in Garbage : q.tasks \in {p.tasks \cup {v}, p.tasks, {}}
<1>1. p.ids \in IDPools(MaxTasks) /\ MaxTasks \in Nat
  BY MaxTasksAssumption DEF Projects
<1>2. ASSUME NEW pool, NEW v, q \in Inserted(p, pool, v)
      PROVE  q.tasks \in {p.tasks \cup {v}, p.tasks, {}}
  <2>1. PICK k \in InsertOutcomes(p.tasks, v) :
           q = [p EXCEPT !.tasks = k, !.ids = pool, !.count = @ + 1]
    BY <1>2 DEF Inserted
  <2>2. k \in {p.tasks \cup {v}, p.tasks, {}}
    BY <2>1 DEF InsertOutcomes
  <2> QED
    BY <2>1, <2>2 DEF Projects
<1>3. CASE Exhausted(p.ids)
  <2>1. PICK v \in Garbage : q \in Inserted(p, p.ids, v)
    BY <1>3 DEF AddResults
  <2> QED
    BY <1>2, <2>1
<1>4. CASE ~Exhausted(p.ids)
  <2>1. q \in Inserted(p, AfterNext(p.ids), NextID(p.ids))
    BY <1>4 DEF AddResults
  <2>2. NextID(p.ids) \in Garbage
    <3>1. NextID(p.ids) \in 0..MaxTasks - 1
      BY <1>1, <1>4, NextType
    <3> QED
      BY <1>1, <3>1 DEF Garbage
  <2> QED
    BY <1>2, <2>1, <2>2
<1> QED
  BY <1>3, <1>4

LEMMA TextsSame ==
    ASSUME NEW p, NEW names, NEW q, NEW named, p.tasks \in SUBSET Garbage,
           {t \in q.tasks : t < MaxTasks} = {t \in p.tasks : t < MaxTasks},
           \A t \in p.tasks : named[t] = names[t]
    PROVE  TextsOf(q, named) = TextsOf(p, names)
<1> DEFINE S == {t \in p.tasks : t < MaxTasks}
<1>1. S \in SUBSET Nat /\ IsFiniteSet(S)
  <2>1. MaxTasks \in Nat /\ S \in SUBSET Garbage
    BY MaxTasksAssumption
  <2> QED
    BY <2>1, TasksFinite DEF Garbage
<1>2. PICK n : n = Cardinality(S)
  OBVIOUS
<1>3. PICK a \in [1..n -> S] : a = Ascending(S)
  BY <1>1, <1>2, AscendingPlaces
<1>4. /\ TextsOf(p, names) = [j \in 1..n |-> names[a[j]]]
      /\ TextsOf(q, named) = [j \in 1..n |-> named[a[j]]]
  BY <1>3 DEF TextsOf
<1>5. \A j \in 1..n : named[a[j]] = names[a[j]]
  <2>1. \A j \in 1..n : a[j] \in S
    BY <1>3
  <2> QED
    BY <2>1
<1> QED
  BY <1>4, <1>5

\* What an edit of the tasks of one project does to the book.
LEMMA TaskEditChanges ==
    ASSUME IInv, Collected, Collected', NEW i \in DOMAIN projects,
           DOMAIN projects' = DOMAIN projects,
           \A k \in DOMAIN projects : titles'[k] = titles[k],
           \A k \in DOMAIN projects :
              k # i => projects'[k] = projects[k] /\ texts'[k] = texts[k],
           NEW b, b = Chunks, NEW d, d = Chunks',
           NEW old, old = TextsOf(projects[i], texts[i]),
           NEW new, new = TextsOf(projects'[i], texts'[i])
    PROVE  Changed(d, b, old, new) /\ b \in Books /\ d \in Books
<1>1. DOMAIN projects \in SUBSET Nat /\ IsFiniteSet(DOMAIN projects)
  BY ProjectsFinite
<1>2. PICK ps, ts, xs, qs, us, ys :
         /\ ps = projects /\ ts = titles /\ xs = texts
         /\ qs = projects' /\ us = titles' /\ ys = texts'
  OBVIOUS
<1>3. b = BookOf(ps, ts, xs) /\ d = BookOf(qs, us, ys) /\ b \in Books /\ d \in Books
  BY <1>2 DEF Collected
<1>4. BookOf(qs, us, ys) = BookOf(qs, ts, ys)
  <2>1. PICK a : a = Ascending(DOMAIN qs)
    OBVIOUS
  <2>2. \A l \in DOMAIN a : a[l] \in DOMAIN ps
    <3>1. DOMAIN qs = DOMAIN ps
      BY <1>2
    <3>2. a \in [1..Cardinality(DOMAIN ps) -> DOMAIN ps]
      BY <1>1, <1>2, <2>1, <3>1, AscendingType
    <3> QED
      BY <3>2
  <2>3. /\ BookOf(qs, us, ys) = [l \in DOMAIN a |->
               [title |-> us[a[l]], tasks |-> TextsOf(qs[a[l]], ys[a[l]])]]
        /\ BookOf(qs, ts, ys) = [l \in DOMAIN a |->
               [title |-> ts[a[l]], tasks |-> TextsOf(qs[a[l]], ys[a[l]])]]
    BY <2>1 DEF BookOf
  <2>4. \A l \in DOMAIN a : us[a[l]] = ts[a[l]]
    BY <1>2, <2>2
  <2> QED
    BY <2>3, <2>4
<1>5. Changed(BookOf(qs, ts, ys), BookOf(ps, ts, xs),
              TextsOf(ps[i], xs[i]), TextsOf(qs[i], ys[i]))
  BY <1>1, <1>2, BookChanges
<1> QED
  BY <1>2, <1>3, <1>4, <1>5

\* The length stays, and a chunk whose tasks are what they were stays itself.
LEMMA ChangedSame ==
    ASSUME NEW b \in Books, NEW d \in Books, NEW old, NEW new, Changed(d, b, old, new)
    PROVE  Len(d) = Len(b) /\ (new = old => d = b)
<1>1. b \in Seq(Chunk) /\ d \in Seq(Chunk)
  BY BooksAreSeqs
<1>2. PICK k \in DOMAIN b : b[k].tasks = old /\ d = [b EXCEPT ![k].tasks = new]
  BY DEF Changed
<1>3. Len(d) = Len(b)
  <2>1. DOMAIN d = DOMAIN b
    BY <1>2
  <2>2. DOMAIN d = 1..Len(d) /\ DOMAIN b = 1..Len(b) /\ Len(d) \in Nat /\ Len(b) \in Nat
    BY <1>1
  <2>3. \A m, n \in Nat : 1..m = 1..n => m = n
    OBVIOUS
  <2> QED
    BY <2>1, <2>2, <2>3
<1>4. ASSUME new = old PROVE d = b
  <2>1. b[k] \in Chunk
    BY <1>1
  <2>2. [b[k] EXCEPT !.tasks = new] = b[k]
    BY <1>2, <1>4, <2>1 DEF Chunk
  <2>3. d = [b EXCEPT ![k] = b[k]]
    BY <1>2, <2>2
  <2> QED
    BY <1>1, <2>3
<1> QED
  BY <1>3, <1>4

\* A chunk that keeps some of its tasks.
Shortened(d, b) ==
    /\ Len(d) = Len(b)
    /\ \E k \in DOMAIN b : /\ Saved!LeftOf(d[k].tasks, b[k].tasks)
                           /\ d = [b EXCEPT ![k].tasks = d[k].tasks]

LEMMA ChangedLeft ==
    ASSUME NEW b \in Books, NEW d \in Books, NEW old, NEW new, Changed(d, b, old, new),
           Saved!LeftOf(new, old)
    PROVE  Shortened(d, b)
<1>1. PICK k \in DOMAIN b : b[k].tasks = old /\ d = [b EXCEPT ![k].tasks = new]
  BY DEF Changed
<1>2. d[k].tasks = new
  <2>1. b \in Seq(Chunk)
    BY DEF Books
  <2>2. b[k] \in Chunk /\ d[k] = [b[k] EXCEPT !.tasks = new]
    BY <1>1, <2>1
  <2> QED
    BY <2>2 DEF Chunk
<1>3. Len(d) = Len(b)
  BY ChangedSame
<1> QED
  BY <1>1, <1>2, <1>3 DEF Shortened

LEMMA TaskBegins ==
    ASSUME FInv, Collected, Collected', NEW i, NEW text,
           AddTaskWithText(i, text), NEW b, b = Chunks, NEW d, d = Chunks'
    PROVE  \/ d = b
           \/ /\ Len(d) = Len(b)
              /\ \E k \in DOMAIN b : \E j \in DOMAIN d[k].tasks :
                    /\ d[k].tasks[j] = text
                    /\ b = [d EXCEPT ![k].tasks = Saved!RemoveAt(@, j)]
           \/ Shortened(d, b)
<1>1. IInv /\ TextsBelong /\ MaxTasks \in Nat
  BY MaxTasksAssumption DEF FInv
<1>2. PICK p, q, names, named : /\ p = projects[i] /\ q = projects'[i]
                                /\ names = texts[i] /\ named = texts'[i]
  OBVIOUS
<1>3. /\ i \in DOMAIN projects /\ DOMAIN projects' = DOMAIN projects
      /\ titles' = titles /\ q \in AddResults(p)
      /\ named = [t \in q.tasks |-> IF t \in p.tasks THEN names[t] ELSE text]
      /\ \A k \in DOMAIN projects :
            k # i => projects'[k] = projects[k] /\ texts'[k] = texts[k]
  BY <1>1, <1>2, TaskAdditionDoes
<1>4. p \in Projects /\ p.tasks \in SUBSET Garbage
  BY <1>1, <1>2, <1>3 DEF IInv, TypeOK, Projects
<1>5. PICK v \in Garbage : q.tasks \in {p.tasks \cup {v}, p.tasks, {}}
  BY <1>3, <1>4, AddResultsGrow
<1>6. PICK old, new : old = TextsOf(p, names) /\ new = TextsOf(q, named)
  OBVIOUS
<1>7. Changed(d, b, old, new) /\ b \in Books /\ d \in Books
  BY <1>1, <1>2, <1>3, <1>6, TaskEditChanges
<1>8. \A t \in p.tasks \cap q.tasks : named[t] = names[t]
  BY <1>3
<1>9. ASSUME p.tasks \in SUBSET q.tasks,
             {t \in q.tasks : t < MaxTasks} = {t \in p.tasks : t < MaxTasks}
      PROVE  d = b
  <2>1. new = old
    BY <1>4, <1>6, <1>8, <1>9, TextsSame
  <2> QED
    BY <1>7, <2>1, ChangedSame
<1>10. CASE q.tasks = p.tasks \cup {v} /\ v \notin p.tasks /\ v # MaxTasks
  <2>1. v \in 0..MaxTasks - 1 /\ named[v] = text
    BY <1>1, <1>3, <1>10 DEF Garbage
  <2>2. \E j : PutAt(TextsOf(q, named), TextsOf(p, names),
                     Len(TextsOf(p, names)), j, named[v])
    BY <1>4, <1>8, <1>10, <2>1, TextsPut
  <2>3. PICK j : PutAt(new, old, Len(old), j, text)
    BY <1>6, <2>1, <2>2
  <2>4. PICK k \in DOMAIN b : b[k].tasks = old /\ d = [b EXCEPT ![k].tasks = new]
    BY <1>7 DEF Changed
  <2>5. b[k] \in Chunk /\ d[k] \in Chunk /\ d[k].tasks = new
    <3>1. b \in Seq(Chunk) /\ d \in Seq(Chunk)
      BY <1>7 DEF Books
    <3>2. b[k] \in Chunk /\ d[k] = [b[k] EXCEPT !.tasks = new] /\ k \in DOMAIN d
      BY <2>4, <3>1
    <3>3. d[k] \in Chunk
      BY <3>1, <3>2
    <3>4. d[k].tasks = new
      BY <3>2 DEF Chunk
    <3> QED
      BY <3>2, <3>3, <3>4
  <2>6. old \in Seq(AnyText) /\ new \in Seq(AnyText)
    BY <2>4, <2>5, ChunkParts
  <2>7. j \in DOMAIN new /\ old = Saved!RemoveAt(new, j) /\ new[j] = text
    BY <2>3, <2>6, PutIsRemoved
  <2>8. Len(d) = Len(b)
    BY <1>7, ChangedSame
  <2>9. b = [d EXCEPT ![k].tasks = old]
    <3>1. b \in Seq(Chunk) /\ b[k] \in Chunk
      BY <1>7, <2>5 DEF Books
    <3>2. [d[k] EXCEPT !.tasks = old] = b[k]
      <4>1. d[k] = [b[k] EXCEPT !.tasks = new]
        BY <2>4
      <4> QED
        BY <2>4, <3>1, <4>1 DEF Chunk
    <3>3. [d EXCEPT ![k].tasks = old] = [d EXCEPT ![k] = b[k]]
      BY <3>2
    <3>4. PICK c, e : c = b[k] /\ e = [b[k] EXCEPT !.tasks = new]
      OBVIOUS
    <3>5. d = [b EXCEPT ![k] = e]
      BY <2>4, <3>4
    <3>6. DOMAIN d = DOMAIN b /\ \A l \in DOMAIN b : l # k => d[l] = b[l]
      BY <3>5
    <3>7. [d EXCEPT ![k] = c] = [l \in DOMAIN b |-> IF l = k THEN c ELSE d[l]]
      BY <3>6
    <3>8. \A l \in DOMAIN b : (IF l = k THEN c ELSE d[l]) = b[l]
      BY <3>4, <3>6
    <3>9. b = [l \in DOMAIN b |-> b[l]]
      BY <3>1
    <3>10. [d EXCEPT ![k] = b[k]] = b
      BY <3>4, <3>7, <3>8, <3>9
    <3> QED
      BY <3>3, <3>10
  <2>10. b = [d EXCEPT ![k].tasks = Saved!RemoveAt(@, j)]
    BY <2>5, <2>7, <2>9
  <2> QED
    BY <2>4, <2>5, <2>7, <2>8, <2>10
<1>11. CASE q.tasks = {}
  <2>1. Saved!LeftOf(new, old)
    BY <1>4, <1>6, <1>11, TextsLeft
  <2> QED
    BY <1>7, <2>1, ChangedLeft
<1>12. CASE \/ q.tasks = p.tasks
            \/ q.tasks = p.tasks \cup {v} /\ (v \in p.tasks \/ v = MaxTasks)
  <2>1. p.tasks \in SUBSET q.tasks
    BY <1>12
  <2>2. {t \in q.tasks : t < MaxTasks} = {t \in p.tasks : t < MaxTasks}
    BY <1>1, <1>12
  <2> QED
    BY <1>9, <2>1, <2>2
<1>13. \/ q.tasks = p.tasks \cup {v} /\ v \notin p.tasks /\ v # MaxTasks
       \/ q.tasks = {}
       \/ q.tasks = p.tasks
       \/ q.tasks = p.tasks \cup {v} /\ (v \in p.tasks \/ v = MaxTasks)
  BY <1>5
<1> QED
  BY <1>10, <1>11, <1>12, <1>13

\* A task that is removed takes at most others of its chunk along.
LEMMA TasksEnd ==
    ASSUME FInv, Collected, Collected', NEW i, NEW t, RemoveTask(i, t), KeepTexts,
           NEW b, b = Chunks, NEW d, d = Chunks'
    PROVE  Shortened(d, b)
<1>1. IInv /\ TextsBelong
  BY DEF FInv
<1>2. PICK p, q, names, named : /\ p = projects[i] /\ q = projects'[i]
                                /\ names = texts[i] /\ named = texts'[i]
  OBVIOUS
<1>3. /\ i \in DOMAIN projects /\ DOMAIN projects' = DOMAIN projects
      /\ q \in RemoveResults(p, t)
      /\ \A k \in DOMAIN projects : k # i => projects'[k] = projects[k]
  <2>1. i \in DOMAIN projects
    BY DEF RemoveTask
  <2>2. PICK r \in RemoveResults(projects[i], t) : projects' = [projects EXCEPT ![i] = r]
    BY DEF RemoveTask
  <2> QED
    BY <1>1, <1>2, <2>1, <2>2 DEF IInv, TypeOK
<1>4. p \in Projects /\ p.tasks \in SUBSET Garbage
  BY <1>1, <1>2, <1>3 DEF IInv, TypeOK, Projects
<1>5. q.tasks \in SUBSET p.tasks
  BY <1>3, <1>4, RemoveResultsShrink
<1>6. /\ \A k \in DOMAIN projects : titles'[k] = titles[k]
      /\ named = [u \in q.tasks |-> names[u]]
      /\ \A k \in DOMAIN projects : k # i => texts'[k] = texts[k]
  <2>1. \A k \in DOMAIN projects : texts'[k] = [u \in projects'[k].tasks |-> texts[k][u]]
    BY <1>3 DEF KeepTexts
  <2>2. \A k \in DOMAIN projects : texts[k] \in [projects[k].tasks -> AnyText]
    BY <1>1 DEF TextsBelong
  <2> QED
    BY <1>2, <1>3, <2>1, <2>2 DEF KeepTexts
<1>7. PICK old, new : old = TextsOf(p, names) /\ new = TextsOf(q, named)
  OBVIOUS
<1>8. Changed(d, b, old, new) /\ b \in Books /\ d \in Books
  BY <1>1, <1>2, <1>3, <1>6, <1>7, TaskEditChanges
<1>9. Saved!LeftOf(new, old)
  BY <1>4, <1>5, <1>6, <1>7, TextsLeft
<1> QED
  BY <1>8, <1>9, ChangedLeft

\* Every step is one of the abstract book, or changes nothing of it.
LEMMA SavedEdit ==
    ASSUME FInv, Collected, Collected', Edit
    PROVE  Saved!Edit \/ Saved!Close \/ UNCHANGED <<Memory, Readable>>
<1>1. Idle /\ Idle' /\ UNCHANGED file
  BY DEF Edit, Idle, loading
<1>2. PICK b, d : b = Chunks /\ d = Chunks'
  OBVIOUS
<1>3. Memory = b /\ Memory' = d /\ Readable' = Readable
  BY <1>1, <1>2 DEF Memory, Readable
<1>4. ASSUME Shortened(d, b) PROVE Saved!Edit
  <2>1. Saved!EndTasks /\ Len(d) = Len(b)
    BY <1>3, <1>4 DEF Shortened, Saved!EndTasks
  <2> QED
    BY <1>3, <2>1 DEF Saved!Edit
<1>5. ASSUME NEW text \in Texts, AddWithText(text)
      PROVE  Saved!Edit \/ Saved!Close \/ d = b
  <2>1. \/ /\ Len(d) > Len(b)
           /\ \E k \in DOMAIN d : /\ d[k].title = text /\ d[k].tasks = <<>>
                                  /\ b = Saved!RemoveAt(d, k)
        \/ d = b
        \/ d = <<>>
    BY <1>2, <1>5, AddBegins
  <2>2. ASSUME Len(d) > Len(b),
               \E k \in DOMAIN d : /\ d[k].title = text /\ d[k].tasks = <<>>
                                   /\ b = Saved!RemoveAt(d, k)
        PROVE  Saved!Edit
    <3>1. Saved!BeginChunk
      BY <1>3, <1>5, <2>2 DEF Saved!BeginChunk
    <3> QED
      BY <1>3, <2>2, <3>1 DEF Saved!Edit
  <2>3. ASSUME d = <<>> PROVE Saved!Close
    BY <1>3, <2>3 DEF Saved!Close
  <2> QED
    BY <2>1, <2>2, <2>3
<1>6. ASSUME NEW text \in Texts, NEW i \in ProjectIds, AddTaskWithText(i, text)
      PROVE  Saved!Edit \/ d = b
  <2>1. \/ d = b
        \/ /\ Len(d) = Len(b)
           /\ \E k \in DOMAIN b : \E j \in DOMAIN d[k].tasks :
                 /\ d[k].tasks[j] = text
                 /\ b = [d EXCEPT ![k].tasks = Saved!RemoveAt(@, j)]
        \/ Shortened(d, b)
    BY <1>2, <1>6, TaskBegins
  <2>2. ASSUME Len(d) = Len(b),
               \E k \in DOMAIN b : \E j \in DOMAIN d[k].tasks :
                  /\ d[k].tasks[j] = text
                  /\ b = [d EXCEPT ![k].tasks = Saved!RemoveAt(@, j)]
        PROVE  Saved!Edit
    <3>1. PICK k \in DOMAIN b : \E j \in DOMAIN d[k].tasks :
             /\ d[k].tasks[j] = text
             /\ b = [d EXCEPT ![k].tasks = Saved!RemoveAt(@, j)]
      BY <2>2
    <3>2. PICK j \in DOMAIN d[k].tasks :
             /\ d[k].tasks[j] = text
             /\ b = [d EXCEPT ![k].tasks = Saved!RemoveAt(@, j)]
      BY <3>1
    <3>3. Saved!BeginTask
      BY <1>3, <1>6, <3>2 DEF Saved!BeginTask
    <3> QED
      BY <1>3, <2>2, <3>3 DEF Saved!Edit
  <2> QED
    BY <1>4, <2>1, <2>2
<1>7. ASSUME NEW i, RemoveProject(i), KeepTexts PROVE Saved!Edit
  <2>1. Len(d) < Len(b) /\ \E k \in DOMAIN b : d = Saved!RemoveAt(b, k)
    BY <1>2, <1>7, RemoveEnds
  <2>2. Saved!EndChunk
    BY <1>3, <2>1 DEF Saved!EndChunk
  <2> QED
    BY <1>3, <2>1, <2>2 DEF Saved!Edit
<1>8. ASSUME NEW i, NEW t, RemoveTask(i, t), KeepTexts PROVE Saved!Edit
  BY <1>2, <1>4, <1>8, TasksEnd
<1> QED
  BY <1>3, <1>6, <1>7, <1>8, <1>5 DEF Edit

LEMMA SavedSave ==
    ASSUME FInv, Collected, Collected', Serialize PROVE Saved!Save
<1>1. UNCHANGED Memory
  <2>1. UNCHANGED Chunks
    BY DEF Serialize, container, Collected
  <2> QED
    BY <2>1 DEF Serialize, loading, Memory, Idle
<1>2. PICK w \in Books : w = Chunks /\ w = Memory
  BY DEF Collected, Serialize, Memory
<1>3. PICK cells \in Cuts(CellsOf(w)) : file' = {cells}
  BY <1>2 DEF Serialize
<1>4. CASE cells = <<>>
  <2>1. Readable' = {}
    BY <1>3, <1>4 DEF Readable
  <2> QED
    BY <1>1, <2>1 DEF Saved!Save
<1>5. CASE cells # <<>>
  <2>1. PICK read : read = ReadChunks(cells)
    OBVIOUS
  <2>2. Readable' = {read}
    BY <1>3, <1>5, <2>1 DEF Readable
  <2>3. Len(w) < ChunkLimit => Saved!CutOf(read, w)
    BY <1>5, <2>1, CutIsCut
  <2> QED
    BY <1>1, <1>2, <2>2, <2>3 DEF Saved!Save
<1> QED
  BY <1>4, <1>5

LEMMA SavedClose == ASSUME Collected', Restart PROVE Saved!Close
<1>1. Idle' /\ DOMAIN projects' = {} /\ UNCHANGED file
  BY DEF Restart, Idle, Fresh
<1>2. Memory' = <<>>
  <2>1. PICK ps, ts, xs : ps = projects' /\ ts = titles' /\ xs = texts'
    OBVIOUS
  <2>2. Memory' = BookOf(ps, ts, xs)
    BY <1>1, <2>1 DEF Memory, Collected
  <2> QED
    BY <1>1, <2>1, <2>2, NothingCollected
<1> QED
  BY <1>1, <1>2 DEF Saved!Close, Readable

\* A load begins with all that the file gives ...
LEMMA SavedLoad == ASSUME Collected', DeserializeRead PROVE Saved!Load
<1>1. PICK cells \in file \ {<<>>} : chunks' = ReadChunks(cells)
  BY DEF DeserializeRead
<1>2. DOMAIN projects' = {} /\ UNCHANGED file
  BY DEF DeserializeRead, Recreate, Fresh
<1>3. chunks' \in Readable
  BY <1>1 DEF Readable
<1>4. Memory' = chunks'
  <2>1. CASE Idle'
    <3>1. PICK ps, ts, xs : ps = projects' /\ ts = titles' /\ xs = texts'
      OBVIOUS
    <3>2. Memory' = BookOf(ps, ts, xs)
      BY <2>1, <3>1 DEF Memory, Collected
    <3> QED
      BY <1>2, <2>1, <3>1, <3>2, NothingCollected DEF Idle
  <2>2. CASE ~Idle'
    BY <2>2 DEF Memory
  <2> QED
    BY <2>1, <2>2
<1> QED
  BY <1>2, <1>3, <1>4 DEF Saved!Load, Readable

\* ... goes on without a change ...
LEMMA SavedGoesOn ==
    ASSUME DeserializeInsert, ~Idle' PROVE UNCHANGED <<Memory, Readable>>
<1>1. Memory = chunks /\ UNCHANGED file
  BY DEF DeserializeInsert, Memory
<1>2. chunks' = chunks
  BY DEF DeserializeInsert, Idle
<1> QED
  BY <1>1, <1>2 DEF Memory, Readable

\* ... and ends with all of it ...
LEMMA SavedInsert ==
    ASSUME ~AllocFails, FInv, Placed, Numbered, Filled, DeserializeInsert,
           IInv', (IInv => \A book \in Books : Full(book) => Chunks = book)'
    PROVE  UNCHANGED <<Memory, Readable>>
<1>1. Memory = chunks /\ UNCHANGED file
  BY DEF DeserializeInsert, Memory
<1>2. CASE Idle'
  <2>1. PICK book : book = chunks
    OBVIOUS
  <2>2. book \in Books /\ Full(book)'
    BY <1>2, <2>1, LastInsertFills
  <2>3. Chunks' = book
    BY <2>2
  <2> QED
    BY <1>1, <1>2, <2>1, <2>3 DEF Memory, Readable
<1> QED
  BY <1>2, SavedGoesOn

\* ... or with what failed insertions left.
LEMMA SavedPart ==
    ASSUME AllocFails, FInv, FInv', Collected', Placed, Tried, Loaded,
           DeserializeInsert,
           (IInv => \A book \in Books :
               Partial(book) => Saved!PartOf(BookOf(projects, titles, texts), book))'
    PROVE  [Saved!Load]_<<Memory, Readable>>
<1>1. CASE Idle'
  <2>1. PICK book : book = chunks
    OBVIOUS
  <2>2. book \in Books /\ Partial(book)'
    BY <1>1, <2>1, LastInsertKeepsPart
  <2>3. PICK d : d = Memory'
    OBVIOUS
  <2>4. d = BookOf(projects, titles, texts)'
    BY <1>1, <2>3 DEF Memory, Collected
  <2>5. Saved!PartOf(d, book)
    BY <2>2, <2>4 DEF FInv
  <2>6. book \in Readable /\ UNCHANGED Readable
    <3>1. PICK cells \in file \ {<<>>} : TRUE
      BY DEF Loaded, DeserializeInsert
    <3>2. book = ReadChunks(cells) /\ UNCHANGED file
      BY <2>1, <3>1 DEF FInv, LoadsTheFile, DeserializeInsert
    <3> QED
      BY <3>1, <3>2 DEF Readable
  <2> QED
    BY <2>3, <2>5, <2>6 DEF Saved!Load
<1> QED
  BY <1>1, SavedGoesOn

LEMMA SavedStays ==
    ASSUME Collected, Collected',
           UNCHANGED <<projects, titles, texts, file, chunks>>
    PROVE  UNCHANGED <<Memory, Readable>>
<1>1. UNCHANGED Chunks
  BY DEF Collected
<1> QED
  BY <1>1 DEF Memory, Idle, Readable

LEMMA SavedStep ==
    ASSUME FInv, FInv', Collected, Collected', [FileNext]_fileVars,
           DeserializeInsert => [Saved!Load]_<<Memory, Readable>>
    PROVE  [Saved!BookNext]_<<Memory, Readable>>
<1>1. CASE Edit
  BY <1>1, SavedEdit DEF Saved!BookNext
<1>2. CASE Break \/ DeserializeUndefined
  <2>1. UNCHANGED <<projects, titles, texts, file, chunks>>
    BY <1>2 DEF Break, AddProjectHalts, UseStaleRoot, AddTaskHalts,
       RemoveProjectUndefined, DeserializeUndefined, RecreateUndefined, Stop, loading
  <2> QED
    BY <2>1, SavedStays
<1>3. CASE Serialize
  BY <1>3, SavedSave DEF Saved!BookNext
<1>4. CASE Restart
  BY <1>4, SavedClose DEF Saved!BookNext
<1>5. CASE DeserializeRead
  BY <1>5, SavedLoad DEF Saved!BookNext
<1>6. CASE DeserializeInsert
  BY <1>6 DEF Saved!BookNext
<1>7. CASE UNCHANGED fileVars
  <2>1. UNCHANGED <<projects, titles, texts, file, chunks>>
    BY <1>7 DEF fileVars, container, loading
  <2> QED
    BY <2>1, SavedStays
<1> QED
  BY <1>1, <1>2, <1>3, <1>4, <1>5, <1>6, <1>7 DEF FileNext

LEMMA SavedBegins == FileInit => Saved!BookInit
<1> SUFFICES ASSUME FileInit PROVE Saved!BookInit
  OBVIOUS
<1>1. Collected /\ Idle /\ DOMAIN projects = {} /\ file = {}
  BY FInvInit, CollectedInv DEF FileInit, Init, Idle
<1>2. Memory = <<>>
  BY <1>1, NothingCollected DEF Memory, Collected
<1> QED
  BY <1>1, <1>2 DEF Saved!BookInit, Readable

\* The container with its file is a book that can be saved and loaded: ids,
\* trees, counters, cells and the steps of a load do not show.  Where no
\* allocation fails a load gives all of the file; where they do it gives a part
\* of it, in its order and each task in its chunk (selfma_api.cpp:71-174).
THEOREM IsASavedBook == FileSpec => ImplementsSavedBook
<1> DEFINE Whole == \A book \in Books : Full(book) => Chunks = book
           Part == \A book \in Books :
                      Partial(book) => Saved!PartOf(BookOf(projects, titles, texts), book)
<1>1. FileInit => Placed /\ Numbered /\ Filled /\ Tried /\ Loaded
  BY DEF FileInit, Placed, Numbered, Filled, Tried, Loaded, Idle
<1>2. (FInv => Collected)'
  BY CollectedInv, PTL
<1>3. ASSUME FInv, [FileNext]_fileVars,
             FInv' => (DeserializeInsert => [Saved!Load]_<<Memory, Readable>>)
      PROVE  [Saved!BookNext]_<<Memory, Readable>>
  <2>1. FInv' /\ Collected /\ Collected'
    BY <1>2, <1>3, CollectedInv, FInvStep
  <2> QED
    BY <1>3, <2>1, SavedStep
<1>4. CASE ~AllocFails
  <2>1. (IInv => Whole)'
    BY FullCollects, PTL
  <2>2. ASSUME FInv, Placed, Numbered, Filled, [FileNext]_fileVars
        PROVE  [Saved!BookNext]_<<Memory, Readable>>
    <3>1. ASSUME FInv', DeserializeInsert PROVE UNCHANGED <<Memory, Readable>>
      BY <1>4, <2>1, <2>2, <3>1, SavedInsert DEF FInv
    <3> QED
      BY <1>3, <2>2, <3>1
  <2> QED
    BY <1>1, <1>4, <2>2, SavedBegins, PlacedStep, NumberedStep, FilledStep,
       FInvariance, PTL
    DEF FileSpec, ImplementsSavedBook, Saved!BookSpec, Saved!bookVars, FInv
<1>5. CASE AllocFails
  <2>1. (IInv => Part)'
    BY PartialCollects, PTL
  <2>2. ASSUME FInv, Placed, Tried, Loaded, [FileNext]_fileVars
        PROVE  [Saved!BookNext]_<<Memory, Readable>>
    <3>1. ASSUME FInv', DeserializeInsert PROVE [Saved!Load]_<<Memory, Readable>>
      <4>1. Collected'
        BY <1>2, <3>1
      <4> QED
        BY <1>5, <2>1, <2>2, <3>1, <4>1, SavedPart
    <3> QED
      BY <1>3, <2>2, <3>1
  <2> QED
    BY <1>1, <2>2, SavedBegins, PlacedStep, TriedStep, LoadedStep, FInvariance, PTL
    DEF FileSpec, ImplementsSavedBook, Saved!BookSpec, Saved!bookVars
<1> QED
  BY <1>4, <1>5
=============================================================================
