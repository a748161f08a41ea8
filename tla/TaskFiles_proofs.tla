-------------------------- MODULE TaskFiles_proofs ---------------------------
(***************************************************************************)
(* Proofs about the tasks that outlive the process and the files they are  *)
(* kept in: the image tasks, the exports of editable files and the JSON    *)
(* files; and about the turn that makes the image of a task.               *)
(***************************************************************************)
EXTENDS ImageTask, EditableTasks, JsonFile, ImageTurn, TLAPS

------------------------------------------------------------------------------
(* The image tasks (ImageTask)                                             *)
(*                                                                         *)
(* Proofs about the image tasks: whatever tasks there are and however      *)
(* often the process dies, a task that is not finished has one thread,     *)
(* what clients are shown is in the file, and the service with its lock,   *)
(* its file and its threads implements the board of ImageTaskBoard.        *)
(*                                                                         *)
(* The refinement rests on Pending: between a change and its write, what   *)
(* the memory holds is one step of the board ahead of the file.            *)

LEMMA Types == Spec => []TypeOK
  <1> USE DEF TypeOK, NoThreads
  <1>1. Init => TypeOK
    <2> SUFFICES ASSUME Init PROVE TypeOK
      OBVIOUS
    <2>1. tasks \in [Task -> Status] /\ stored \in [Task -> Status]
      BY DEF Init, Status
    <2>2. starting \in [Task -> Nat] /\ handling \in [Task -> Nat]
      BY DEF Init
    <2>3. crashes \in 0..MaxCrashes
      BY ImageTaskAssumption DEF Init
    <2> QED
      BY <2>1, <2>2, <2>3 DEF Init
  <1>2. TypeOK /\ [Next]_vars => TypeOK'
    <2> SUFFICES ASSUME TypeOK, [Next]_vars PROVE TypeOK'
      OBVIOUS
    <2> USE DEF Save, Update, LockFree
    <2>1. CASE Write
      BY <2>1 DEF Write
    <2>2. CASE ListTasks
      BY <2>2 DEF ListTasks, Cleaned, Status
    <2>3. CASE Crash
      <3>1. tasks' \in [Task -> Status]
        BY <2>3 DEF Crash, Status
      <3>2. starting' \in [Task -> Nat] /\ handling' \in [Task -> Nat]
        BY <2>3 DEF Crash
      <3>3. crashes' \in 0..MaxCrashes
        BY <2>3, ImageTaskAssumption DEF Crash
      <3> QED
        BY <2>3, <3>1, <3>2, <3>3 DEF Crash
    <2>4. CASE Restart
      BY <2>4 DEF Restart, Cleaned, Recovered, Loaded, Status
    <2>5. ASSUME NEW k \in Task, Submit(k) PROVE TypeOK'
      BY <2>5 DEF Submit, Cleaned, Status
    <2>6. ASSUME NEW k \in Task, Resume(k) PROVE TypeOK'
      BY <2>6 DEF Resume, Status
    <2>7. ASSUME NEW k \in Task, Begin(k) PROVE TypeOK'
      <3>1. tasks' \in [Task -> Status] /\ saving' \in BOOLEAN
        BY <2>7 DEF Begin, Status
      <3>2. starting' \in [Task -> Nat] /\ handling' \in [Task -> Nat]
        BY <2>7 DEF Begin
      <3> QED
        BY <2>7, <3>1, <3>2 DEF Begin
    <2>8. ASSUME NEW k \in Task, End(k) PROVE TypeOK'
      <3>1. tasks' \in [Task -> Status] /\ saving' \in BOOLEAN
        BY <2>8 DEF End, Status, Terminal
      <3>2. handling' \in [Task -> Nat]
        BY <2>8 DEF End
      <3> QED
        BY <2>8, <3>1, <3>2 DEF End
    <2>9. ASSUME NEW k \in Task, Progress(k) PROVE TypeOK'
      BY <2>9 DEF Progress
    <2>10. ASSUME NEW k \in Task, Age(k) PROVE TypeOK'
      BY <2>10 DEF Age
    <2>11. CASE UNCHANGED vars
      BY <2>11 DEF vars
    <2> QED
      BY <2>1, <2>2, <2>3, <2>4, <2>5, <2>6, <2>7, <2>8, <2>9, <2>10, <2>11
      DEF Next, ThreadStep
  <1> QED
    BY <1>1, <1>2, PTL DEF Spec

\* A dead process has neither tasks in memory nor a writer; a task that is not
\* finished has one thread.
Threads == OneThreadPerTask /\ (~up => ~saving /\ tasks = [k \in Task |-> "absent"])

\* The board step of one task that the next write shows.
Ahead(k) ==
  LET shown == Kind(stored[k])
      next == Kind(tasks[k])
  IN  \/ next = shown
      \/ saving /\ next = "working" /\ (shown \in {"unknown", "error"} \/ k \in old)
      \/ saving /\ next \in {"success", "error"} /\ shown = "working"
      \/ saving /\ next = "unknown" /\ k \in old

Pending == up => \A k \in Task : Ahead(k)

IInv == Threads /\ Pending

LEMMA InitIInv == Init => IInv
  BY DEF Init, IInv, Threads, OneThreadPerTask, Pending, Ahead, NoThreads, Unfinished

LEMMA StepThreads == TypeOK /\ Threads /\ [Next]_vars => Threads'
  <1> SUFFICES ASSUME TypeOK, Threads, [Next]_vars PROVE Threads'
    OBVIOUS
  <1> USE DEF TypeOK, Threads, OneThreadPerTask, Save, Update, LockFree,
              Unfinished, Terminal, NoThreads
  <1>1. CASE Write
    BY <1>1 DEF Write
  <1>2. CASE ListTasks
    BY <1>2 DEF ListTasks, Cleaned
  <1>3. CASE Crash
    BY <1>3 DEF Crash
  <1>4. CASE Restart
    BY <1>4 DEF Restart, Cleaned, Recovered, Loaded
  <1>5. ASSUME NEW k \in Task, Submit(k) PROVE Threads'
    BY <1>5 DEF Submit, Cleaned
  <1>6. ASSUME NEW k \in Task, Resume(k) PROVE Threads'
    BY <1>6 DEF Resume
  <1>7. ASSUME NEW k \in Task, Begin(k) PROVE Threads'
    BY <1>7 DEF Begin
  <1>8. ASSUME NEW k \in Task, End(k) PROVE Threads'
    <2>1. PICK status \in Terminal : Update(k, status)
      BY <1>8 DEF End
    <2>2. ~(tasks[k] = "absent")
      BY <1>8 DEF End
    <2>3. tasks' = [tasks EXCEPT ![k] = status] /\ saving'
      BY <2>1, <2>2
    <2>4. handling[k] = 1 /\ starting[k] = 0
      <3>1. handling[k] > 0 /\ handling[k] \in Nat /\ starting[k] \in Nat
        BY <1>8 DEF End
      <3>2. starting[k] + handling[k] = 1 \/ starting[k] + handling[k] = 0
        OBVIOUS
      <3> HIDE DEF TypeOK, Threads, OneThreadPerTask
      <3> QED
        BY <3>1, <3>2
    <2>5. OneThreadPerTask'
      BY <1>8, <2>3, <2>4 DEF End
    <2> QED
      BY <1>8, <2>5 DEF End
  <1>9. ASSUME NEW k \in Task, Progress(k) PROVE Threads'
    BY <1>9 DEF Progress
  <1>10. ASSUME NEW k \in Task, Age(k) PROVE Threads'
    BY <1>10 DEF Age
  <1>11. CASE UNCHANGED vars
    BY <1>11 DEF vars
  <1> QED
    BY <1>1, <1>2, <1>3, <1>4, <1>5, <1>6, <1>7, <1>8, <1>9, <1>10, <1>11
    DEF Next, ThreadStep

\* A free lock means that the file is up to date.
LEMMA FreeIsStored == TypeOK /\ Pending => ShownIsStored
  BY DEF TypeOK, Pending, Ahead, ShownIsStored, LockFree

LEMMA StepPending == TypeOK /\ Threads /\ Pending /\ [Next]_vars => Pending'
  <1> SUFFICES ASSUME TypeOK, Threads, Pending, [Next]_vars PROVE Pending'
    OBVIOUS
  <1> USE DEF TypeOK, Pending, Save, Update
  <1>0. ShownIsStored
    BY FreeIsStored
  <1> USE <1>0 DEF ShownIsStored, LockFree
  <1>1. CASE Write
    BY <1>1 DEF Write, Ahead
  <1>2. CASE ListTasks
    BY <1>2 DEF ListTasks, Cleaned, Ahead, Kind, Unfinished, Terminal
  <1>3. CASE Crash
    BY <1>3 DEF Crash
  <1>4. CASE Restart
    BY <1>4 DEF Restart, Cleaned, Recovered, Loaded, Ahead, Kind, Unfinished, Terminal, Status
  <1>5. ASSUME NEW k \in Task, Submit(k) PROVE Pending'
    BY <1>5 DEF Submit, Cleaned, Ahead, Kind, Unfinished, Terminal
  <1>6. ASSUME NEW k \in Task, Resume(k) PROVE Pending'
    BY <1>6 DEF Resume, Ahead, Kind, Unfinished
  <1>7. ASSUME NEW k \in Task, Begin(k) PROVE Pending'
    BY <1>7 DEF Begin, Ahead, Kind, Unfinished, Threads, OneThreadPerTask
  <1>8. ASSUME NEW k \in Task, End(k) PROVE Pending'
    BY <1>8 DEF End, Ahead, Kind, Unfinished, Terminal, Threads, OneThreadPerTask
  <1>9. ASSUME NEW k \in Task, Progress(k) PROVE Pending'
    BY <1>9 DEF Progress, Ahead, Kind
  <1>10. ASSUME NEW k \in Task, Age(k) PROVE Pending'
    BY <1>10 DEF Age, Ahead
  <1>11. CASE UNCHANGED vars
    BY <1>11 DEF vars, Ahead
  <1> QED
    BY <1>1, <1>2, <1>3, <1>4, <1>5, <1>6, <1>7, <1>8, <1>9, <1>10, <1>11
    DEF Next, ThreadStep

LEMMA Inductive == Spec => []IInv
  <1>1. TypeOK /\ IInv /\ [Next]_vars => IInv'
    BY StepThreads, StepPending DEF IInv
  <1> QED
    BY <1>1, InitIInv, Types, PTL DEF Spec

\* Every variable keeps to its values, for all tasks and bounds: TypeOK.
THEOREM TypeCorrect == Spec => []TypeOK
  BY Types

\* Repeated submissions, simultaneous resumptions, crashes and the cleanup never
\* leave a task without its thread, or with two: OneThreadPerTask.
THEOREM OneThread == Spec => []OneThreadPerTask
  <1>1. IInv => OneThreadPerTask
    BY DEF IInv, Threads
  <1> QED
    BY <1>1, Inductive, PTL

\* While the lock is free, what list_tasks shows is what a restart would read:
\* ShownIsStored.
THEOREM ShownSurvives == Spec => []ShownIsStored
  <1>1. TypeOK /\ IInv => ShownIsStored
    BY FreeIsStored DEF IInv
  <1> QED
    BY <1>1, Types, Inductive, PTL

------------------------------------------------------------------------------
(* The refinement *)

\* The board's state, as the mapping has it.
BoardKinds == [k \in Task |-> Kind(stored[k])]

LEMMA InitImplements == Init => Board!Init
  BY DEF Init, Board!Init, Kind, Unfinished

\* Only the write of the file moves the board ...
LEMMA WriteImplements == TypeOK /\ IInv /\ Write => Board!Change
  <1> SUFFICES ASSUME TypeOK, IInv, Write PROVE Board!Change
    OBVIOUS
  <1> USE DEF TypeOK, Write
  <1>1. BoardKinds' = [k \in Task |-> Kind(tasks[k])]
    BY DEF BoardKinds
  <1>2. BoardKinds' \in [Task -> Board!State]
    BY <1>1 DEF Board!State, Kind
  <1>3. ASSUME NEW k \in Task, BoardKinds'[k] # BoardKinds[k]
        PROVE  Board!Accepted(k) \/ Board!Ended(k) \/ Board!Resumed(k) \/ Board!Forgotten(k)
    <2>1. Ahead(k)
      BY DEF IInv, Pending
    <2> QED
      BY <1>1, <1>3, <2>1
      DEF BoardKinds, Ahead, Board!Accepted, Board!Ended, Board!Resumed, Board!Forgotten
  <1>4. old' = {k \in old : BoardKinds'[k] = BoardKinds[k]}
    BY <1>1 DEF BoardKinds
  <1> QED
    BY <1>2, <1>3, <1>4 DEF Board!Change, BoardKinds

\* ... and the days that pass expire what has ended.
LEMMA AgeImplements == ASSUME NEW k \in Task, TypeOK, IInv, Age(k) PROVE Board!Expire(k)
  <1>1. Kind(stored[k]) = Kind(tasks[k])
    BY FreeIsStored DEF IInv, ShownIsStored, Age
  <1>2. Kind(tasks[k]) \in {"success", "error"}
    BY DEF Age, Kind, Terminal, Unfinished
  <1> QED
    BY <1>1, <1>2 DEF Age, Board!Expire

LEMMA StepImplements == TypeOK /\ IInv /\ [Next]_vars => [Board!Next]_(Board!board)
  <1> SUFFICES ASSUME TypeOK, IInv, [Next]_vars PROVE Board!Next \/ UNCHANGED <<stored, old>>
    BY DEF Board!board
  <1>1. CASE Write
    BY <1>1, WriteImplements DEF Board!Next
  <1>2. ASSUME NEW k \in Task, Age(k) PROVE Board!Next
    BY <1>2, AgeImplements DEF Board!Next
  <1>3. CASE ListTasks \/ Crash \/ Restart \/ UNCHANGED vars
    BY <1>3 DEF ListTasks, Crash, Restart, vars
  <1>4. ASSUME NEW k \in Task, Submit(k) \/ Resume(k) \/ ThreadStep(k) \/ Progress(k)
        PROVE  UNCHANGED <<stored, old>>
    BY <1>4 DEF Submit, Resume, ThreadStep, Begin, End, Progress
  <1> QED
    BY <1>1, <1>2, <1>3, <1>4 DEF Next

\* The service keeps the promise of its board through crashes and restarts:
\* KeepsPromise.
THEOREM Implements == Spec => KeepsPromise
  BY InitImplements, StepImplements, Types, Inductive, PTL
  DEF Spec, KeepsPromise, Board!Spec

------------------------------------------------------------------------------
(* The JSON files (JsonFile)                                               *)
(*                                                                         *)
(* Proofs about the JSON files: for any number of versions, of deaths and  *)
(* of writes that fail half way, a reader finds what was last written with *)
(* success or something newer, unless the file and its backup were both    *)
(* left torn or behind.                                                    *)
(*                                                                         *)
(* The file, when it is whole, is never behind; nor is the backup, when    *)
(* the last write that came to it has ended there: the write that tears    *)
(* one of them begins when the other is done.                              *)

USE JsonFileAssumption

\* What the writer has just finished, or is in the middle of.
WriterInv ==
  /\ returned <= version
  /\ writing \in {"backup", "overwritingBackup"} => main = version
  /\ writing = "overwritingFile" => main = Torn

\* The two that are read, each not behind but where it was left so.
FilesInv ==
  /\ main # Torn => main >= returned
  /\ ~bakBehind /\ writing # "overwritingBackup" => bak >= returned

JsonInv == JsonTypeOK /\ WriterInv /\ FilesInv

LEMMA JsonInitInv == JsonInit => JsonInv
  <1> SUFFICES ASSUME JsonInit PROVE JsonInv
    OBVIOUS
  <1>1. JsonTypeOK
    <2>1. bakBehind \in BOOLEAN
      BY DEF JsonInit
    <2> QED
      BY <2>1 DEF JsonInit, JsonTypeOK, Torn, Missing
  <1>2. WriterInv /\ FilesInv
    BY DEF JsonInit, WriterInv, FilesInv, Torn, Missing
  <1> QED
    BY <1>1, <1>2 DEF JsonInv

LEMMA JsonStepInv == JsonInv /\ [JsonNext]_jsonVars => JsonInv'
  <1> SUFFICES ASSUME JsonInv, [JsonNext]_jsonVars PROVE JsonInv'
    OBVIOUS
  <1> USE DEF JsonInv, JsonTypeOK, WriterInv, FilesInv, Torn, Missing
  <1>1. CASE UNCHANGED jsonVars
    BY <1>1 DEF jsonVars
  <1>2. CASE BeginWrite
    BY <1>2 DEF BeginWrite
  <1>3. CASE WriteRefused
    BY <1>3 DEF WriteRefused
  <1>4. CASE ReplaceFile
    BY <1>4 DEF ReplaceFile
  <1>5. CASE OverwriteFile
    BY <1>5 DEF OverwriteFile
  <1>6. CASE OverwriteFails
    BY <1>6 DEF OverwriteFails
  <1>7. CASE ReplaceBackup
    <2>1. JsonTypeOK'
      <3>1. bakBehind' \in BOOLEAN
        BY <1>7 DEF ReplaceBackup
      <3> QED
        BY <1>7, <3>1 DEF ReplaceBackup, WriteReturns
    <2>2. WriterInv' /\ FilesInv'
      BY <1>7 DEF ReplaceBackup, WriteReturns
    <2> QED
      BY <2>1, <2>2
  <1>8. CASE OverwriteBackup
    <2>1. JsonTypeOK'
      <3>1. bakBehind' \in BOOLEAN
        BY <1>8 DEF OverwriteBackup
      <3> QED
        BY <1>8, <3>1 DEF OverwriteBackup, WriteReturns
    <2>2. WriterInv' /\ FilesInv'
      BY <1>8 DEF OverwriteBackup, WriteReturns
    <2> QED
      BY <2>1, <2>2
  <1>9. CASE BackupFails
    BY <1>9 DEF BackupFails, WriteReturns
  <1>10. CASE JsonDeath
    BY <1>10 DEF JsonDeath
  <1> QED
    BY <1>1, <1>2, <1>3, <1>4, <1>5, <1>6, <1>7, <1>8, <1>9, <1>10 DEF JsonNext

LEMMA JsonInvSuffices == JsonInv => WrittenIsRead
  BY DEF JsonInv, JsonTypeOK, WriterInv, FilesInv, Torn, Missing, WrittenIsRead, ReadJson

\* Whenever no write is under way, in particular after the process died and came
\* back and after a write that failed half way, read_json_file gives what
\* write_json_file last wrote with success, or something newer, unless the file was
\* left torn over a backup that had been left behind.
THEOREM JsonDurability == JsonSpec => []WrittenIsRead
  <1>1. JsonSpec => []JsonInv
    BY JsonInitInv, JsonStepInv, PTL DEF JsonSpec
  <1> QED
    BY <1>1, JsonInvSuffices, PTL

------------------------------------------------------------------------------
(* Editable files (EditableTasks)                                          *)
(*                                                                         *)
(* Proofs about the exports: whatever tasks there are, and however they    *)
(* share folders, what a successful task names was written by it, unless   *)
(* another task was about to write that path at the same time.  The        *)
(* argument follows a path from the choice of the name to the result: it   *)
(* is free when it is chosen, nobody else has chosen it, and once it is    *)
(* written it is free for nobody.                                          *)

EdKindInv ==
  /\ edStatus \in [EdTask -> EdStatuses] /\ edStep \in [EdTask -> Steps]
  /\ results = [k \in EdTask |-> results[k]] /\ target = [k \in EdTask |-> target[k]]
  /\ raced \subseteq EdTask /\ running \in BOOLEAN /\ deaths \in 0..MaxDeaths

\* A file on disk was written by a task its folder is named by.
FolderInv == \A p \in DOMAIN folders : folders[p] \in EdTask /\ Folder(folders[p]) = p[1]

Writing(k) == edStep[k] \in {"write primary", "write zip"}

\* A name that was chosen is one in the task's own folder.  Without a race it is
\* still free, and chosen by nobody else.
TargetInv ==
  \A k \in EdTask : Writing(k) =>
    /\ target[k][1] = Folder(k)
    /\ k \notin raced =>
         /\ target[k] \notin DOMAIN folders
         /\ \A m \in EdTask : m # k /\ Writing(m) => target[m] # target[k]

\* The files named so far are there, and without a race still the task's own.
ResultInv ==
  \A k \in EdTask :
    /\ DOMAIN results[k] \subseteq File
    /\ \A f \in DOMAIN results[k] :
         /\ results[k][f] \in DOMAIN folders /\ results[k][f][1] = Folder(k)
         /\ k \notin raced =>
              /\ folders[results[k][f]] = k
              /\ \A m \in EdTask : Writing(m) => target[m] # results[k][f]

\* The results are there when the step that follows them is reached.
ArrivalInv ==
  \A k \in EdTask :
    /\ edStep[k] \in {"zip", "write zip"} => "primary" \in DOMAIN results[k]
    /\ edStep[k] = "finish" \/ edStatus[k] = "success" => DOMAIN results[k] = File

EdInv == EdKindInv /\ FolderInv /\ TargetInv /\ ResultInv /\ ArrivalInv

LEMMA EdInitInv == EditableInit => EdInv
  <1> SUFFICES ASSUME EditableInit PROVE EdInv
    OBVIOUS
  <1>1. EdKindInv
    BY EditableAssumption DEF EditableInit, EdKindInv, EdStatuses, Steps
  <1>2. FolderInv /\ TargetInv /\ ResultInv /\ ArrivalInv
    BY DEF EditableInit, FolderInv, TargetInv, Writing, ResultInv, ArrivalInv
  <1> QED
    BY <1>1, <1>2 DEF EdInv

\* A step that leaves results and files alone and begins no writing.
LEMMA EdQuietStep ==
  ASSUME EdInv, UNCHANGED <<results, target, folders, raced>>,
         \A m \in EdTask : Writing(m)' => Writing(m)
  PROVE  FolderInv' /\ TargetInv' /\ ResultInv'
  <1>1. FolderInv'
    BY DEF EdInv, FolderInv
  <1>2. TargetInv'
    BY DEF EdInv, TargetInv
  <1>3. ResultInv'
    BY DEF EdInv, ResultInv
  <1> QED
    BY <1>1, <1>2, <1>3

\* A step that leaves results and files alone, of a task that does not arrive
\* where results are due.
LEMMA EdPlainStep ==
  ASSUME EdInv, NEW k \in EdTask, NEW s \in Steps, NEW st \in EdStatuses,
         edStep' = [edStep EXCEPT ![k] = s], edStatus' = [edStatus EXCEPT ![k] = st],
         s \notin {"write primary", "write zip", "zip", "finish"}, st # "success",
         UNCHANGED <<results, target, folders, raced, running, deaths>>
  PROVE  EdInv'
  <1> USE DEF EdInv, EdKindInv
  <1>1. EdKindInv'
    OBVIOUS
  <1>2. \A m \in EdTask : Writing(m)' => Writing(m)
    BY DEF Writing
  <1>3. FolderInv' /\ TargetInv' /\ ResultInv'
    BY <1>2, EdQuietStep
  <1>4. ArrivalInv'
    BY DEF ArrivalInv
  <1> QED
    BY <1>1, <1>3, <1>4

\* What the writing of a file keeps, whether it succeeds or not.
LEMMA EdWritesFile ==
  ASSUME EdInv, NEW k \in EdTask, NEW file \in File, WritesFile(k, file),
         NEW s \in Steps, s \notin {"write primary", "write zip"},
         edStep' = [edStep EXCEPT ![k] = s]
  PROVE  /\ FolderInv' /\ TargetInv'
         /\ \A m \in EdTask : Writing(m)' =>
              m # k /\ Writing(m) /\ target'[m] = target[m]
         /\ Writing(k) /\ target[k] \in DOMAIN folders' /\ folders'[target[k]] = k
         /\ DOMAIN folders \subseteq DOMAIN folders'
         /\ \A p \in DOMAIN folders : p # target[k] => folders'[p] = folders[p]
  <1> USE DEF EdInv
  <1>1. Writing(k)
    BY DEF WritesFile, Writing
  <1>2. /\ DOMAIN folders' = DOMAIN folders \cup {target[k]}
        /\ \A q \in DOMAIN folders' : folders'[q] = IF q = target[k] THEN k ELSE folders[q]
    BY DEF WritesFile
  <1>3. \A m \in EdTask : Writing(m)' => m # k /\ Writing(m) /\ target'[m] = target[m]
    BY DEF WritesFile, Writing, EdKindInv
  <1>4. FolderInv'
    BY <1>1, <1>2 DEF FolderInv, TargetInv
  <1>5. raced' = raced
    BY DEF WritesFile
  <1>6. TargetInv'
    <2> SUFFICES ASSUME NEW m \in EdTask, Writing(m)'
                 PROVE  /\ target'[m][1] = Folder(m)
                        /\ m \notin raced =>
                             /\ target'[m] \notin DOMAIN folders'
                             /\ \A j \in EdTask : j # m /\ Writing(j)' => target'[j] # target'[m]
      BY <1>5 DEF TargetInv
    <2>1. m # k /\ Writing(m) /\ target'[m] = target[m]
      BY <1>3
    <2>2. m \notin raced => target[m] \notin DOMAIN folders /\ target[k] # target[m]
      BY <1>1, <2>1 DEF TargetInv
    <2>3. ASSUME NEW j \in EdTask, m \notin raced, j # m, Writing(j)' PROVE target'[j] # target'[m]
      BY <1>3, <2>1, <2>3 DEF TargetInv
    <2> QED
      BY <1>2, <2>1, <2>2, <2>3 DEF TargetInv
  <1> QED
    BY <1>1, <1>2, <1>3, <1>4, <1>6

LEMMA EdStepInv == EdInv /\ [EditableNext]_edVars => EdInv'
  <1> SUFFICES ASSUME EdInv, [EditableNext]_edVars PROVE EdInv'
    OBVIOUS
  <1> USE DEF EdInv
  <1>1. CASE UNCHANGED edVars
    <2>1. FolderInv' /\ TargetInv' /\ ResultInv'
      BY <1>1, EdQuietStep DEF edVars, Writing
    <2> QED
      BY <1>1, <2>1 DEF edVars, EdKindInv, ArrivalInv
  <1>2. ASSUME NEW k \in EdTask, EdSubmit(k) PROVE EdInv'
    BY <1>2, EdPlainStep DEF EdSubmit, EdGo, EdUpdate, Steps, EdStatuses
  <1>3. ASSUME NEW k \in EdTask, EdStart(k) PROVE EdInv'
    BY <1>3, EdPlainStep DEF EdStart, EdGo, EdUpdate, Steps, EdStatuses
  <1>4. ASSUME NEW k \in EdTask, EdAdvance(k) PROVE EdInv'
    <2>1. /\ Following[edStep[k]] \in Steps
          /\ Following[edStep[k]] \notin {"write primary", "write zip", "zip", "finish"}
      <3>1. edStep[k] \in {"token", "upload", "prepare", "converse", "wait"}
        BY <1>4 DEF EdAdvance, Following
      <3>2. Following[edStep[k]] \in {"upload", "prepare", "converse", "wait", "primary"}
        BY <3>1 DEF Following
      <3> QED
        BY <3>2 DEF Steps
    <2>2. EdKindInv'
      BY <1>4, <2>1 DEF EdAdvance, EdGo, EdKindInv
    <2>3. \A m \in EdTask : Writing(m)' => Writing(m)
      BY <1>4, <2>1 DEF EdAdvance, EdGo, Writing, EdKindInv
    <2>4. FolderInv' /\ TargetInv' /\ ResultInv'
      BY <1>4, <2>3, EdQuietStep DEF EdAdvance
    <2>5. ArrivalInv'
      BY <1>4, <2>1 DEF EdAdvance, EdGo, ArrivalInv, EdKindInv
    <2> QED
      BY <2>2, <2>4, <2>5
  <1>5. ASSUME NEW k \in EdTask, EdFail(k) PROVE EdInv'
    BY <1>5, EdPlainStep DEF EdFail, EdGo, EdUpdate, Steps, EdStatuses
  <1>6. ASSUME NEW k \in EdTask, EdFinish(k) PROVE EdInv'
    <2>1. EdKindInv'
      BY <1>6 DEF EdFinish, EdGo, EdUpdate, Steps, EdStatuses, EdKindInv
    <2>2. \A m \in EdTask : Writing(m)' => Writing(m)
      BY <1>6 DEF EdFinish, EdGo, Writing, EdKindInv
    <2>3. FolderInv' /\ TargetInv' /\ ResultInv'
      BY <1>6, <2>2, EdQuietStep DEF EdFinish
    <2>4. ArrivalInv'
      BY <1>6 DEF EdFinish, EdGo, EdUpdate, ArrivalInv, EdKindInv
    <2> QED
      BY <2>1, <2>3, <2>4
  <1>7. ASSUME NEW k \in EdTask, NEW file \in File, Download(k, file) PROVE EdInv'
    <2>1. PICK n \in 0..MaxNumber :
            LET path == Numbered(k, file, n)
                rivals == {m \in EdTask : target[m] = path}
            IN  /\ FreeNumber(k, file, n)
                /\ target' = [target EXCEPT ![k] = path]
                /\ raced' = IF rivals = {} THEN raced ELSE raced \cup rivals \cup {k}
      BY <1>7 DEF Download
    <2> DEFINE p == Numbered(k, file, n)
    <2>2. p[1] = Folder(k) /\ p \notin DOMAIN folders
      BY <2>1 DEF Numbered, FreeNumber
    <2>3. /\ target'[k] = p /\ \A m \in EdTask : m # k => target'[m] = target[m]
          /\ target' = [m \in EdTask |-> target'[m]]
      BY <2>1 DEF EdKindInv
    <2>4. raced \subseteq raced' /\ raced' \subseteq EdTask
      BY <2>1 DEF EdKindInv
    <2>5. \A m \in EdTask : target[m] = p => m \in raced' /\ k \in raced'
      BY <2>1
    <2>6. UNCHANGED <<edStatus, results, folders, running, deaths>>
      BY <1>7 DEF Download
    <2>7. /\ edStep[k] = file /\ edStep' \in [EdTask -> Steps] /\ Writing(k)'
          /\ edStep'[k] = IF file = "primary" THEN "write primary" ELSE "write zip"
          /\ \A m \in EdTask : m # k => edStep'[m] = edStep[m]
      BY <1>7 DEF Download, EdGo, Writing, Steps, EdKindInv
    <2>8. \A m \in EdTask : m # k => (Writing(m)' <=> Writing(m))
      BY <2>7 DEF Writing
    <2> HIDE DEF p
    <2>9. EdKindInv'
      BY <2>3, <2>4, <2>6, <2>7 DEF EdKindInv
    <2>10. FolderInv'
      BY <2>6 DEF FolderInv
    <2>11. TargetInv'
      <3> SUFFICES ASSUME NEW m \in EdTask, Writing(m)'
                   PROVE  /\ target'[m][1] = Folder(m)
                          /\ m \notin raced' =>
                               /\ target'[m] \notin DOMAIN folders'
                               /\ \A j \in EdTask : j # m /\ Writing(j)' => target'[j] # target'[m]
        BY DEF TargetInv
      <3>1. CASE m = k
        BY <2>2, <2>3, <2>5, <2>6, <3>1
      <3>2. CASE m # k
        <4>1. Writing(m) /\ target'[m] = target[m]
          BY <2>3, <2>8, <3>2
        <4>2. ASSUME m \notin raced', NEW j \in EdTask, j # m, Writing(j)'
              PROVE  target'[j] # target[m]
          <5>1. CASE j = k
            BY <2>3, <2>5, <4>2, <5>1
          <5>2. CASE j # k
            BY <2>3, <2>4, <2>8, <4>1, <4>2, <5>2 DEF TargetInv
          <5> QED
            BY <5>1, <5>2
        <4> QED
          BY <2>4, <2>6, <4>1, <4>2 DEF TargetInv
      <3> QED
        BY <3>1, <3>2
    <2>12. ResultInv'
      <3>1. ASSUME NEW m \in EdTask, m \notin raced', NEW f \in DOMAIN results[m],
                   NEW j \in EdTask, Writing(j)'
            PROVE  target'[j] # results[m][f]
        <4>1. results[m][f] \in DOMAIN folders
          BY DEF ResultInv
        <4>2. CASE j = k
          BY <2>2, <2>3, <4>1, <4>2
        <4>3. CASE j # k
          BY <2>3, <2>4, <2>8, <3>1, <4>3 DEF ResultInv
        <4> QED
          BY <4>2, <4>3
      <3> QED
        BY <2>4, <2>6, <3>1 DEF ResultInv
    <2>13. ArrivalInv'
      BY <2>6, <2>7 DEF ArrivalInv, File
    <2> QED
      BY <2>9, <2>10, <2>11, <2>12, <2>13
  <1>8. ASSUME NEW k \in EdTask, NEW file \in File, WriteFile(k, file) PROVE EdInv'
    <2> DEFINE s == IF file = "primary" THEN "zip" ELSE "finish"
               p == target[k]
    <2>1. s \in Steps /\ s \notin {"write primary", "write zip"}
      BY DEF Steps
    <2>2. WritesFile(k, file) /\ edStep' = [edStep EXCEPT ![k] = s]
      BY <1>8 DEF WriteFile, EdGo
    <2> HIDE DEF s
    <2>3. /\ FolderInv' /\ TargetInv'
          /\ \A m \in EdTask : Writing(m)' => m # k /\ Writing(m) /\ target'[m] = target[m]
          /\ Writing(k) /\ p \in DOMAIN folders' /\ folders'[p] = k
          /\ DOMAIN folders \subseteq DOMAIN folders'
          /\ \A q \in DOMAIN folders : q # p => folders'[q] = folders[q]
      BY <2>1, <2>2, EdWritesFile
    <2>4. /\ \A j \in EdTask : j # k => results'[j] = results[j]
          /\ DOMAIN results'[k] = DOMAIN results[k] \cup {file}
          /\ \A f \in DOMAIN results'[k] : results'[k][f] = IF f = file THEN p ELSE results[k][f]
          /\ results' = [m \in EdTask |-> results'[m]]
      BY <1>8 DEF WriteFile, EdKindInv
    <2>5. raced' = raced /\ edStatus' = edStatus
      BY <1>8, <2>2 DEF WriteFile, WritesFile
    <2>6. EdKindInv'
      BY <2>1, <2>2, <2>4, <2>5 DEF WritesFile, EdKindInv
    <2>7. ASSUME NEW j \in EdTask PROVE DOMAIN results'[j] \subseteq File
      BY <2>4 DEF ResultInv
    <2>8. ASSUME NEW j \in EdTask, NEW f \in DOMAIN results'[j]
          PROVE  /\ results'[j][f] \in DOMAIN folders' /\ results'[j][f][1] = Folder(j)
                 /\ j \notin raced =>
                      /\ folders'[results'[j][f]] = j
                      /\ \A m \in EdTask : Writing(m)' => target'[m] # results'[j][f]
      <3>1. CASE j = k /\ f = file
        <4>1. results'[j][f] = p
          BY <2>4, <3>1
        <4>2. p[1] = Folder(k)
          BY <2>3 DEF TargetInv
        <4>3. ASSUME NEW m \in EdTask, Writing(m)', k \notin raced PROVE target'[m] # p
          BY <2>3, <4>3 DEF TargetInv
        <4> HIDE DEF p
        <4> QED
          BY <2>3, <3>1, <4>1, <4>2, <4>3
      <3>2. CASE ~(j = k /\ f = file)
        <4>1. f \in DOMAIN results[j] /\ results'[j][f] = results[j][f]
          BY <2>4, <3>2
        <4>2. /\ results[j][f] \in DOMAIN folders /\ results[j][f][1] = Folder(j)
              /\ j \notin raced =>
                   /\ folders[results[j][f]] = j
                   /\ \A m \in EdTask : Writing(m) => target[m] # results[j][f]
          BY <4>1 DEF ResultInv
        <4>3. j \notin raced => results[j][f] # p
          BY <2>3, <4>2
        <4> HIDE DEF p
        <4> QED
          BY <2>3, <4>1, <4>2, <4>3
      <3> QED
        BY <3>1, <3>2
    <2>9. ResultInv'
      BY <2>5, <2>7, <2>8 DEF ResultInv
    <2>10. ASSUME NEW j \in EdTask, j # k
           PROVE  /\ edStep'[j] \in {"zip", "write zip"} => "primary" \in DOMAIN results'[j]
                  /\ edStep'[j] = "finish" \/ edStatus'[j] = "success" => DOMAIN results'[j] = File
      BY <2>2, <2>4, <2>5, <2>10 DEF ArrivalInv, EdKindInv
    <2>11. /\ edStep'[k] \in {"zip", "write zip"} => "primary" \in DOMAIN results'[k]
           /\ edStep'[k] = "finish" \/ edStatus'[k] = "success" => DOMAIN results'[k] = File
      <3>1. edStep'[k] = s
        BY <2>2 DEF EdKindInv
      <3>2. edStatus'[k] = "success" => DOMAIN results'[k] = File
        <4>1. edStatus[k] = "success" => DOMAIN results[k] = File
          BY DEF ArrivalInv
        <4>2. File \cup {file} = File
          OBVIOUS
        <4> QED
          BY <2>4, <2>5, <4>1, <4>2
      <3>3. CASE file = "primary"
        BY <2>4, <3>1, <3>2, <3>3 DEF s
      <3>4. CASE file = "zip"
        <4>1. "primary" \in DOMAIN results[k] /\ DOMAIN results[k] \subseteq File
          BY <2>2, <3>4 DEF WritesFile, ArrivalInv, ResultInv
        <4>2. DOMAIN results'[k] = File
          BY <2>4, <3>4, <4>1 DEF File
        <4> QED
          BY <3>1, <3>4, <4>2 DEF s
      <3> QED
        BY <3>3, <3>4 DEF File
    <2>12. ArrivalInv'
      BY <2>10, <2>11 DEF ArrivalInv
    <2> QED
      BY <2>3, <2>6, <2>9, <2>12
  <1>9. ASSUME NEW k \in EdTask, NEW file \in File, WriteFails(k, file) PROVE EdInv'
    <2>1. /\ WritesFile(k, file) /\ edStep' = [edStep EXCEPT ![k] = "none"]
          /\ edStatus' = [edStatus EXCEPT ![k] = "error"] /\ results' = results
      BY <1>9 DEF WriteFails, EdGo, EdUpdate
    <2>2. "none" \in Steps /\ "error" \in EdStatuses
      BY DEF Steps, EdStatuses
    <2>3. /\ FolderInv' /\ TargetInv'
          /\ \A m \in EdTask : Writing(m)' => m # k /\ Writing(m) /\ target'[m] = target[m]
          /\ Writing(k) /\ DOMAIN folders \subseteq DOMAIN folders'
          /\ \A q \in DOMAIN folders : q # target[k] => folders'[q] = folders[q]
      BY <2>1, <2>2, EdWritesFile
    <2>4. EdKindInv'
      BY <2>1, <2>2 DEF WritesFile, EdKindInv
    <2>5. ResultInv'
      <3>1. raced' = raced
        BY <2>1 DEF WritesFile
      <3>2. ASSUME NEW j \in EdTask, NEW f \in DOMAIN results[j]
            PROVE  /\ results[j][f] \in DOMAIN folders' /\ results[j][f][1] = Folder(j)
                   /\ j \notin raced =>
                        /\ folders'[results[j][f]] = j
                        /\ \A m \in EdTask : Writing(m)' => target'[m] # results[j][f]
        BY <2>3 DEF ResultInv
      <3> QED
        BY <2>1, <3>1, <3>2 DEF ResultInv
    <2>6. ArrivalInv'
      BY <2>1 DEF ArrivalInv, EdKindInv
    <2> QED
      BY <2>3, <2>4, <2>5, <2>6
  <1>10. CASE Die
    <2>1. deaths' \in 0..MaxDeaths
      BY <1>10, EditableAssumption DEF Die, EdKindInv
    <2>2. EdKindInv'
      BY <1>10, <2>1 DEF Die, Steps, EdKindInv
    <2>3. \A m \in EdTask : ~Writing(m)'
      BY <1>10 DEF Die, Writing
    <2>4. FolderInv' /\ TargetInv' /\ ResultInv'
      BY <1>10, <2>3 DEF Die, FolderInv, TargetInv, ResultInv
    <2>5. ArrivalInv'
      BY <1>10 DEF Die, ArrivalInv
    <2> QED
      BY <2>2, <2>4, <2>5
  <1>11. CASE Revive
    <2>1. EdKindInv'
      BY <1>11 DEF Revive, EdRecovered, EdStatuses, EdKindInv
    <2>2. FolderInv' /\ TargetInv' /\ ResultInv'
      BY <1>11, EdQuietStep DEF Revive, Writing
    <2>3. ArrivalInv'
      BY <1>11 DEF Revive, EdRecovered, ArrivalInv
    <2> QED
      BY <2>1, <2>2, <2>3
  <1> QED
    BY <1>1, <1>2, <1>3, <1>4, <1>5, <1>6, <1>7, <1>8, <1>9, <1>10, <1>11
    DEF EditableNext, EdWork

\* A successful task names both files, and each is the one it wrote, whatever part of
\* the ids names the folders and however exports, failing writes, deaths and restarts
\* interleave, unless it was about to write a path together with another task: then
\* it may be the other one's, who shares its folder.
THEOREM ExportsAreOwn == EditableSpec => []ResultsAreOwn
  <1>1. EdInv => ResultsAreOwn
    <2> SUFFICES ASSUME EdInv PROVE ResultsAreOwn
      OBVIOUS
    <2>1. EditableTypeOK
      BY DEF EdInv, EdKindInv, ResultInv, EditableTypeOK
    <2>2. ASSUME NEW k \in EdTask, edStatus[k] = "success" PROVE DOMAIN results[k] = File
      BY <2>2 DEF EdInv, ArrivalInv
    <2>3. ASSUME NEW k \in EdTask, edStatus[k] = "success", NEW f \in File
          PROVE  LET writer == folders[results[k][f]]
                 IN  Folder(writer) = Folder(k) /\ (k \notin raced => writer = k)
      <3>1. /\ results[k][f] \in DOMAIN folders /\ results[k][f][1] = Folder(k)
            /\ k \notin raced => folders[results[k][f]] = k
        BY <2>2, <2>3 DEF EdInv, ResultInv
      <3> QED
        BY <3>1 DEF EdInv, FolderInv
    <2> QED
      BY <2>1, <2>2, <2>3 DEF ResultsAreOwn
  <1>2. EditableSpec => []EdInv
    BY EdInitInv, EdStepInv, PTL DEF EditableSpec
  <1> QED
    BY <1>1, <1>2, PTL

------------------------------------------------------------------------------
(* The turn that makes an image (ImageTurn)                                *)
(*                                                                         *)
(* Proofs about the turn: for every budget, interval and settling time,    *)
(* and however long calls take, its images are those of its conversation,  *)
(* and those that are to be checked have settled.                          *)
(*                                                                         *)
(* What the turn knows of images comes from its conversation until it      *)
(* takes up one it has found among the recent ones; and while it polls,    *)
(* the last hit is all it knows and has settled by its clock, so giving up *)
(* at any moment is sound.                                                 *)

\* Before its conversation is looked for, all a turn knows is its own.
OwnInv ==
  /\ ~recovered => conv # "other" /\ fromStream \cup polled \subseteq committed
  /\ tuStep = "poll" => conv # "none"

\* What was found has been there for a settling time, or there is no time left.
Waited == tuClock >= hitAt + SettleTime \/ tuClock >= Budget

\* Nothing is polled before the polling; then the last hit is what is known.
SettledInv ==
  /\ tuStep \in {"stream", "ended", "followup"} => polled = {}
  /\ tuStep = "poll" /\ checkFirst => lastHit = polled
  /\ tuStep = "poll" /\ checkFirst /\ settling /\ polled # {} => Waited

\* A refusal that was told was said.
RefusalInv == taskError = "policy" \/ tuStep = "policy" => says = "policy"

\* The images that were downloaded.
GotInv == tuStep = "result" => got # {} /\ (recovered \/ got \subseteq committed)

\* What the polling handed over had settled.
HandedInv ==
  tuStep = "urls" /\ checkFirst /\ settling /\ polled = fromStream /\ polled # {} =>
    lastHit = polled /\ Waited

TurnInv == TurnTypeOK /\ OwnInv /\ SettledInv /\ RefusalInv /\ GotInv /\ HandedInv

LEMMA Clocks ==
  ASSUME TurnTypeOK
  PROVE  /\ Budget + CallTime \in Nat /\ hitAt \in 0..(Budget + CallTime)
         /\ tuClock \in Nat /\ tuClock \in 0..(Budget + CallTime)
  <1>1. Budget + CallTime \in Nat
    BY ImageTurnAssumption
  <1>2. hitAt \in 0..(Budget + CallTime) /\ tuClock \in 0..(Budget + CallTime)
    BY DEF TurnTypeOK
  <1> QED
    BY <1>1, <1>2

LEMMA MinOfTwo ==
  ASSUME NEW a \in Nat, NEW b \in Nat
  PROVE  Min({a, b}) \in {a, b} /\ Min({a, b}) <= a /\ Min({a, b}) <= b
  <1>1. CASE a <= b
    <2>1. a \in {a, b} /\ \A y \in {a, b} : a <= y
      BY <1>1
    <2> QED
      BY <2>1 DEF Min
  <1>2. CASE b <= a
    <2>1. b \in {a, b} /\ \A y \in {a, b} : b <= y
      BY <1>2
    <2> QED
      BY <2>1 DEF Min
  <1> QED
    BY <1>1, <1>2

\* A sleep is over when it should be, or at the end of the budget.
LEMMA SleptWithin ==
  ASSUME NEW from \in Nat, NEW wait \in Nat
  PROVE  /\ Slept(from, wait) \in Nat /\ Slept(from, wait) <= Budget
         /\ Slept(from, wait) \in {Budget, from + wait}
  <1>1. Budget \in Nat /\ from + wait \in Nat
    BY ImageTurnAssumption
  <1> QED
    BY <1>1, MinOfTwo DEF Slept

LEMMA TurnInitInv == TurnInit => TurnInv
  <1> SUFFICES ASSUME TurnInit PROVE TurnInv
    OBVIOUS
  <1>1. TurnTypeOK
    <2>1. 0 \in 0..(Budget + CallTime)
      BY ImageTurnAssumption
    <2> QED
      BY <2>1 DEF TurnInit, TurnTypeOK, Words
  <1>2. OwnInv /\ SettledInv /\ RefusalInv /\ GotInv /\ HandedInv
    BY DEF TurnInit, OwnInv, SettledInv, RefusalInv, GotInv, HandedInv
  <1> QED
    BY <1>1, <1>2 DEF TurnInv

\* What a look shows.
LEMMA ShownIds ==
  ASSUME TurnInv
  PROVE  /\ \A c : Shown(c) \subseteq Ids /\ Said(c) \in Words
         /\ \A c : c # "other" => c = "own" \/ c = "none" \/ Shown(c) = {Alien}
         /\ \A c : Said(c) = "policy" => says = "policy"
         /\ Shown("own") = committed
         /\ Budget \in Nat /\ SettleTime \in Nat /\ CallTime \in Nat /\ Interval \in Nat
         /\ InitialWait \in Nat
  BY ImageTurnAssumption DEF TurnInv, TurnTypeOK, Shown, Said, Ids, Words

LEMMA CommitSound == TurnInv /\ Commit => TurnInv'
  <1> SUFFICES ASSUME TurnInv, Commit PROVE TurnInv'
    OBVIOUS
  <1> USE DEF TurnInv, upstream, settings, polling, streamed
  <1>1. TurnTypeOK'
    <2>1. checkFirst' \in BOOLEAN /\ settling' \in BOOLEAN /\ recovered' \in BOOLEAN /\ imageTurn' \in BOOLEAN
      BY DEF Commit, TurnTypeOK
    <2>2. committed' \subseteq TuImage /\ says' \in Words /\ spoken' \in Words \cup {"blocked"} /\ taskError' \in Words
      BY DEF Commit, TurnTypeOK, Words
    <2>3. fromStream' \subseteq Ids /\ polled' \subseteq Ids /\ lastHit' \subseteq Ids /\ got' \subseteq Ids
      BY DEF Commit, TurnTypeOK, Ids
    <2>4. /\ conv' \in {"none", "own", "other"}
          /\ tuStep' \in {"stream", "ended", "followup", "poll", "urls", "urls of followup"} \cup Ends
      BY DEF Commit, TurnTypeOK, Ends
    <2>5. hitAt' \in 0..(Budget + CallTime) /\ tuClock' \in 0..(Budget + CallTime)
      BY DEF Commit, TurnTypeOK
    <2> QED
      BY <2>1, <2>2, <2>3, <2>4, <2>5 DEF TurnTypeOK
  <1>2. OwnInv'
    BY DEF Commit, OwnInv
  <1>3. SettledInv'
    BY DEF Commit, SettledInv, Waited
  <1>4. RefusalInv'
    BY DEF Commit, RefusalInv
  <1>5. GotInv'
    BY DEF Commit, GotInv, TurnTypeOK
  <1>6. HandedInv'
    BY DEF Commit, HandedInv, Waited
  <1> QED
    BY <1>1, <1>2, <1>3, <1>4, <1>5, <1>6

LEMMA SaySound == TurnInv /\ Say => TurnInv'
  <1> SUFFICES ASSUME TurnInv, Say PROVE TurnInv'
    OBVIOUS
  <1> USE DEF TurnInv, upstream, settings, polling, streamed
  <1>1. TurnTypeOK'
    <2>1. checkFirst' \in BOOLEAN /\ settling' \in BOOLEAN /\ recovered' \in BOOLEAN /\ imageTurn' \in BOOLEAN
      BY DEF Say, TurnTypeOK
    <2>2. committed' \subseteq TuImage /\ says' \in Words /\ spoken' \in Words \cup {"blocked"} /\ taskError' \in Words
      BY DEF Say, TurnTypeOK, Words
    <2>3. fromStream' \subseteq Ids /\ polled' \subseteq Ids /\ lastHit' \subseteq Ids /\ got' \subseteq Ids
      BY DEF Say, TurnTypeOK, Ids
    <2>4. /\ conv' \in {"none", "own", "other"}
          /\ tuStep' \in {"stream", "ended", "followup", "poll", "urls", "urls of followup"} \cup Ends
      BY DEF Say, TurnTypeOK, Ends
    <2>5. hitAt' \in 0..(Budget + CallTime) /\ tuClock' \in 0..(Budget + CallTime)
      BY DEF Say, TurnTypeOK
    <2> QED
      BY <2>1, <2>2, <2>3, <2>4, <2>5 DEF TurnTypeOK
  <1>2. OwnInv'
    BY DEF Say, OwnInv
  <1>3. SettledInv'
    BY DEF Say, SettledInv, Waited
  <1>4. RefusalInv'
    BY DEF Say, RefusalInv
  <1>5. GotInv'
    BY DEF Say, GotInv, TurnTypeOK
  <1>6. HandedInv'
    BY DEF Say, HandedInv, Waited
  <1> QED
    BY <1>1, <1>2, <1>3, <1>4, <1>5, <1>6

LEMMA StreamTellsSound == TurnInv /\ StreamTells => TurnInv'
  <1> SUFFICES ASSUME TurnInv, StreamTells PROVE TurnInv'
    OBVIOUS
  <1> USE DEF TurnInv, upstream, settings, polling, streamed
  <1>1. TurnTypeOK'
    <2>1. checkFirst' \in BOOLEAN /\ settling' \in BOOLEAN /\ recovered' \in BOOLEAN /\ imageTurn' \in BOOLEAN
      BY DEF StreamTells, TurnTypeOK
    <2>2. committed' \subseteq TuImage /\ says' \in Words /\ spoken' \in Words \cup {"blocked"} /\ taskError' \in Words
      BY DEF StreamTells, TurnTypeOK, Words
    <2>3. fromStream' \subseteq Ids /\ polled' \subseteq Ids /\ lastHit' \subseteq Ids /\ got' \subseteq Ids
      BY DEF StreamTells, TurnTypeOK, Ids
    <2>4. /\ conv' \in {"none", "own", "other"}
          /\ tuStep' \in {"stream", "ended", "followup", "poll", "urls", "urls of followup"} \cup Ends
      BY DEF StreamTells, TurnTypeOK, Ends
    <2>5. hitAt' \in 0..(Budget + CallTime) /\ tuClock' \in 0..(Budget + CallTime)
      BY DEF StreamTells, TurnTypeOK
    <2> QED
      BY <2>1, <2>2, <2>3, <2>4, <2>5 DEF TurnTypeOK
  <1>2. OwnInv'
    BY DEF StreamTells, OwnInv
  <1>3. SettledInv'
    BY DEF StreamTells, SettledInv, Waited
  <1>4. RefusalInv'
    BY DEF StreamTells, RefusalInv
  <1>5. GotInv'
    BY DEF StreamTells, GotInv, TurnTypeOK
  <1>6. HandedInv'
    BY DEF StreamTells, HandedInv, Waited
  <1> QED
    BY <1>1, <1>2, <1>3, <1>4, <1>5, <1>6

LEMMA StreamEndsSound == TurnInv /\ StreamEnds => TurnInv'
  <1> SUFFICES ASSUME TurnInv, StreamEnds PROVE TurnInv'
    OBVIOUS
  <1> USE DEF TurnInv, upstream, settings, polling, streamed
  <1>1. TurnTypeOK'
    <2>1. checkFirst' \in BOOLEAN /\ settling' \in BOOLEAN /\ recovered' \in BOOLEAN /\ imageTurn' \in BOOLEAN
      BY DEF StreamEnds, TurnTypeOK
    <2>2. committed' \subseteq TuImage /\ says' \in Words /\ spoken' \in Words \cup {"blocked"} /\ taskError' \in Words
      BY DEF StreamEnds, TurnTypeOK, Words
    <2>3. fromStream' \subseteq Ids /\ polled' \subseteq Ids /\ lastHit' \subseteq Ids /\ got' \subseteq Ids
      BY DEF StreamEnds, TurnTypeOK, Ids
    <2>4. /\ conv' \in {"none", "own", "other"}
          /\ tuStep' \in {"stream", "ended", "followup", "poll", "urls", "urls of followup"} \cup Ends
      BY DEF StreamEnds, TurnTypeOK, Ends
    <2>5. hitAt' \in 0..(Budget + CallTime) /\ tuClock' \in 0..(Budget + CallTime)
      BY DEF StreamEnds, TurnTypeOK
    <2> QED
      BY <2>1, <2>2, <2>3, <2>4, <2>5 DEF TurnTypeOK
  <1>2. OwnInv'
    BY DEF StreamEnds, OwnInv
  <1>3. SettledInv'
    BY DEF StreamEnds, SettledInv, Waited
  <1>4. RefusalInv'
    BY DEF StreamEnds, RefusalInv
  <1>5. GotInv'
    BY DEF StreamEnds, GotInv, TurnTypeOK
  <1>6. HandedInv'
    BY DEF StreamEnds, HandedInv, Waited
  <1> QED
    BY <1>1, <1>2, <1>3, <1>4, <1>5, <1>6

LEMMA FetchImagesSound == TurnInv /\ FetchImages => TurnInv'
  <1> SUFFICES ASSUME TurnInv, FetchImages PROVE TurnInv'
    OBVIOUS
  <1> USE DEF TurnInv, upstream, settings, polling, streamed
  <1>1. TurnTypeOK'
    <2>1. checkFirst' \in BOOLEAN /\ settling' \in BOOLEAN /\ recovered' \in BOOLEAN /\ imageTurn' \in BOOLEAN
      BY DEF FetchImages, WithUrl, TurnTypeOK
    <2>2. committed' \subseteq TuImage /\ says' \in Words /\ spoken' \in Words \cup {"blocked"} /\ taskError' \in Words
      BY DEF FetchImages, WithUrl, TurnTypeOK, Words
    <2>3. fromStream' \subseteq Ids /\ polled' \subseteq Ids /\ lastHit' \subseteq Ids /\ got' \subseteq Ids
      BY DEF FetchImages, WithUrl, TurnTypeOK, Ids
    <2>4. /\ conv' \in {"none", "own", "other"}
          /\ tuStep' \in {"stream", "ended", "followup", "poll", "urls", "urls of followup"} \cup Ends
      BY DEF FetchImages, WithUrl, TurnTypeOK, Ends
    <2>5. hitAt' \in 0..(Budget + CallTime) /\ tuClock' \in 0..(Budget + CallTime)
      BY DEF FetchImages, WithUrl, TurnTypeOK
    <2> QED
      BY <2>1, <2>2, <2>3, <2>4, <2>5 DEF TurnTypeOK
  <1>2. OwnInv'
    BY DEF FetchImages, WithUrl, OwnInv
  <1>3. SettledInv'
    BY DEF FetchImages, WithUrl, SettledInv, Waited
  <1>4. RefusalInv'
    BY DEF FetchImages, WithUrl, RefusalInv
  <1>5. GotInv'
    BY DEF FetchImages, WithUrl, GotInv, OwnInv
  <1>6. HandedInv'
    BY DEF FetchImages, WithUrl, HandedInv, Waited
  <1> QED
    BY <1>1, <1>2, <1>3, <1>4, <1>5, <1>6

LEMMA PollTimeoutSound == TurnInv /\ PollTimeout => TurnInv'
  <1> SUFFICES ASSUME TurnInv, PollTimeout PROVE TurnInv'
    OBVIOUS
  <1> USE DEF TurnInv, upstream, settings, polling, streamed
  <1>1. TurnTypeOK'
    <2>1. checkFirst' \in BOOLEAN /\ settling' \in BOOLEAN /\ recovered' \in BOOLEAN /\ imageTurn' \in BOOLEAN
      BY DEF PollTimeout, InTime, GiveUpPolling, TurnTypeOK
    <2>2. committed' \subseteq TuImage /\ says' \in Words /\ spoken' \in Words \cup {"blocked"} /\ taskError' \in Words
      BY DEF PollTimeout, InTime, GiveUpPolling, TurnTypeOK, Words
    <2>3. fromStream' \subseteq Ids /\ polled' \subseteq Ids /\ lastHit' \subseteq Ids /\ got' \subseteq Ids
      BY DEF PollTimeout, InTime, GiveUpPolling, TurnTypeOK, Ids
    <2>4. /\ conv' \in {"none", "own", "other"}
          /\ tuStep' \in {"stream", "ended", "followup", "poll", "urls", "urls of followup"} \cup Ends
      BY DEF PollTimeout, InTime, GiveUpPolling, TurnTypeOK, Ends
    <2>5. hitAt' \in 0..(Budget + CallTime) /\ tuClock' \in 0..(Budget + CallTime)
      BY DEF PollTimeout, InTime, GiveUpPolling, TurnTypeOK
    <2> QED
      BY <2>1, <2>2, <2>3, <2>4, <2>5 DEF TurnTypeOK
  <1>2. OwnInv'
    BY DEF PollTimeout, InTime, GiveUpPolling, OwnInv
  <1>3. SettledInv'
    BY DEF PollTimeout, InTime, GiveUpPolling, SettledInv, Waited
  <1>4. RefusalInv'
    BY DEF PollTimeout, InTime, GiveUpPolling, RefusalInv
  <1>5. GotInv'
    BY DEF PollTimeout, InTime, GiveUpPolling, GotInv, TurnTypeOK
  <1>6. HandedInv'
    BY DEF PollTimeout, InTime, GiveUpPolling, HandedInv, SettledInv, Waited
  <1> QED
    BY <1>1, <1>2, <1>3, <1>4, <1>5, <1>6

LEMMA LookRefusedSound == TurnInv /\ LookRefused => TurnInv'
  <1> SUFFICES ASSUME TurnInv, LookRefused PROVE TurnInv'
    OBVIOUS
  <1> USE DEF TurnInv, upstream, settings, polling, streamed
  <1>1. TurnTypeOK'
    <2>1. checkFirst' \in BOOLEAN /\ settling' \in BOOLEAN /\ recovered' \in BOOLEAN /\ imageTurn' \in BOOLEAN
      BY DEF LookRefused, InTime, GiveUpPolling, TurnTypeOK
    <2>2. committed' \subseteq TuImage /\ says' \in Words /\ spoken' \in Words \cup {"blocked"} /\ taskError' \in Words
      BY DEF LookRefused, InTime, GiveUpPolling, TurnTypeOK, Words
    <2>3. fromStream' \subseteq Ids /\ polled' \subseteq Ids /\ lastHit' \subseteq Ids /\ got' \subseteq Ids
      BY DEF LookRefused, InTime, GiveUpPolling, TurnTypeOK, Ids
    <2>4. /\ conv' \in {"none", "own", "other"}
          /\ tuStep' \in {"stream", "ended", "followup", "poll", "urls", "urls of followup"} \cup Ends
      BY DEF LookRefused, InTime, GiveUpPolling, TurnTypeOK, Ends
    <2>5. hitAt' \in 0..(Budget + CallTime) /\ tuClock' \in 0..(Budget + CallTime)
      BY DEF LookRefused, InTime, GiveUpPolling, TurnTypeOK
    <2> QED
      BY <2>1, <2>2, <2>3, <2>4, <2>5 DEF TurnTypeOK
  <1>2. OwnInv'
    BY DEF LookRefused, InTime, GiveUpPolling, OwnInv
  <1>3. SettledInv'
    BY DEF LookRefused, InTime, GiveUpPolling, SettledInv, Waited
  <1>4. RefusalInv'
    BY DEF LookRefused, InTime, GiveUpPolling, RefusalInv
  <1>5. GotInv'
    BY DEF LookRefused, InTime, GiveUpPolling, GotInv, TurnTypeOK
  <1>6. HandedInv'
    BY DEF LookRefused, InTime, GiveUpPolling, HandedInv, SettledInv, Waited
  <1> QED
    BY <1>1, <1>2, <1>3, <1>4, <1>5, <1>6

\* What Look does with the ids it knows now.
LookAt(now, ids) ==
  /\ polled' = ids
  /\ \/ /\ ids = {} /\ Said(conv) # "policy"
        /\ tuClock' = IF now < Budget THEN Slept(now, Interval) ELSE now
        /\ UNCHANGED <<tuStep, fromStream, lastHit, hitAt>>
     \/ /\ ids = {} /\ Said(conv) # "none"
        /\ tuStep' = IF Said(conv) = "policy" THEN "policy" ELSE "text reply"
        /\ tuClock' = now /\ UNCHANGED <<fromStream, lastHit, hitAt>>
     \/ /\ ids # {} /\ (~checkFirst \/ Confirmed(ids))
        /\ tuStep' = "urls" /\ fromStream' = ids
        /\ tuClock' = now /\ UNCHANGED <<lastHit, hitAt>>
     \/ /\ ids # {} /\ checkFirst /\ ~Confirmed(ids)
        /\ lastHit' = ids /\ hitAt' = now
        /\ IF settling /\ now < Budget
             THEN tuClock' = Slept(now, SettleTime) /\ UNCHANGED <<tuStep, fromStream>>
             ELSE tuStep' = "urls" /\ fromStream' = ids /\ tuClock' = now

LEMMA AfterStreamSound == TurnInv /\ AfterStream => TurnInv'
  <1> SUFFICES ASSUME TurnInv, AfterStream PROVE TurnInv'
    OBVIOUS
  <1> USE DEF TurnInv, upstream, settings, polling, streamed
  <1>a. /\ conv' \in {"none", "own", "other"} /\ recovered' \in BOOLEAN
        /\ ~recovered' => ~recovered /\ conv' = conv
    BY DEF AfterStream, Recover, Recent, TurnTypeOK
  <1>b. taskError' \in Words /\ (taskError' = "policy" => says = "policy")
    BY <1>a, ShownIds DEF AfterStream, TasksTell, TaskWords, TurnTypeOK, RefusalInv, Words
  <1>c. /\ tuStep' \in {"words", "text reply", "urls", "poll"}
        /\ UNCHANGED <<upstream, settings, streamed, got>> /\ polled = {}
    BY DEF AfterStream, SettledInv
  <1>d. /\ tuStep' # "poll" => UNCHANGED polling
        /\ tuStep' = "poll" =>
             /\ polled' = fromStream /\ lastHit' = fromStream /\ hitAt' = 0
             /\ tuClock' = Min({Budget, IF fromStream # {} /\ settling THEN SettleTime ELSE InitialWait})
    BY DEF AfterStream
  <1>e. tuStep' = "poll" => /\ tuClock' \in Nat /\ tuClock' <= Budget
                            /\ fromStream # {} /\ settling => tuClock' \in {Budget, SettleTime}
    BY <1>d, MinOfTwo, ImageTurnAssumption
  <1>1. TurnTypeOK'
    <2>1. hitAt' \in 0..(Budget + CallTime) /\ tuClock' \in 0..(Budget + CallTime)
      <3>1. Budget \in Nat /\ CallTime \in Nat
        BY ImageTurnAssumption
      <3>2. CASE tuStep' = "poll"
        BY <1>d, <1>e, <3>1, <3>2
      <3>3. CASE tuStep' # "poll"
        BY <1>d, <3>3 DEF TurnTypeOK
      <3> QED
        BY <3>2, <3>3
    <2>2. polled' \subseteq Ids /\ lastHit' \subseteq Ids
      BY <1>d DEF TurnTypeOK
    <2> QED
      BY <1>a, <1>b, <1>c, <2>1, <2>2 DEF TurnTypeOK, Ends
  <1>2. OwnInv'
    <2>1. tuStep' = "poll" => conv' # "none"
      BY DEF AfterStream
    <2> QED
      BY <1>a, <1>c, <1>d, <2>1 DEF OwnInv
  <1>3. SettledInv'
    <2>1. tuStep' = "poll" /\ settling /\ fromStream # {} => Waited'
      BY <1>d, <1>e, ImageTurnAssumption DEF Waited
    <2> QED
      BY <1>c, <1>d, <2>1 DEF SettledInv
  <1>4. RefusalInv'
    BY <1>b, <1>c DEF RefusalInv
  <1>5. GotInv'
    BY <1>c DEF GotInv
  <1>6. HandedInv'
    BY <1>c, <1>d DEF HandedInv
  <1> QED
    BY <1>1, <1>2, <1>3, <1>4, <1>5, <1>6

LEMMA FollowUpSound == TurnInv /\ FollowUp => TurnInv'
  <1> SUFFICES ASSUME TurnInv, FollowUp PROVE TurnInv'
    OBVIOUS
  <1> USE DEF TurnInv, upstream, settings, polling, streamed
  <1>a. /\ conv' \in {"none", "own", "other"} /\ recovered' \in BOOLEAN
        /\ ~recovered' => ~recovered /\ conv' = conv
    BY DEF FollowUp, Recover, Recent, TurnTypeOK
  <1>b. taskError' \in Words /\ (taskError' = "policy" => says = "policy")
    BY <1>a, ShownIds DEF FollowUp, TasksTell, TaskWords, TurnTypeOK, RefusalInv, Words
  <1>c. /\ tuStep' \in {"policy", "stream timeout", "urls of followup"} /\ polled = {}
        /\ UNCHANGED <<upstream, settings, imageTurn, spoken, polling, got>>
    BY DEF FollowUp, SettledInv
  <1>d. /\ fromStream' = fromStream \/ (conv' # "none" /\ fromStream' = fromStream \cup Shown(conv'))
        /\ tuStep' = "policy" => says = "policy"
    BY <1>a, <1>b, ShownIds DEF FollowUp
  <1>1. TurnTypeOK'
    <2>1. fromStream' \subseteq Ids
      BY <1>d, ShownIds DEF TurnTypeOK
    <2> QED
      BY <1>a, <1>b, <1>c, <2>1 DEF TurnTypeOK, Ends
  <1>2. OwnInv'
    <2>1. ~recovered' /\ conv' # "none" => Shown(conv') = committed
      BY <1>a DEF OwnInv, Shown
    <2> QED
      BY <1>a, <1>c, <1>d, <2>1 DEF OwnInv
  <1>3. SettledInv'
    BY <1>c DEF SettledInv
  <1>4. RefusalInv'
    BY <1>b, <1>c, <1>d DEF RefusalInv
  <1>5. GotInv'
    BY <1>c DEF GotInv
  <1>6. HandedInv'
    BY <1>c DEF HandedInv
  <1> QED
    BY <1>1, <1>2, <1>3, <1>4, <1>5, <1>6

LEMMA LookFailsSound == TurnInv /\ LookFails => TurnInv'
  <1> SUFFICES ASSUME TurnInv, LookFails PROVE TurnInv'
    OBVIOUS
  <1> USE DEF TurnInv, upstream, settings, polling, streamed
  <1>a. taskError' \in Words /\ (taskError' = "policy" => says = "policy")
    BY ShownIds DEF LookFails, TasksTell, TaskWords, Words
  <1>b. /\ tuStep = "poll" /\ tuClock < Budget /\ tuClock \in Nat
        /\ UNCHANGED <<upstream, settings, tuStep, conv, recovered, streamed, polled, lastHit, hitAt, got>>
    BY ImageTurnAssumption DEF LookFails, InTime, TurnTypeOK
  <1>c. PICK spent \in 0..CallTime, backoff \in 0..Interval :
          tuClock' = IF tuClock + spent < Budget THEN Slept(tuClock + spent, backoff)
                                                 ELSE tuClock + spent
    BY DEF LookFails
  <1>d. /\ Slept(tuClock + spent, backoff) \in Nat /\ Slept(tuClock + spent, backoff) <= Budget
        /\ Slept(tuClock + spent, backoff) \in {Budget, tuClock + spent + backoff}
    <2>1. tuClock + spent \in Nat /\ backoff \in Nat
      BY <1>b, ImageTurnAssumption
    <2> QED
      BY <2>1, SleptWithin
  <1>e. tuClock' \in Nat /\ tuClock' >= tuClock /\ tuClock' <= Budget + CallTime
    BY <1>b, <1>c, <1>d, ImageTurnAssumption
  <1>1. TurnTypeOK'
    <2>1. tuClock' \in 0..(Budget + CallTime)
      BY <1>e, ImageTurnAssumption
    <2> QED
      BY <1>a, <1>b, <2>1 DEF TurnTypeOK
  <1>2. OwnInv'
    BY <1>b DEF OwnInv
  <1>3. SettledInv'
    <2>1. Waited => Waited'
      BY <1>b, <1>e, ImageTurnAssumption DEF Waited, TurnTypeOK
    <2> QED
      BY <1>b, <2>1 DEF SettledInv
  <1>4. RefusalInv'
    BY <1>a, <1>b DEF RefusalInv
  <1>5. GotInv'
    BY <1>b DEF GotInv
  <1>6. HandedInv'
    BY <1>b DEF HandedInv
  <1> QED
    BY <1>1, <1>2, <1>3, <1>4, <1>5, <1>6

LEMMA LookSound == TurnInv /\ Look => TurnInv'
  <1> SUFFICES ASSUME TurnInv, Look PROVE TurnInv'
    OBVIOUS
  <1> USE DEF TurnInv, upstream, settings, polling, streamed
  <1>a. taskError' \in Words /\ (taskError' = "policy" => says = "policy")
    BY ShownIds DEF Look, TasksTell, TaskWords, Words
  <1>b. /\ tuStep = "poll" /\ tuClock < Budget /\ tuClock \in Nat
        /\ UNCHANGED <<upstream, settings, conv, recovered, imageTurn, spoken, got>>
    <2>1. /\ tuStep = "poll" /\ tuClock < Budget
          /\ UNCHANGED <<upstream, settings, conv, recovered, imageTurn, spoken, got>>
      BY DEF Look, InTime
    <2>2. tuClock \in Nat
      BY Clocks
    <2> QED
      BY <2>1, <2>2
  <1> DEFINE ids == polled \cup Shown(conv)
  <1>c. PICK spent \in 0..CallTime : LookAt(tuClock + spent, ids)
    BY DEF Look, LookAt
  <1> DEFINE now == tuClock + spent
  <1>d. now \in Nat /\ now >= tuClock /\ now <= Budget + CallTime
    BY <1>b, ImageTurnAssumption
  <1>e. /\ Slept(now, Interval) \in Nat /\ Slept(now, Interval) <= Budget
        /\ Slept(now, Interval) \in {Budget, now + Interval}
        /\ Slept(now, SettleTime) \in Nat /\ Slept(now, SettleTime) <= Budget
        /\ Slept(now, SettleTime) \in {Budget, now + SettleTime}
    BY <1>d, SleptWithin, ImageTurnAssumption
  <1>f. ids \subseteq Ids /\ (~recovered => ids \subseteq committed)
    <2>1. Shown(conv) \subseteq Ids /\ polled \subseteq Ids
      BY ShownIds DEF TurnTypeOK
    <2>2. ~recovered => polled \subseteq committed /\ (Shown(conv) = committed \/ conv = "none")
      BY DEF OwnInv, Shown, TurnTypeOK
    <2>3. conv # "none"
      BY <1>b DEF OwnInv
    <2> QED
      BY <2>1, <2>2, <2>3
  <1>g. polled \subseteq ids
    OBVIOUS
  <1> HIDE DEF ids
  <1>h. LookAt(now, ids)
    BY <1>c
  <1> HIDE DEF now
  <1>i. /\ polled' = ids /\ tuClock' \in Nat /\ tuClock' <= Budget + CallTime
        /\ fromStream' \in {fromStream, ids} /\ lastHit' \in {lastHit, ids}
        /\ \/ hitAt' = hitAt /\ lastHit' = lastHit
           \/ hitAt' = now /\ lastHit' = ids
    <2>1. polled' = ids /\ tuClock' \in {now, Slept(now, Interval), Slept(now, SettleTime)}
      BY <1>h DEF LookAt
    <2>2. /\ fromStream' \in {fromStream, ids} /\ lastHit' \in {lastHit, ids}
          /\ \/ hitAt' = hitAt /\ lastHit' = lastHit
             \/ hitAt' = now /\ lastHit' = ids
      BY <1>h DEF LookAt
    <2>3. tuClock' \in Nat /\ tuClock' <= Budget + CallTime
      BY <1>d, <1>e, <2>1, ImageTurnAssumption
    <2> QED
      BY <2>1, <2>2, <2>3
  <1>j. /\ tuStep' \in {"poll", "policy", "text reply", "urls"}
        /\ tuStep' = "policy" => Said(conv) = "policy"
    BY <1>b, <1>h DEF LookAt
  <1>1. TurnTypeOK'
    <2>1. hitAt' \in 0..(Budget + CallTime) /\ tuClock' \in 0..(Budget + CallTime)
      <3>1. Budget + CallTime \in Nat /\ hitAt \in 0..(Budget + CallTime)
        BY Clocks
      <3>2. hitAt' \in {hitAt, now}
        BY <1>i
      <3> QED
        BY <1>d, <1>i, <3>1, <3>2
    <2>2. polled' \subseteq Ids /\ lastHit' \subseteq Ids /\ fromStream' \subseteq Ids
      BY <1>f, <1>i DEF TurnTypeOK
    <2>3. tuStep' \in {"stream", "ended", "followup", "poll", "urls", "urls of followup"} \cup Ends
      BY <1>j DEF Ends
    <2> QED
      BY <1>a, <1>b, <2>1, <2>2, <2>3 DEF TurnTypeOK
  <1>2. OwnInv'
    BY <1>b, <1>f, <1>i DEF OwnInv
  <1>3. SettledInv'
    <2>1. tuStep' = "poll" => /\ fromStream' = fromStream
                              /\ \/ ids = {} /\ UNCHANGED <<lastHit, hitAt>>
                                 \/ /\ lastHit' = ids /\ hitAt' = now /\ settling
                                    /\ tuClock' = Slept(now, SettleTime)
      BY <1>b, <1>h DEF LookAt
    <2>2. tuStep' = "poll" /\ checkFirst => lastHit' = ids
      BY <1>b, <1>g, <2>1 DEF SettledInv
    <2>3. tuStep' = "poll" /\ ids # {} => Waited'
      BY <1>d, <1>e, <2>1, ImageTurnAssumption DEF Waited
    <2> QED
      BY <1>b, <1>i, <1>j, <2>2, <2>3 DEF SettledInv
  <1>4. RefusalInv'
    BY <1>a, <1>b, <1>j, ShownIds DEF RefusalInv
  <1>5. GotInv'
    BY <1>b, <1>j DEF GotInv
  <1>6. HandedInv'
    <2>1. ASSUME tuStep' = "urls", checkFirst, settling, ids # {}
          PROVE  lastHit' = ids /\ Waited'
      <3>1. \/ /\ Confirmed(ids) /\ tuClock' = now /\ UNCHANGED <<lastHit, hitAt>>
            \/ /\ lastHit' = ids /\ hitAt' = now /\ ~(now < Budget) /\ tuClock' = now
        BY <1>b, <1>h, <2>1 DEF LookAt
      <3>2. CASE Confirmed(ids) /\ tuClock' = now /\ UNCHANGED <<lastHit, hitAt>>
        <4>1. lastHit = ids /\ polled # {}
          BY <1>b, <2>1, <3>2 DEF Confirmed, SettledInv
        <4>2. Waited
          BY <1>b, <2>1, <4>1 DEF SettledInv
        <4> QED
          BY <1>b, <1>d, <3>2, <4>1, <4>2, ImageTurnAssumption DEF Waited, TurnTypeOK
      <3>3. CASE lastHit' = ids /\ hitAt' = now /\ ~(now < Budget) /\ tuClock' = now
        BY <1>d, <3>3, ImageTurnAssumption DEF Waited
      <3> QED
        BY <3>1, <3>2, <3>3
    <2> QED
      BY <1>b, <1>i, <2>1 DEF HandedInv
  <1> QED
    BY <1>1, <1>2, <1>3, <1>4, <1>5, <1>6

LEMMA TurnStepInv == TurnInv /\ [TurnNext]_turnVars => TurnInv'
  <1> SUFFICES ASSUME TurnInv, [TurnNext]_turnVars PROVE TurnInv'
    OBVIOUS
  <1>1. CASE UNCHANGED turnVars
    <2>1. TurnTypeOK'
      BY <1>1 DEF turnVars, TurnInv, TurnTypeOK
    <2>2. OwnInv' /\ RefusalInv' /\ GotInv'
      BY <1>1 DEF turnVars, TurnInv, OwnInv, RefusalInv, GotInv
    <2>3. SettledInv' /\ HandedInv'
      BY <1>1 DEF turnVars, TurnInv, SettledInv, HandedInv, Waited
    <2> QED
      BY <2>1, <2>2, <2>3 DEF TurnInv
  <1>2. CASE TurnNext
    BY <1>2, CommitSound, SaySound, StreamTellsSound, StreamEndsSound, AfterStreamSound,
       FollowUpSound, PollTimeoutSound, LookFailsSound, LookRefusedSound, LookSound,
       FetchImagesSound DEF TurnNext
  <1> QED
    BY <1>1, <1>2

\* For every budget and settling time, a turn's images are those of the conversation
\* it knows, have settled when that is asked for, and a refusal was said upstream.
THEOREM TurnsAreSound == TurnSpec => []TurnIsSound
  <1>1. TurnInv => TurnIsSound
    BY DEF TurnInv, RefusalInv, GotInv, HandedInv, Waited, TurnIsSound
  <1> QED
    BY <1>1, TurnInitInv, TurnStepInv, PTL DEF TurnSpec

==============================================================================
