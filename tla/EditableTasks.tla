----------------------------- MODULE EditableTasks -----------------------------
(***************************************************************************)
(* Exports of presentations and layered images: the tasks of               *)
(* services/editable_file_task_service.py and the export they run          *)
(* (services/openai_backend_api.py, _export_editable_file_zip).            *)
(*                                                                         *)
(* A task is named by its owner and the id the client chose; its folder by *)
(* kind and what follows the last colon of that name, so that tasks of     *)
(* different owners, or with different ids, may share one.  An export      *)
(* uploads the images, opens a conversation, polls it until both files are *)
(* there, and downloads them under names that are free in the folder: the  *)
(* name is looked for first and the file written later.  Every change of a *)
(* task is stored before the lock is released, and a restart marks what it *)
(* interrupts.                                                             *)
(***************************************************************************)
EXTENDS Naturals

CONSTANTS
  EdTask,       \* tasks of one kind: an owner and the client_task_id he chose
  LastPart(_),  \* what follows the last colon of an id
  MaxNumber,    \* numbers a name is tried with, 999 in the code
  MaxDeaths     \* bound: how often the process dies

ASSUME EditableAssumption == {MaxNumber, MaxDeaths} \subseteq Nat

\* The two files of an export; the conversation gives both their names.
File == {"primary", "zip"}

VARIABLES
  edStatus,     \* status of each task, in memory and in editable_file_tasks.json
  edStep,       \* where its thread is
  results,      \* the paths a task's result names
  target,       \* the path a download is about to be written to
  folders,      \* the files on disk: path -> the task that wrote it last
  raced,        \* tasks that were about to write a path that another one was (history)
  running,      \* does the process run?
  deaths

edVars == <<edStatus, edStep, results, target, folders, raced, running, deaths>>

EdStatuses == {"absent", "queued", "running", "success", "error"}
Steps == {"none", "start", "token", "upload", "prepare", "converse", "wait",
          "primary", "write primary", "zip", "write zip", "finish"}
NoPath == <<>>

EditableTypeOK ==
  /\ edStatus \in [EdTask -> EdStatuses]
  /\ edStep \in [EdTask -> Steps]
  /\ \A k \in EdTask : DOMAIN results[k] \subseteq File
  /\ raced \subseteq EdTask /\ running \in BOOLEAN /\ deaths \in 0..MaxDeaths

EdGo(k, s) == edStep' = [edStep EXCEPT ![k] = s]
\* _update_task: the task is changed and the file written under the lock.
EdUpdate(k, s) == edStatus' = [edStatus EXCEPT ![k] = s]

------------------------------------------------------------------------------
(* The service *)

\* _submit: a known key is shown as it is; else it is stored and a thread begins.
EdSubmit(k) ==
  /\ running
  /\ edStatus[k] = "absent"
  /\ EdUpdate(k, "queued")
  /\ EdGo(k, "start")
  /\ UNCHANGED <<results, target, folders, raced, running, deaths>>

EdStart(k) ==
  /\ edStep[k] = "start"
  /\ EdUpdate(k, "running")
  /\ EdGo(k, "token")
  /\ UNCHANGED <<results, target, folders, raced, running, deaths>>

\* Everything before the files: the account's token, the uploads, the
\* conversation's preparation and run, the polling for both artifacts.
Following == [token |-> "upload", upload |-> "prepare", prepare |-> "converse",
              converse |-> "wait", wait |-> "primary"]

EdAdvance(k) ==
  /\ edStep[k] \in DOMAIN Following
  /\ EdGo(k, Following[edStep[k]])
  /\ UNCHANGED <<edStatus, results, target, folders, raced, running, deaths>>

\* No account of a paid plan, no images for a PSD, an error of the upstream that
\* the polling does not wait out, the polling's deadline, no download url.
EdFail(k) ==
  /\ edStep[k] \in DOMAIN Following \cup {"primary", "zip", "finish"}
  /\ EdUpdate(k, "error")
  /\ EdGo(k, "none")
  /\ UNCHANGED <<results, target, folders, raced, running, deaths>>

\* EDITABLE_FILE_ROOT / kind / key.rsplit(":", 1)[-1], for one kind.
Folder(k) == LastPart(k[2])

Numbered(k, file, n) == <<Folder(k), file, n>>

\* A faulty variant, for the mutation runs: the name is not looked for.
PlainName(k, file, n) == n = 0

\* _unique_editable_path: the plain name, or the first number that is free.  (Names that
\* the upstream gives are taken to be the same for all tasks.)
FreeNumber(k, file, n) ==
  /\ Numbered(k, file, n) \notin DOMAIN folders
  /\ \A m \in 0..(n - 1) : Numbered(k, file, m) \in DOMAIN folders

\* _download_editable_artifact, up to the choice of the name; without one left it fails.
Download(k, file) ==
  /\ edStep[k] = file
  /\ \E n \in 0..MaxNumber :
       LET path == Numbered(k, file, n)
           rivals == {m \in EdTask : target[m] = path}
       IN  /\ FreeNumber(k, file, n)
           /\ target' = [target EXCEPT ![k] = path]
           /\ raced' = IF rivals = {} THEN raced ELSE raced \cup rivals \cup {k}
  /\ EdGo(k, IF file = "primary" THEN "write primary" ELSE "write zip")
  /\ UNCHANGED <<edStatus, results, folders, running, deaths>>

\* write_bytes; it empties a file that is there.
WritesFile(k, file) ==
  /\ edStep[k] = (IF file = "primary" THEN "write primary" ELSE "write zip")
  /\ folders' = [p \in DOMAIN folders \cup {target[k]} |->
                   IF p = target[k] THEN k ELSE folders[p]]
  /\ target' = [target EXCEPT ![k] = NoPath]
  /\ UNCHANGED <<raced, running, deaths>>

WriteFile(k, file) ==
  /\ WritesFile(k, file)
  /\ results' = [results EXCEPT ![k] =
                   [f \in DOMAIN @ \cup {file} |-> IF f = file THEN target[k] ELSE @[f]]]
  /\ EdGo(k, IF file = "primary" THEN "zip" ELSE "finish")
  /\ UNCHANGED edStatus

\* The writing fails, and leaves a part of the file there.
WriteFails(k, file) ==
  /\ WritesFile(k, file)
  /\ EdUpdate(k, "error") /\ EdGo(k, "none")
  /\ UNCHANGED results

\* Both files are there: mark_text_used, then the result.
EdFinish(k) ==
  /\ edStep[k] = "finish"
  /\ EdUpdate(k, "success")
  /\ EdGo(k, "none")
  /\ UNCHANGED <<results, target, folders, raced, running, deaths>>

------------------------------------------------------------------------------
(* The process *)

Die ==
  /\ running /\ deaths < MaxDeaths
  /\ running' = FALSE
  /\ deaths' = deaths + 1
  /\ edStep' = [k \in EdTask |-> "none"]
  /\ target' = [k \in EdTask |-> NoPath]
  /\ UNCHANGED <<edStatus, results, folders, raced>>

\* A faulty variant, for the mutation runs: the queued ones are left alone.
EdRecoveredRunning(k) == IF edStatus[k] = "running" THEN "error" ELSE edStatus[k]

\* _recover_unfinished_locked
EdRecovered(k) == IF edStatus[k] \in {"queued", "running"} THEN "error" ELSE edStatus[k]

Revive ==
  /\ ~running
  /\ running' = TRUE
  /\ edStatus' = [k \in EdTask |-> EdRecovered(k)]
  /\ UNCHANGED <<edStep, results, target, folders, raced, deaths>>

EditableInit ==
  /\ edStatus = [k \in EdTask |-> "absent"]
  /\ edStep = [k \in EdTask |-> "none"]
  /\ results = [k \in EdTask |-> <<>>]
  /\ target = [k \in EdTask |-> NoPath]
  /\ folders = <<>> /\ raced = {}
  /\ running = TRUE /\ deaths = 0

EdWork(k) ==
  \/ EdStart(k) \/ EdAdvance(k) \/ EdFail(k) \/ EdFinish(k)
  \/ \E file \in File : Download(k, file) \/ WriteFile(k, file) \/ WriteFails(k, file)

EditableNext ==
  \/ \E k \in EdTask : EdSubmit(k) \/ EdWork(k)
  \/ Die \/ Revive

\* Threads run on (polling has a deadline and calls have timeouts), and the
\* process is started again.
EditableSpec ==
  /\ EditableInit /\ [][EditableNext]_edVars
  /\ \A k \in EdTask : WF_edVars(EdWork(k))
  /\ WF_edVars(Revive)

------------------------------------------------------------------------------
(* Properties *)

\* The files a successful task names are the ones it wrote, though tasks share folders and
\* writings fail half-way, unless another task was about to write the same path at the same
\* time: between the look for a free name and the writing the name is not taken.  Even then
\* the file is one of a task of the folder.
ResultsAreOwn ==
  /\ EditableTypeOK
  /\ \A k \in EdTask : edStatus[k] = "success" =>
       /\ DOMAIN results[k] = File
       /\ \A f \in File : LET writer == folders[results[k][f]]
                          IN  Folder(writer) = Folder(k) /\ (k \notin raced => writer = k)

\* Every task that was accepted ends, whenever the process dies.
EditableTasksEnd ==
  \A k \in EdTask : edStatus[k] = "queued" ~> edStatus[k] \in {"success", "error"}
==============================================================================
