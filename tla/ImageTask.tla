------------------------------ MODULE ImageTask ------------------------------
(***************************************************************************)
(* The image tasks of services/image_task_service.py.                      *)
(*                                                                         *)
(* A client names a task, submits it and polls it.  A thread of its own    *)
(* runs the request; when the upstream is not done in time the client may  *)
(* ask for another round of polling.  Every change is written to           *)
(* image_tasks.json before the lock is released, so that clients see only  *)
(* what is stored; a restart reads the file and marks as interrupted what  *)
(* no thread works on any more.                                            *)
(*                                                                         *)
(* The file is replaced atomically (os.replace in services/json_file.py);  *)
(* its volume is taken to be writable.                                     *)
(***************************************************************************)
EXTENDS Naturals, FiniteSets

CONSTANTS
  Task,        \* an owner and a client_task_id
  MaxCrashes   \* bound: how often the process dies in a behaviour

ASSUME ImageTaskAssumption == MaxCrashes \in Nat

\* "timeout" is the error image_poll_timeout with the conversation to poll,
\* "failed" any other error; "absent" tasks are no keys of _tasks.
Status == {"absent", "queued", "running", "success", "timeout", "failed"}
Terminal == {"success", "timeout", "failed"}
Unfinished == {"queued", "running"}

VARIABLES
  tasks,      \* _tasks: the status of each task in memory
  stored,     \* the same in image_tasks.json
  saving,     \* the lock is held by a thread that is about to write the file
  up,         \* does the process run?
  old,        \* tasks whose updated_at lies before the retention
  starting,   \* threads in front of _run_task's first update, per task
  handling,   \* threads that wait for the upstream, per task
  crashes     \* how often the process died

vars == <<tasks, stored, saving, up, old, starting, handling, crashes>>

NoThreads == [k \in Task |-> 0]

TypeOK ==
  /\ tasks \in [Task -> Status]
  /\ stored \in [Task -> Status]
  /\ saving \in BOOLEAN
  /\ up \in BOOLEAN
  /\ old \subseteq Task
  /\ starting \in [Task -> Nat]
  /\ handling \in [Task -> Nat]
  /\ crashes \in 0..MaxCrashes

------------------------------------------------------------------------------
(* Under the lock *)

LockFree == up /\ ~saving

\* _save_locked comes before the lock is released.
Save(new) == tasks' = new /\ saving' = TRUE

\* Faulty variant, for the mutation runs: the file is written later, with the
\* next change.
UpdateUnsaved(k, status) ==
  /\ tasks' = IF tasks[k] = "absent" THEN tasks ELSE [tasks EXCEPT ![k] = status]
  /\ UNCHANGED saving

\* _update_task, of a task that is still there
Update(k, status) ==
  IF tasks[k] = "absent" THEN UNCHANGED <<tasks, saving>>
                         ELSE Save([tasks EXCEPT ![k] = status])

\* Faulty variant, for the mutation runs: forgets what has just ended, too.
CleanedEarly(ts) == [k \in Task |-> IF ts[k] \in Terminal THEN "absent" ELSE ts[k]]

\* _cleanup_locked
Cleaned(ts) == [k \in Task |-> IF k \in old /\ ts[k] \in Terminal THEN "absent" ELSE ts[k]]

\* What a client can tell apart; a task that has been resumed is under way.
Kind(status) ==
  CASE status = "absent" -> "unknown"
    [] status \in Unfinished -> "working"
    [] status = "success" -> "success"
    [] OTHER -> "error"

\* os.replace.  What was written has a new updated_at where it changed.
Write ==
  /\ up /\ saving
  /\ stored' = tasks
  /\ saving' = FALSE
  /\ old' = {k \in old : Kind(tasks[k]) = Kind(stored[k])}
  /\ UNCHANGED <<tasks, up, starting, handling, crashes>>

------------------------------------------------------------------------------
(* Clients *)

\* _submit of a name the board does not know; the thread is started when the
\* lock has been released.
Submit(k) ==
  /\ LockFree
  /\ Cleaned(tasks)[k] = "absent"
  /\ Save([Cleaned(tasks) EXCEPT ![k] = "queued"])
  /\ starting' = [starting EXCEPT ![k] = @ + 1]
  /\ UNCHANGED <<stored, up, old, handling, crashes>>

\* list_tasks, and _submit of a known name: all they change is the cleanup.
ListTasks ==
  /\ LockFree
  /\ Cleaned(tasks) # tasks
  /\ Save(Cleaned(tasks))
  /\ UNCHANGED <<stored, up, old, starting, handling, crashes>>

\* Faulty variant, for the mutation runs: the status of the task is not checked
\* again under the lock.
ResumeUnchecked(k) ==
  /\ LockFree
  /\ tasks[k] # "absent"
  /\ Save([tasks EXCEPT ![k] = "running"])
  /\ handling' = [handling EXCEPT ![k] = @ + 1]
  /\ UNCHANGED <<stored, up, old, starting, crashes>>

\* resume_poll: only for a poll timeout, whose conversation is known.
Resume(k) ==
  /\ LockFree
  /\ tasks[k] = "timeout"
  /\ Save([tasks EXCEPT ![k] = "running"])
  /\ handling' = [handling EXCEPT ![k] = @ + 1]
  /\ UNCHANGED <<stored, up, old, starting, crashes>>

------------------------------------------------------------------------------
(* The thread of a task: _run_task, and _run_resume_poll from its second step *)

Begin(k) ==
  /\ LockFree /\ starting[k] > 0
  /\ Update(k, "running")
  /\ starting' = [starting EXCEPT ![k] = @ - 1]
  /\ handling' = [handling EXCEPT ![k] = @ + 1]
  /\ UNCHANGED <<stored, up, old, crashes>>

\* A progress callback of the handler: writes updated_at, not the status.
Progress(k) ==
  /\ LockFree /\ handling[k] > 0
  /\ Update(k, tasks[k])
  /\ UNCHANGED <<stored, up, old, starting, handling, crashes>>

\* The upstream answered, refused, or was not done in time.
End(k) ==
  /\ LockFree /\ handling[k] > 0
  /\ \E status \in Terminal : Update(k, status)
  /\ handling' = [handling EXCEPT ![k] = @ - 1]
  /\ UNCHANGED <<stored, up, old, starting, crashes>>

------------------------------------------------------------------------------
(* The process *)

\* The file is what it was, or already what it was to become (after Write).
Crash ==
  /\ up /\ crashes < MaxCrashes
  /\ up' = FALSE
  /\ crashes' = crashes + 1
  /\ tasks' = [k \in Task |-> "absent"]
  /\ saving' = FALSE
  /\ starting' = NoThreads
  /\ handling' = NoThreads
  /\ UNCHANGED <<stored, old>>

\* _load_locked reads everything but conversation_id: what timed out cannot be
\* resumed any more.
Loaded == [k \in Task |-> IF stored[k] = "timeout" THEN "failed" ELSE stored[k]]

\* Faulty variant, for the mutation runs: overlooks the tasks that never began.
RecoveredRunning(ts) == [k \in Task |-> IF ts[k] = "running" THEN "failed" ELSE ts[k]]

\* _recover_unfinished_locked
Recovered(ts) == [k \in Task |-> IF ts[k] \in Unfinished THEN "failed" ELSE ts[k]]

\* __init__: load, recover, clean up, and save if any of it changed something.
Restart ==
  /\ ~up
  /\ up' = TRUE
  /\ LET new == Cleaned(Recovered(Loaded))
     IN  IF new = Loaded THEN tasks' = new /\ UNCHANGED saving ELSE Save(new)
  /\ UNCHANGED <<stored, old, starting, handling, crashes>>

\* Days pass; no thread is that slow between two updates.
Age(k) ==
  /\ LockFree
  /\ tasks[k] \in Terminal
  /\ starting[k] = 0 /\ handling[k] = 0
  /\ old' = old \cup {k}
  /\ UNCHANGED <<tasks, stored, saving, up, starting, handling, crashes>>

Init ==
  /\ tasks = [k \in Task |-> "absent"]
  /\ stored = [k \in Task |-> "absent"]
  /\ saving = FALSE
  /\ up = TRUE
  /\ old = {}
  /\ starting = NoThreads
  /\ handling = NoThreads
  /\ crashes = 0

ThreadStep(k) == Begin(k) \/ End(k)

Next ==
  \/ Write \/ ListTasks \/ Crash \/ Restart
  \/ \E k \in Task : Submit(k) \/ Resume(k) \/ ThreadStep(k) \/ Progress(k) \/ Age(k)

\* The lock is given on, requests to the upstream have timeouts, and the
\* container restarts (`restart: unless-stopped`).  A thread waits for the lock
\* while others come and go, but it gets it: strong fairness.
Fairness ==
  /\ WF_vars(Write) /\ WF_vars(Restart)
  /\ \A k \in Task : SF_vars(ThreadStep(k))

Spec == Init /\ [][Next]_vars
FairSpec == Spec /\ Fairness

------------------------------------------------------------------------------
(* Properties. *)

\* What clients are shown is what the file says: the lock hides the difference.
Board == INSTANCE ImageTaskBoard WITH
           state <- [k \in Task |-> Kind(stored[k])],
           expired <- old

\* The service keeps the board's promise through restarts: a task ends once and
\* stays as it ended, unless it failed and is resumed, until its retention has
\* passed, and no crash between a change and its write takes back what a client
\* was shown.
KeepsPromise == Board!Spec

\* Whenever the lock is free, what a client is shown survives a crash.
ShownIsStored ==
  LockFree => \A k \in Task : Kind(tasks[k]) = Kind(stored[k])

\* A task that is not finished has one thread that works on it, and no other
\* task has any: repeated submissions, simultaneous resumptions, restarts and the
\* cleanup neither leave a task behind nor have it run twice.
OneThreadPerTask ==
  \A k \in Task :
    starting[k] + handling[k] = IF tasks[k] \in Unfinished THEN 1 ELSE 0

\* A task that was accepted ends, in whatever way.
TasksEnd ==
  \A k \in Task : Kind(stored[k]) = "working" ~> Kind(stored[k]) # "working"
=============================================================================
