----------------------------- MODULE TaskManager -----------------------------
(***************************************************************************)
(* The background tasks of services/task_manager.py and the task bodies of *)
(* api/accounts.py (refresh, delete, status, relogin, inspect).            *)
(*                                                                         *)
(* A task is submitted to a tier, one at a time per tier, and runs in a    *)
(* thread of its own.  Its body works through its accounts in batches and  *)
(* looks at the cancellation flag between two batches.  A cancelled task   *)
(* still occupies its tier until the body has wound up.  Tasks live in     *)
(* memory; the registry forgets the oldest finished ones.                  *)
(***************************************************************************)
EXTENDS Naturals, FiniteSets

CONSTANTS
  Tier,        \* "light" and "heavy"
  MaxTasks,    \* bound: how many tasks are submitted in a behaviour
  Totals,      \* bound: the numbers of accounts a task may be given
  BatchSize,   \* _ACCOUNT_BATCH_SIZE, _INSPECT_BATCH_SIZE; 1 for relogin
  Keep         \* how many tasks the registry keeps, 20 in the code

ASSUME TaskAssumption ==
  /\ Tier # {} /\ IsFiniteSet(Tier)
  /\ MaxTasks \in Nat
  /\ Totals \subseteq Nat
  /\ BatchSize \in Nat \ {0}
  /\ Keep \in Nat \ {0}

\* Tasks are named by the order of their creation, which created_at records.
Task == 1..MaxTasks
NoTask == 0

VARIABLES
  created,     \* how many tasks have been submitted
  registered,  \* the keys of _tasks
  running,     \* _running: the task last submitted to each tier
  tier,        \* BackgroundTask.tier
  status,      \* BackgroundTask.status; "new" before the task is submitted
  cancel,      \* _cancel_event
  total,       \* the accounts the body was given
  processed,   \* the accounts it is done with
  left         \* batch_remaining: what is left of the current batch

vars == <<created, registered, running, tier, status, cancel, total, processed, left>>
body == <<tier, cancel, total, processed, left>>

Ended == {"completed", "failed", "cancelled"}

TypeOK ==
  /\ created \in 0..MaxTasks
  /\ registered \subseteq 1..created
  /\ running \in [Tier -> 0..created]
  /\ tier \in [Task -> Tier]
  /\ status \in [Task -> {"new", "running"} \cup Ended]
  /\ \A i \in Task : status[i] = "new" <=> i > created
  /\ cancel \in [Task -> BOOLEAN]
  /\ total \in [Task -> Nat]
  /\ processed \in [Task -> Nat]
  /\ left \in [Task -> 0..BatchSize]

------------------------------------------------------------------------------
(* TaskManager *)

\* Faulty variants, for the mutation runs: a task that was asked to stop leaves
\* its tier at once ...
TierBusyUnlessStopping(t) ==
  /\ running[t] \in registered
  /\ status[running[t]] = "running"
  /\ ~cancel[running[t]]

\* A task that was asked to stop still counts: its status is still "running".
TierBusy(t) ==
  /\ running[t] \in registered
  /\ status[running[t]] = "running"

\* The oldest of the known tasks, so many that Keep are left.
Surplus(known) ==
  {i \in known : Cardinality({j \in known : j > i}) >= Keep}

\* submit: refused while the tier is busy; the new task is entered first, then
\* the oldest tasks beyond Keep are forgotten unless they run.
Submit(t, n) ==
  LET new == created + 1
      known == registered \cup {new}
  IN  /\ created < MaxTasks
      /\ ~TierBusy(t)
      /\ created' = new
      /\ status' = [status EXCEPT ![new] = "running"]
      /\ registered' = {i \in known : i \in Surplus(known) => status'[i] = "running"}
      /\ running' = [running EXCEPT ![t] = new]
      /\ tier' = [tier EXCEPT ![new] = t]
      /\ total' = [total EXCEPT ![new] = n]
      /\ UNCHANGED <<cancel, processed, left>>

\* request_cancel looks at the status and then sets the flag, without the lock in
\* between: when the flag is set the task may have ended, or be forgotten.
RequestCancel(i) ==
  /\ i <= created
  /\ cancel' = [cancel EXCEPT ![i] = TRUE]
  /\ UNCHANGED <<created, registered, running, tier, status, total, processed, left>>

------------------------------------------------------------------------------
(* The task body, in the thread of the task *)

\* A faulty variant, for the mutation runs: the flag is looked at anywhere.
AnywhereInTheBatch(i) == status[i] = "running"

\* The body is between two batches.
AtBoundary(i) == status[i] = "running" /\ left[i] = 0

\* The next batch begins; the last one may be smaller.
StartBatch(i) ==
  /\ AtBoundary(i) /\ ~cancel[i]
  /\ processed[i] < total[i]
  /\ LET rest == total[i] - processed[i]
     IN  left' = [left EXCEPT ![i] = IF rest < BatchSize THEN rest ELSE BatchSize]
  /\ UNCHANGED <<created, registered, running, tier, status, cancel, total, processed>>

\* Accounts of the batch are done with, one at a time (status, inspection) or
\* all at once (refresh, deletion).  An account that failed counts as well.
Work(i) ==
  /\ status[i] = "running"
  /\ \E n \in 1..left[i] :
       /\ left' = [left EXCEPT ![i] = @ - n]
       /\ processed' = [processed EXCEPT ![i] = @ + n]
  /\ UNCHANGED <<created, registered, running, tier, status, cancel, total>>

\* Faulty variants, for the mutation runs: a flag seen between two batches only
\* ends the loop when there is more to do than one account ...
StopUnlessLast(i) ==
  /\ AtBoundary(i) /\ cancel[i]
  /\ processed[i] + 1 < total[i]
  /\ status' = [status EXCEPT ![i] = "cancelled"]
  /\ UNCHANGED <<created, registered, running, body>>

\* ... or a late flag relabels a task that has done everything.
StopWhenDone(i) ==
  /\ AtBoundary(i) /\ cancel[i]
  /\ status' = [status EXCEPT ![i] = "cancelled"]
  /\ UNCHANGED <<created, registered, running, body>>

\* The flag is looked at where the next batch would start.
Stop(i) ==
  /\ AtBoundary(i) /\ cancel[i]
  /\ processed[i] < total[i]
  /\ status' = [status EXCEPT ![i] = "cancelled"]
  /\ UNCHANGED <<created, registered, running, body>>

\* The loop has run out of batches; a flag set during the last one comes late.
Complete(i) ==
  /\ AtBoundary(i)
  /\ processed[i] = total[i]
  /\ status' = [status EXCEPT ![i] = "completed"]
  /\ UNCHANGED <<created, registered, running, body>>

\* An exception outside the per-batch handlers: task.fail.
Fail(i) ==
  /\ status[i] = "running"
  /\ status' = [status EXCEPT ![i] = "failed"]
  /\ UNCHANGED <<created, registered, running, body>>

Init ==
  /\ created = 0
  /\ registered = {}
  /\ running = [t \in Tier |-> NoTask]
  /\ tier = [i \in Task |-> CHOOSE t \in Tier : TRUE]
  /\ status = [i \in Task |-> "new"]
  /\ cancel = [i \in Task |-> FALSE]
  /\ total = [i \in Task |-> 0]
  /\ processed = [i \in Task |-> 0]
  /\ left = [i \in Task |-> 0]

BodyStep(i) == StartBatch(i) \/ Work(i) \/ Stop(i) \/ Complete(i)

Next ==
  \/ \E t \in Tier, n \in Totals : Submit(t, n)
  \/ \E i \in Task : RequestCancel(i) \/ BodyStep(i) \/ Fail(i)

\* The thread of a task gets its turn; nobody has to submit, cancel or fail.
Fairness == \A i \in Task : WF_vars(BodyStep(i))

Spec == Init /\ [][Next]_vars
FairSpec == Spec /\ Fairness

------------------------------------------------------------------------------
(* Properties. *)

\* "At most one running task per tier (stopping ones included)": the promise of
\* TaskManager, for all tasks whose thread is alive and not only for the
\* registered ones, so that two bodies never work in one tier at once.
TierExclusion ==
  \A i, j \in Task :
    (status[i] = "running" /\ status[j] = "running" /\ tier[i] = tier[j]) => i = j

\* A task whose thread is alive can be found, polled and cancelled: the pruning
\* of the registry and the next submission never lose it.
RunningIsReachable ==
  \A i \in Task : status[i] = "running" => i \in registered /\ running[tier[i]] = i

\* The pruning keeps the registry small although it spares what runs: at most
\* one old task per other tier stays beyond the Keep newest.
RegistryBounded == Cardinality(registered) <= Keep + Cardinality(Tier) - 1

\* "Keep the latest 20": the newest Keep tasks can always be polled, so that a
\* client that looks again finds how its task ended.
RecentKept == \A i \in Task : i <= created /\ created < i + Keep => i \in registered

\* What the final status tells the client: a completed task has done all of its
\* accounts, a cancelled one was asked to stop and left some undone.
StatusTellsProgress ==
  \A i \in Task :
    /\ status[i] = "completed" => processed[i] = total[i]
    /\ status[i] = "cancelled" => cancel[i] /\ processed[i] < total[i]

\* A cancelled task has finished the batch it was in: what it has done is whole
\* batches, so that the accounts of one batch are not left in two states.
CancelledAfterWholeBatches ==
  \A i \in Task : status[i] = "cancelled" => processed[i] % BatchSize = 0

\* A task that has ended stays as it ended: no late cancellation, batch or
\* failure changes what a client has already been told.
EndedIsFinal ==
  [][\A i \in Task : status[i] \in Ended =>
       status'[i] = status[i] /\ processed'[i] = processed[i]]_vars

\* A tier is not occupied for ever: every task ends, cancelled or not.
TasksEnd == \A i \in Task : status[i] = "running" ~> status[i] \in Ended
=============================================================================
