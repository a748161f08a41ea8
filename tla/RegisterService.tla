--------------------------- MODULE RegisterService ---------------------------
(***************************************************************************)
(* The phases of account registration: services/register_service.py.       *)
(*                                                                         *)
(* A runner thread works in batches, a daily one or, within a scheduled    *)
(* window, a scheduled one.  Four flags steer it: an administrator's stop, *)
(* the schedule's call, the draining of the tasks in flight, and the       *)
(* stored "enabled".  A scheduler thread watches the clock, calls for the  *)
(* schedule and starts a runner if there is none; an administrator starts  *)
(* and stops the service, and the process restarts.                        *)
(*                                                                         *)
(* The schedule is switched on.  Time is abstract: the clock is far from   *)
(* the next window, near it, or inside it.                                 *)
(***************************************************************************)
EXTENDS Naturals, FiniteSets

CONSTANTS
  Runner,       \* runner threads; an ended one may be started anew
  NoRunner,     \* no runner
  Threads,      \* worker threads of a batch
  Total,        \* tasks of a daily batch in mode "total"
  MaxWindows,   \* bound: windows that open
  MaxRestarts   \* bound: restarts of the process

ASSUME RegisterServiceAssumption ==
  /\ NoRunner \notin Runner
  /\ {Threads, Total} \subseteq Nat \ {0}
  /\ {MaxWindows, MaxRestarts} \subseteq Nat

VARIABLES
  mode,            \* "total", or a target for the pool ("quota", "available")
  enabled,         \* the stored wish to run
  userStop,        \* _user_stop
  scheduleActive,  \* _schedule_active
  draining,        \* _drain_event
  restoreDaily,    \* _restore_daily_after
  phase,           \* _phase
  runner,          \* _runner
  at,              \* where each runner is in _orchestrate and its calls
  kind,            \* the kind of its batch
  inFlight,        \* tasks of the batch that work
  submitted,       \* tasks of the batch so far
  scheduler,       \* where the scheduler's loop is
  clock,           \* the time, seen from the windows (external)
  windows,         \* windows opened so far
  restarts         \* restarts so far

flagVars == <<enabled, userStop, scheduleActive, draining, restoreDaily, phase>>
runnerVars == <<runner, at, kind, inFlight, submitted>>
timeVars == <<clock, windows, restarts>>
registerVars == <<mode, flagVars, runnerVars, scheduler, timeVars>>

Phases == {"idle", "daily_running", "preempt_drain", "schedule_running", "post_drain"}
Places == {"none", "top", "enter", "batch", "after", "drain", "final", "leaving"}

RegisterTypeOK ==
  /\ mode \in {"total", "pool"}
  /\ {enabled, userStop, scheduleActive, draining, restoreDaily} \subseteq BOOLEAN
  /\ phase \in Phases
  /\ runner \in Runner \cup {NoRunner}
  /\ at \in [Runner -> Places]
  /\ kind \in [Runner -> {"daily", "schedule"}]
  /\ inFlight \in [Runner -> 0..Threads]
  /\ submitted \in [Runner -> 0..Total]
  /\ scheduler \in {"check", "look", "spawn"}
  /\ clock \in {"far", "near", "inside"}
  /\ windows \in 0..MaxWindows /\ restarts \in 0..MaxRestarts

Alive(r) == r # NoRunner /\ at[r] # "none"
Goto(r, place) == at' = [at EXCEPT ![r] = place]

------------------------------------------------------------------------------
(* The runner: _orchestrate *)

\* The head of the loop.  Outside a window both flags are cleared.
Top(r) ==
  /\ at[r] = "top"
  /\ IF userStop
       THEN Goto(r, "final") /\ UNCHANGED <<scheduleActive, draining, kind>>
     ELSE IF clock = "inside"
       THEN /\ Goto(r, "enter") /\ kind' = [kind EXCEPT ![r] = "schedule"]
            /\ UNCHANGED <<scheduleActive, draining>>
     ELSE /\ scheduleActive' = FALSE /\ draining' = FALSE
          /\ Goto(r, IF enabled THEN "enter" ELSE "final")
          /\ kind' = [kind EXCEPT ![r] = "daily"]
  /\ UNCHANGED <<mode, enabled, userStop, restoreDaily, phase, runner, inFlight, submitted,
                 scheduler, timeVars>>

\* _set_phase and the beginning of _run_batch.
Enter(r) ==
  /\ at[r] = "enter" /\ Goto(r, "batch")
  /\ IF kind[r] = "schedule"
       THEN scheduleActive' = TRUE /\ draining' = FALSE /\ phase' = "schedule_running"
       ELSE UNCHANGED <<scheduleActive, draining>> /\ phase' = "daily_running"
  /\ inFlight' = [inFlight EXCEPT ![r] = 0]
  /\ submitted' = [submitted EXCEPT ![r] = 0]
  /\ UNCHANGED <<mode, enabled, userStop, restoreDaily, runner, kind, scheduler, timeVars>>

AllowDispatch(r) ==
  /\ ~userStop /\ ~draining
  /\ IF kind[r] = "schedule" THEN scheduleActive ELSE enabled /\ ~scheduleActive

\* Tasks are submitted until the target is reached, which for a target of the
\* pool the pool decides, or all threads are busy.
Dispatch(r) ==
  /\ at[r] = "batch" /\ AllowDispatch(r)
  /\ \E n \in 1..(Threads - inFlight[r]) :
       /\ mode = "total" => submitted[r] + n <= Total
       /\ inFlight' = [inFlight EXCEPT ![r] = @ + n]
       /\ submitted' = [submitted EXCEPT ![r] = IF mode = "total" THEN @ + n ELSE @]
  /\ UNCHANGED <<mode, flagVars, runner, at, kind, scheduler, timeVars>>

\* openai_register.worker returns.
TaskDone(r) ==
  /\ inFlight[r] > 0
  /\ inFlight' = [inFlight EXCEPT ![r] = @ - 1]
  /\ UNCHANGED <<mode, flagVars, runner, at, kind, submitted, scheduler, timeVars>>

\* A faulty variant, for the mutation runs: a stop only ends the dispatching.
BatchEndsByItself(r) ==
  /\ at[r] = "batch" /\ inFlight[r] = 0
  /\ \/ draining
     \/ kind[r] = "schedule" /\ ~scheduleActive
     \/ kind[r] = "daily" /\ (scheduleActive \/ (mode = "total" /\ submitted[r] = Total))
  /\ Goto(r, "after")
  /\ UNCHANGED <<mode, flagVars, runner, kind, inFlight, submitted, scheduler, timeVars>>

\* Nothing is in flight and a round submitted nothing.
BatchEnds(r) ==
  /\ at[r] = "batch" /\ inFlight[r] = 0
  /\ \/ draining \/ userStop
     \/ kind[r] = "schedule" /\ ~scheduleActive
     \/ /\ kind[r] = "daily"
        /\ ~enabled \/ scheduleActive \/ (mode = "total" /\ submitted[r] = Total)
  /\ Goto(r, "after")
  /\ UNCHANGED <<mode, flagVars, runner, kind, inFlight, submitted, scheduler, timeVars>>

\* The loop's branch for the kind of batch, up to _post_drain or _preempt_drain.
AfterBatch(r) ==
  /\ at[r] = "after"
  /\ IF kind[r] = "schedule"
       THEN /\ scheduleActive' = FALSE
            /\ UNCHANGED restoreDaily
            /\ IF userStop THEN Goto(r, "final") /\ UNCHANGED <<draining, phase>>
               ELSE Goto(r, "drain") /\ draining' = TRUE /\ phase' = "post_drain"
       ELSE /\ UNCHANGED scheduleActive
            /\ IF userStop \/ ~scheduleActive
                 THEN Goto(r, "final") /\ UNCHANGED <<restoreDaily, draining, phase>>
                 ELSE /\ Goto(r, "drain") /\ draining' = TRUE /\ phase' = "preempt_drain"
                      /\ restoreDaily' = enabled
  /\ UNCHANGED <<mode, enabled, userStop, runner, kind, inFlight, submitted, scheduler,
                 timeVars>>

\* Nothing runs any more according to the statistics, or the time is up.
DrainOver(r) ==
  /\ at[r] = "drain" /\ draining' = FALSE
  /\ Goto(r, IF kind[r] = "daily" \/ (~userStop /\ restoreDaily /\ enabled)
               THEN "top" ELSE "final")
  /\ UNCHANGED <<mode, enabled, userStop, scheduleActive, restoreDaily, phase, runner, kind,
                 inFlight, submitted, scheduler, timeVars>>

\* The end of _orchestrate, under the lock.
Final(r) ==
  /\ at[r] = "final" /\ Goto(r, "leaving")
  /\ scheduleActive' = FALSE /\ draining' = FALSE
  /\ enabled' = (enabled /\ restoreDaily /\ ~userStop)
  /\ phase' = "idle"
  /\ UNCHANGED <<mode, userStop, restoreDaily, runner, kind, inFlight, submitted, scheduler,
                 timeVars>>

Leave(r) ==
  /\ at[r] = "leaving" /\ Goto(r, "none")
  /\ UNCHANGED <<mode, flagVars, runner, kind, inFlight, submitted, scheduler, timeVars>>

------------------------------------------------------------------------------
(* The administrator *)

NewRunner == \E r \in Runner : at[r] = "none" /\ runner' = r /\ Goto(r, "top")

Start ==
  /\ userStop' = FALSE /\ enabled' = TRUE
  /\ IF Alive(runner) THEN UNCHANGED <<runner, at>> ELSE NewRunner
  /\ UNCHANGED <<mode, scheduleActive, draining, restoreDaily, phase, kind, inFlight,
                 submitted, scheduler, timeVars>>

StopCall ==
  /\ userStop' = TRUE /\ enabled' = FALSE /\ restoreDaily' = FALSE
  /\ UNCHANGED <<mode, scheduleActive, draining, phase, runnerVars, scheduler, timeVars>>

------------------------------------------------------------------------------
(* The scheduler: _scheduler_loop *)

\* Inside a window a runner that is not at a scheduled batch is called to it; near a
\* window a daily batch is called off.
CheckClock ==
  /\ scheduler = "check"
  /\ IF clock = "inside" /\ phase # "schedule_running" /\ ~userStop
       THEN scheduleActive' = TRUE /\ scheduler' = "look"
       ELSE /\ clock = "near" /\ phase = "daily_running"
            /\ scheduleActive' = TRUE /\ UNCHANGED scheduler
  /\ UNCHANGED <<mode, enabled, userStop, draining, restoreDaily, phase, runnerVars,
                 timeVars>>

\* Then it looks for a runner, and starts one; it does not hold the lock.
LookForRunner ==
  /\ scheduler = "look"
  /\ scheduler' = IF ~Alive(runner) /\ enabled THEN "spawn" ELSE "check"
  /\ UNCHANGED <<mode, flagVars, runnerVars, timeVars>>

SpawnRunner ==
  /\ scheduler = "spawn" /\ scheduler' = "check"
  /\ NewRunner
  /\ UNCHANGED <<mode, flagVars, kind, inFlight, submitted, timeVars>>

------------------------------------------------------------------------------
(* The environment *)

Tick ==
  /\ \/ clock = "far" /\ clock' = "near" /\ windows < MaxWindows /\ UNCHANGED windows
     \/ clock = "near" /\ clock' = "inside" /\ windows' = windows + 1
     \/ clock = "inside" /\ clock' = "far" /\ UNCHANGED windows
  /\ UNCHANGED <<mode, flagVars, runnerVars, scheduler, restarts>>

\* __init__ after a restart: what was enabled is started again.
Restart ==
  /\ restarts < MaxRestarts /\ restarts' = restarts + 1
  /\ userStop' = FALSE /\ scheduleActive' = FALSE /\ draining' = FALSE
  /\ restoreDaily' = FALSE /\ phase' = "idle" /\ scheduler' = "check"
  /\ inFlight' = [r \in Runner |-> 0]
  /\ \E first \in Runner :
       /\ runner' = IF enabled THEN first ELSE NoRunner
       /\ at' = [r \in Runner |-> IF enabled /\ r = first THEN "top" ELSE "none"]
  /\ UNCHANGED <<mode, enabled, kind, submitted, clock, windows>>

RegisterInit ==
  /\ mode \in {"total", "pool"}
  /\ enabled = FALSE /\ userStop = FALSE /\ scheduleActive = FALSE /\ draining = FALSE
  /\ restoreDaily = FALSE /\ phase = "idle"
  /\ runner = NoRunner /\ at = [r \in Runner |-> "none"]
  /\ kind = [r \in Runner |-> "daily"]
  /\ inFlight = [r \in Runner |-> 0] /\ submitted = [r \in Runner |-> 0]
  /\ scheduler = "check"
  /\ clock = "far" /\ windows = 0 /\ restarts = 0

\* What a runner does by itself.
RunnerStep(r) ==
  Top(r) \/ Enter(r) \/ BatchEnds(r) \/ AfterBatch(r) \/ DrainOver(r) \/ Final(r) \/ Leave(r)

RegisterNext ==
  \/ \E r \in Runner : RunnerStep(r) \/ Dispatch(r) \/ TaskDone(r)
  \/ Start \/ StopCall
  \/ CheckClock \/ LookForRunner \/ SpawnRunner
  \/ Tick \/ Restart

\* Threads get their turn, tasks return (their requests have timeouts), and time
\* passes.
RegisterFairness ==
  /\ \A r \in Runner : WF_registerVars(RunnerStep(r)) /\ WF_registerVars(TaskDone(r))
  /\ WF_registerVars(CheckClock) /\ WF_registerVars(Tick)

RegisterSpec == RegisterInit /\ [][RegisterNext]_registerVars /\ RegisterFairness

------------------------------------------------------------------------------
(* Properties *)

\* stop ("stops every phase"): whatever batch or drain the runners are in, and
\* however the schedule calls for them, they end unless they are started again.
StopEnds ==
  /\ []RegisterTypeOK
  /\ userStop ~> (~userStop \/ \A r \in Runner : at[r] = "none")

\* "A window is worked on until it ends" and "after the window the tasks in flight
\* are drained" (comments of _orchestrate): once a window is over, the scheduled
\* batch ends.  Not so, says TLC.
WindowEnds ==
  (phase = "schedule_running" /\ clock = "far")
    ~> (phase # "schedule_running" \/ clock = "inside")
=============================================================================
