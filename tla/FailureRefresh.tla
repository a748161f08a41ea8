---------------------------- MODULE FailureRefresh ----------------------------
(***************************************************************************)
(* The verification queue of services/account_service.py: after an image   *)
(* request failed on an account's side, mark_image_result has the account  *)
(* probed in the background (fetch_remote_info, event "image_failure").    *)
(*                                                                         *)
(* Requests append accounts to a queue, unless they wait there already or  *)
(* are being probed; then one more round is asked for.  A thread that has  *)
(* changed the queue starts jobs until the queue is empty or enough jobs   *)
(* are active.  The queue names accounts by their token, and a token       *)
(* refresh rewrites what the queue holds of the old token.                 *)
(***************************************************************************)
EXTENDS Naturals, FiniteSets, Sequences, TokenAlias

CONSTANTS
  Account,        \* upstream accounts, whatever their current token
  MaxRenewals,    \* bound: how many tokens are renewed in a behaviour
  MaxFailures,    \* bound: how many failed images are reported
  MaxConcurrent   \* _IMAGE_FAILURE_REFRESH_MAX_CONCURRENT

ASSUME QueueAssumption ==
  /\ IsFiniteSet(Account)
  /\ MaxRenewals \in Nat
  /\ MaxFailures \in Nat
  /\ MaxConcurrent \in Nat \ {0}

\* <<a, 0>> is the token the account came with, <<a, n>> is from the n-th renewal.
Token == Account \X (0..MaxRenewals)
Owner(t) == t[1]

VARIABLES
  present,     \* the keys of _accounts
  aliases,     \* _token_aliases
  renewals,    \* how many tokens the identity provider has issued (external)
  failures,    \* how many failed images mark_image_result has recorded
  reported,    \* failures recorded whose verification is not scheduled yet
  pending,     \* _image_failure_refresh_pending, the deque
  pendingSet,  \* _image_failure_refresh_pending_set
  active,      \* _image_failure_refresh_active
  rerun,       \* _image_failure_refresh_rerun
  loops,       \* threads in the loop of _start_pending_image_failure_refreshes
  launching,   \* jobs taken from the queue and not submitted yet, per token
  probing,     \* jobs whose `refresh` runs, per token
  owed,        \* history: a verification was asked for and has not begun since
  disturbed    \* history: accounts whose token was renewed while active

pool == <<present, aliases, renewals>>
vars == <<present, aliases, renewals, failures, reported, pending, pendingSet,
          active, rerun, loops, launching, probing, owed, disturbed>>

RangeOf(s) == {s[i] : i \in DOMAIN s}
NoJobs == [t \in Token |-> 0]
Jobs(t) == launching[t] + probing[t]
Units(counts) == UNION {{t} \X (1..counts[t]) : t \in DOMAIN counts}
TotalOf(counts) == Cardinality(Units(counts))

TypeOK ==
  /\ present \subseteq Token
  /\ DOMAIN aliases \subseteq Token
  /\ \A t \in DOMAIN aliases : aliases[t] \in Token
  /\ renewals \in 0..MaxRenewals
  /\ failures \in 0..MaxFailures
  /\ reported \in [Token -> Nat]
  /\ pending \in Seq(Token)
  /\ pendingSet \subseteq Token
  /\ active \subseteq Token
  /\ rerun \subseteq Token
  /\ loops \in Nat
  /\ launching \in [Token -> Nat]
  /\ probing \in [Token -> Nat]
  /\ owed \subseteq Account
  /\ disturbed \subseteq Account

Current(t) == Resolve(present, aliases, t)

------------------------------------------------------------------------------
(* mark_image_result and _schedule_account_refresh_after_image_failure *)

\* The failure is written to the record of an account in the pool.
RecordFailure(t) ==
  /\ t \in present
  /\ failures < MaxFailures
  /\ failures' = failures + 1
  /\ reported' = [reported EXCEPT ![t] = @ + 1]
  /\ UNCHANGED <<pool, pending, pendingSet, active, rerun, loops, launching,
                 probing, owed, disturbed>>

Enqueue(t) ==
  /\ pending' = Append(pending, t)
  /\ pendingSet' = pendingSet \cup {t}

\* Faulty variants, for the mutation runs: any result of an image request is
\* verified, recorded as a failure or not ...
ScheduleUnrecorded(t) ==
  LET c == Current(t)
      ongoing == {x \in active : Current(x) = c}
  IN  /\ t \in present /\ failures < MaxFailures
      /\ reported' = [reported EXCEPT ![t] = @ - 1]
      /\ IF c \in pendingSet \/ ongoing # {}
           THEN UNCHANGED <<pending, pendingSet, loops>>
           ELSE Enqueue(c) /\ loops' = loops + 1
      /\ UNCHANGED <<pool, failures, active, rerun, launching, probing, owed, disturbed>>

\* ... or only the queue is looked at, not what is being verified.
ScheduleAlongside(t) ==
  LET c == Current(t) IN
  /\ reported[t] > 0
  /\ reported' = [reported EXCEPT ![t] = @ - 1]
  /\ IF c \in pendingSet THEN UNCHANGED <<pending, pendingSet, loops>>
                          ELSE Enqueue(c) /\ loops' = loops + 1
  /\ owed' = IF c \in present THEN owed \cup {Owner(c)} ELSE owed
  /\ UNCHANGED <<pool, failures, active, rerun, launching, probing, disturbed>>

\* The lock was released since the failure was recorded: the token may have
\* been renewed or its account deleted.  mark_image_result always forces, so
\* the time of the last verification does not matter.
Schedule(t) ==
  LET c == Current(t)
      ongoing == {x \in active : Current(x) = c}
  IN  /\ reported[t] > 0
      /\ reported' = [reported EXCEPT ![t] = @ - 1]
      /\ IF c \in pendingSet \/ ongoing # {}
           THEN /\ IF ongoing = {} THEN UNCHANGED rerun
                   ELSE \E x \in ongoing : rerun' = rerun \cup {x}
                /\ UNCHANGED <<pending, pendingSet, loops>>
           ELSE /\ Enqueue(c)
                /\ loops' = loops + 1
                /\ UNCHANGED rerun
      /\ owed' = IF c \in present THEN owed \cup {Owner(c)} ELSE owed
      /\ UNCHANGED <<pool, failures, active, launching, probing, disturbed>>

------------------------------------------------------------------------------
(* _start_pending_image_failure_refreshes and the jobs *)

\* A faulty variant, for the mutation runs.
FullOffByOne == Cardinality(active) > MaxConcurrent

Full == Cardinality(active) >= MaxConcurrent

LeaveLoop ==
  /\ loops > 0
  /\ pending = <<>> \/ Full
  /\ loops' = loops - 1
  /\ UNCHANGED <<pool, failures, reported, pending, pendingSet, active, rerun,
                 launching, probing, owed, disturbed>>

PopNext ==
  /\ loops > 0
  /\ pending # <<>> /\ ~Full
  /\ LET t == Head(pending) IN
       /\ pending' = Tail(pending)
       /\ pendingSet' = pendingSet \ {t}
       /\ active' = active \cup {t}
       /\ launching' = [launching EXCEPT ![t] = @ + 1]
  /\ loops' = loops - 1
  /\ UNCHANGED <<pool, failures, reported, rerun, probing, owed, disturbed>>

\* executor.submit: the job will run; its thread goes on with the loop.
Launch(t) ==
  /\ launching[t] > 0
  /\ launching' = [launching EXCEPT ![t] = @ - 1]
  /\ probing' = [probing EXCEPT ![t] = @ + 1]
  /\ loops' = loops + 1
  /\ owed' = owed \ {Owner(t)}
  /\ UNCHANGED <<pool, failures, reported, pending, pendingSet, active, rerun, disturbed>>

\* executor.submit raised: the verification is given up, the loop goes on.
LaunchFails(t) ==
  /\ launching[t] > 0
  /\ launching' = [launching EXCEPT ![t] = @ - 1]
  /\ active' = active \ {t}
  /\ loops' = loops + 1
  /\ owed' = owed \ {Owner(t)}
  /\ UNCHANGED <<pool, failures, reported, pending, pendingSet, rerun, probing, disturbed>>

\* A faulty variant, for the mutation runs: the job does not start the next one.
EndJobQuietly(t) ==
  /\ probing[t] > 0
  /\ probing' = [probing EXCEPT ![t] = @ - 1]
  /\ active' = active \ {t}
  /\ rerun' = rerun \ {t}
  /\ IF t \in rerun /\ Current(t) \notin pendingSet
       THEN Enqueue(Current(t))
       ELSE UNCHANGED <<pending, pendingSet>>
  /\ UNCHANGED <<pool, failures, reported, loops, launching, owed, disturbed>>

\* The finally block of `refresh`: the job knows the token it was started with.
EndJob(t) ==
  /\ probing[t] > 0
  /\ probing' = [probing EXCEPT ![t] = @ - 1]
  /\ active' = active \ {t}
  /\ rerun' = rerun \ {t}
  /\ IF t \in rerun /\ Current(t) \notin pendingSet
       THEN Enqueue(Current(t))
       ELSE UNCHANGED <<pending, pendingSet>>
  /\ loops' = loops + 1
  /\ UNCHANGED <<pool, failures, reported, launching, owed, disturbed>>

------------------------------------------------------------------------------
(* The pool changes: by these jobs, by requests and by administrators. *)

\* Faulty variants, for the mutation runs: the deque is rewritten and the set
\* is forgotten, or neither is.
RenewDequeOnly(old) ==
  LET new == <<Owner(old), renewals + 1>>
  IN  /\ old \in present /\ renewals < MaxRenewals
      /\ renewals' = renewals + 1
      /\ present' = (present \ {old}) \cup {new}
      /\ aliases' = AliasTo(aliases, old, new)
      /\ pending' = [i \in DOMAIN pending |->
                      IF pending[i] = old THEN new ELSE pending[i]]
      /\ UNCHANGED <<failures, reported, pendingSet, active, rerun, loops, launching,
                     probing, owed, disturbed>>
RenewPoolOnly(old) ==
  /\ old \in present /\ renewals < MaxRenewals
  /\ renewals' = renewals + 1
  /\ present' = (present \ {old}) \cup {<<Owner(old), renewals + 1>>}
  /\ aliases' = AliasTo(aliases, old, <<Owner(old), renewals + 1>>)
  /\ UNCHANGED <<failures, reported, pending, pendingSet, active, rerun, loops,
                 launching, probing, owed, disturbed>>

\* _apply_refreshed_tokens, as far as the queue is concerned.  The new token is
\* nowhere in the queue yet, so the removal of duplicates finds none.
Renew(old) ==
  LET new == <<Owner(old), renewals + 1>>
      rewrite(t) == IF t = old THEN new ELSE t
      rewritten(S) == {rewrite(t) : t \in S}
  IN  /\ old \in present /\ renewals < MaxRenewals
      /\ renewals' = renewals + 1
      /\ present' = rewritten(present)
      /\ aliases' = AliasTo(aliases, old, new)
      /\ pending' = [i \in DOMAIN pending |-> rewrite(pending[i])]
      /\ pendingSet' = IF old \in pendingSet \cup RangeOf(pending)
                         THEN RangeOf(pending') ELSE pendingSet
      /\ active' = rewritten(active)
      /\ rerun' = rewritten(rerun)
      /\ disturbed' = IF old \in active THEN disturbed \cup {Owner(old)} ELSE disturbed
      /\ UNCHANGED <<failures, reported, loops, launching, probing, owed>>

\* delete_accounts does not look at the queue.
Delete(t) ==
  /\ t \in present
  /\ present' = present \ {t}
  /\ aliases' = ForgetAliases(aliases, {t})
  /\ UNCHANGED <<renewals, failures, reported, pending, pendingSet, active, rerun,
                 loops, launching, probing, owed, disturbed>>

Init ==
  /\ present = Account \X {0}
  /\ aliases = [t \in {} |-> t]
  /\ renewals = 0
  /\ failures = 0
  /\ reported = NoJobs
  /\ pending = <<>>
  /\ pendingSet = {}
  /\ active = {}
  /\ rerun = {}
  /\ loops = 0
  /\ launching = NoJobs
  /\ probing = NoJobs
  /\ owed = {}
  /\ disturbed = {}

LoopStep == LeaveLoop \/ PopNext
JobStep(t) == Launch(t) \/ LaunchFails(t) \/ EndJob(t)

Next ==
  \/ \E t \in Token : RecordFailure(t) \/ Schedule(t) \/ JobStep(t) \/ Renew(t) \/ Delete(t)
  \/ LoopStep

\* Threads get their turn, and a probe ends: its requests have timeouts.
Fairness == WF_vars(LoopStep) /\ \A t \in Token : WF_vars(JobStep(t))

Spec == Init /\ [][Next]_vars
FairSpec == Spec /\ Fairness

------------------------------------------------------------------------------
(* Properties. *)

InPool(a) == \E t \in present : Owner(t) = a
JobsOf(a) == TotalOf([t \in {x \in Token : Owner(x) = a} |-> Jobs(t)])

\* The deque and the set that answers membership hold the same tokens, each
\* once, whatever is rewritten, appended and popped in between.
QueueConsistent ==
  /\ pendingSet = RangeOf(pending)
  /\ \A i, j \in DOMAIN pending : pending[i] = pending[j] => i = j

\* No entry of the queue names an account by a token that was renewed since:
\* the probe would start from a token the upstream has replaced.
PendingIsCurrent == \A t \in pendingSet : Current(t) = t

\* However failures, renewals, deletions and jobs interleave, the queue names every
\* account it owes a verification once, by its current token.
QueueSound == TypeOK /\ QueueConsistent /\ PendingIsCurrent

\* Never more than MaxConcurrent jobs, although renewals rewrite `active` while
\* the jobs run and although jobs release what they were started with.
ConcurrencyBound == TotalOf([t \in Token |-> Jobs(t)]) <= MaxConcurrent

\* An account in the pool is verified by one job at a time, whatever token the
\* job and the reports of failures know it by.
OneJobPerAccount == \A a \in Account : InPool(a) => JobsOf(a) <= 1

\* A place among the active ones is held by a job that will release it, unless
\* the token was renewed while its account was active.
ActiveHasJob == \A t \in active : Jobs(t) > 0 \/ Owner(t) \in disturbed

\* The places for jobs are neither exceeded, nor given twice to an account, nor lost.
JobsSound == ConcurrencyBound /\ OneJobPerAccount /\ ActiveHasJob

\* A failure on the account's side is followed by a verification that begins
\* after it, also when it is reported during an earlier one; as long as no
\* token is renewed while its account is active.
VerificationHappens ==
  \A a \in Account : a \in owed ~> \/ a \notin owed
                                   \/ ~InPool(a)
                                   \/ disturbed # {}

\* "When a token rotates, the old token in the failure-refresh queue is
\* rewritten to the new one, so that no order is lost" (_apply_refreshed_tokens):
\* a verification that is owed waits in the queue or has a job to see to it.
NoOrderLost ==
  \A t \in present : Owner(t) \in owed => t \in pendingSet \/ JobsOf(Owner(t)) > 0
=============================================================================
