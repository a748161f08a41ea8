---------------------------- MODULE FireflyRefresh ----------------------------
(***************************************************************************)
(* The credential daemon of the Firefly channel:                           *)
(* services/backends/firefly_refresh.py, and its getter and updater in     *)
(* api/app.py.  A thread visits the Firefly accounts, exchanges the cookie *)
(* of those whose access token runs out for a new token, and writes what   *)
(* it learnt to the account; failures are retried after growing delays,    *)
(* and the fourth in a row marks the account abnormal.  Administrators     *)
(* edit and remove accounts meanwhile, and the application starts and      *)
(* stops the daemon.                                                       *)
(*                                                                         *)
(* Time is abstract: a token runs out, a delay passes.                     *)
(***************************************************************************)
EXTENDS Naturals, FiniteSets

CONSTANTS
  FfAccount,     \* Firefly accounts
  FfThread,      \* threads that a start may create
  NoThread,      \* no thread
  MaxFfTokens    \* bound: how many access tokens Adobe issues to an account

ASSUME FireflyRefreshAssumption ==
  /\ IsFiniteSet(FfAccount) /\ IsFiniteSet(FfThread)
  /\ NoThread \notin FfThread
  /\ MaxFfTokens \in Nat

\* Tokens of an account are numbered by their issue; 0 came with the account.
FfToken == 0..MaxFfTokens
FfStatus == {"normal", "abnormal", "disabled", "limited"}

\* _FAILURE_BACKOFFS has four steps.
Backoffs == 4

\* What is stored: the access token, and the token whose expiry is recorded as
\* token_expires_at.
FfRecord == [status : FfStatus, token : FfToken, expiryOf : FfToken]

VARIABLES
  record,      \* the Firefly accounts of the pool
  ffIssued,    \* how many tokens Adobe has issued to each account (external)
  expiring,    \* the tokens that run out within the hour, or have (external)
  waiting,     \* accounts with now < _next_retry_at
  ffFailures,  \* _consecutive_failures
  alive,       \* threads that run
  current,     \* _thread
  started,     \* _runner_started
  stopping,    \* _stop_event
  snapshot,    \* what a thread got from the getter and has not visited yet
  visiting,    \* the account a thread is asking Adobe about, or none
  manager      \* where the application is in start_ or stop_refresh_daemon

daemonVars == <<alive, current, started, stopping, manager>>
scheduleVars == <<waiting, ffFailures>>
adobeVars == <<ffIssued, expiring>>
ffVars == <<record, adobeVars, scheduleVars, daemonVars, snapshot, visiting>>

\* An account as the getter saw it.
Seen == [account : FfAccount, rec : FfRecord]
Idle == [account |-> "none"]

FfTypeOK ==
  /\ DOMAIN record \subseteq FfAccount
  /\ \A a \in DOMAIN record : record[a] \in FfRecord
  /\ ffIssued \in [FfAccount -> FfToken]
  /\ expiring \subseteq FfAccount \X FfToken
  /\ waiting \subseteq FfAccount
  /\ ffFailures \in [FfAccount -> 0..Backoffs]
  /\ alive \subseteq FfThread
  /\ current \in FfThread \cup {NoThread}
  /\ started \in BOOLEAN /\ stopping \in BOOLEAN
  /\ snapshot \in [FfThread -> SUBSET Seen]
  /\ visiting \in [FfThread -> Seen \cup {Idle}]
  /\ manager \in {"stopped", "starting", "running", "stopping"}

------------------------------------------------------------------------------
(* The thread *)

\* accounts_getter: a copy of the records, when the last round is over.
Look(t) ==
  /\ t \in alive /\ ~stopping
  /\ snapshot[t] = {} /\ visiting[t] = Idle
  /\ snapshot' = [snapshot EXCEPT ![t] =
                    {[account |-> a, rec |-> record[a]] : a \in DOMAIN record}]
  /\ UNCHANGED <<record, adobeVars, scheduleVars, daemonVars, visiting>>

\* _should_refresh, on the copy.
ShouldRefresh(seen) ==
  /\ seen.rec.status # "abnormal"
  /\ <<seen.account, seen.rec.expiryOf>> \in expiring

\* A faulty variant, for the mutation runs: the delay is not looked at.
AskEagerly(t) ==
  \E seen \in snapshot[t] :
    /\ t \in alive /\ visiting[t] = Idle
    /\ ShouldRefresh(seen)
    /\ snapshot' = [snapshot EXCEPT ![t] = @ \ {seen}]
    /\ visiting' = [visiting EXCEPT ![t] = seen]
    /\ UNCHANGED <<record, adobeVars, scheduleVars, daemonVars>>

\* The delay is over, and the copy's expiry is near: ask Adobe.
Ask(t) ==
  \E seen \in snapshot[t] :
    /\ t \in alive /\ visiting[t] = Idle
    /\ seen.account \notin waiting
    /\ ShouldRefresh(seen)
    /\ snapshot' = [snapshot EXCEPT ![t] = @ \ {seen}]
    /\ visiting' = [visiting EXCEPT ![t] = seen]
    /\ UNCHANGED <<record, adobeVars, scheduleVars, daemonVars>>

\* Either the account's delay is not over, or nothing is to be done yet and the
\* next check is scheduled.
Skip(t) ==
  \E seen \in snapshot[t] :
    /\ t \in alive /\ visiting[t] = Idle
    /\ seen.account \in waiting \/ ~ShouldRefresh(seen)
    /\ snapshot' = [snapshot EXCEPT ![t] = @ \ {seen}]
    /\ waiting' = waiting \cup {seen.account}
    /\ UNCHANGED <<record, adobeVars, ffFailures, daemonVars, visiting>>

\* account_service.update_account through the daemon's updater: the record is
\* found by the copy's token, and keeps its key whatever the fields say.
UpdateRecord(seen, updated) ==
  record' = IF seen.account \in DOMAIN record
              THEN [record EXCEPT ![seen.account] = updated]
              ELSE record

\* Adobe answers with a new access token: its expiry and the status are written.
Renewed(t) ==
  LET seen == visiting[t]
      a == seen.account
      n == ffIssued[a] + 1
  IN  /\ seen # Idle /\ n \in FfToken
      /\ ffIssued' = [ffIssued EXCEPT ![a] = n]
      /\ UpdateRecord(seen, [record[a] EXCEPT !.status = "normal", !.expiryOf = n])
      /\ ffFailures' = [ffFailures EXCEPT ![a] = 0]
      /\ waiting' = waiting \cup {a}
      /\ visiting' = [visiting EXCEPT ![t] = Idle]
      /\ UNCHANGED <<expiring, daemonVars, snapshot>>

\* The exchange fails: wait longer, and give up after the last step.
RefreshFails(t) ==
  LET seen == visiting[t]
      a == seen.account
      fails == IF ffFailures[a] = Backoffs THEN Backoffs ELSE ffFailures[a] + 1
  IN  /\ seen # Idle
      /\ ffFailures' = [ffFailures EXCEPT ![a] = fails]
      /\ waiting' = waiting \cup {a}
      /\ IF fails = Backoffs
           THEN UpdateRecord(seen, [record[a] EXCEPT !.status = "abnormal"])
           ELSE UNCHANGED record
      /\ visiting' = [visiting EXCEPT ![t] = Idle]
      /\ UNCHANGED <<adobeVars, daemonVars, snapshot>>

\* The loop ends between two rounds once it is told to.
Leave(t) ==
  /\ t \in alive /\ stopping
  /\ snapshot[t] = {} /\ visiting[t] = Idle
  /\ alive' = alive \ {t}
  /\ UNCHANGED <<record, adobeVars, scheduleVars, current, started, stopping, manager,
                 snapshot, visiting>>

------------------------------------------------------------------------------
(* start_refresh_daemon and stop_refresh_daemon, called in turn *)

\* Under the lock, then outside it: an old thread that still runs is told to stop.
StartCalled ==
  /\ manager = "stopped"
  /\ IF started /\ current \in alive
       THEN manager' = "running" /\ UNCHANGED stopping
       ELSE manager' = "starting" /\ stopping' = (stopping \/ current \in alive)
  /\ UNCHANGED <<record, adobeVars, scheduleVars, alive, current, started, snapshot,
                 visiting>>

\* A faulty variant, for the mutation runs: the old thread is not looked at again.
SpawnBlindly ==
  /\ manager = "starting" /\ manager' = "running"
  /\ \E t \in FfThread \ alive :
       alive' = alive \cup {t} /\ current' = t /\ started' = TRUE /\ stopping' = FALSE
  /\ UNCHANGED <<record, adobeVars, scheduleVars, snapshot, visiting>>

\* After a join with a timeout: if the old thread is still there the start is
\* given up, otherwise a new thread is created.
Spawn ==
  /\ manager = "starting" /\ manager' = "running"
  /\ IF current \in alive
       THEN UNCHANGED <<alive, current, started, stopping>>
       ELSE \E t \in FfThread \ alive :
              alive' = alive \cup {t} /\ current' = t /\ started' = TRUE /\ stopping' = FALSE
  /\ UNCHANGED <<record, adobeVars, scheduleVars, snapshot, visiting>>

StopCalled ==
  /\ manager = "running" /\ manager' = "stopping"
  /\ stopping' = TRUE /\ started' = FALSE
  /\ UNCHANGED <<record, adobeVars, scheduleVars, alive, current, snapshot, visiting>>

\* After a join with a timeout: a thread that is still there stays known.
Stopped ==
  /\ manager = "stopping" /\ manager' = "stopped"
  /\ current' = IF current \in alive THEN current ELSE NoThread
  /\ UNCHANGED <<record, adobeVars, scheduleVars, alive, started, stopping, snapshot,
                 visiting>>

------------------------------------------------------------------------------
(* Time, and administrators *)

RunOut ==
  /\ \E a \in FfAccount : \E n \in 0..ffIssued[a] :
       <<a, n>> \notin expiring /\ expiring' = expiring \cup {<<a, n>>}
  /\ UNCHANGED <<record, ffIssued, scheduleVars, daemonVars, snapshot, visiting>>

DelayOver ==
  /\ \E a \in waiting : waiting' = waiting \ {a}
  /\ UNCHANGED <<record, adobeVars, ffFailures, daemonVars, snapshot, visiting>>

EditAccount ==
  /\ \E a \in DOMAIN record, s \in FfStatus :
       record[a].status # s /\ record' = [record EXCEPT ![a].status = s]
  /\ UNCHANGED <<adobeVars, scheduleVars, daemonVars, snapshot, visiting>>

RemoveAccount ==
  /\ \E a \in DOMAIN record : record' = [b \in DOMAIN record \ {a} |-> record[b]]
  /\ UNCHANGED <<adobeVars, scheduleVars, daemonVars, snapshot, visiting>>

FfInit ==
  /\ record = [a \in FfAccount |-> [status |-> "normal", token |-> 0, expiryOf |-> 0]]
  /\ ffIssued = [a \in FfAccount |-> 0]
  /\ expiring = {} /\ waiting = {}
  /\ ffFailures = [a \in FfAccount |-> 0]
  /\ alive = {} /\ current = NoThread
  /\ started = FALSE /\ stopping = FALSE
  /\ snapshot = [t \in FfThread |-> {}]
  /\ visiting = [t \in FfThread |-> Idle]
  /\ manager = "stopped"

FfNext ==
  \/ \E t \in FfThread :
       Look(t) \/ Ask(t) \/ Skip(t) \/ Renewed(t) \/ RefreshFails(t) \/ Leave(t)
  \/ StartCalled \/ Spawn \/ StopCalled \/ Stopped
  \/ RunOut \/ DelayOver \/ EditAccount \/ RemoveAccount

FfSpec == FfInit /\ [][FfNext]_ffVars

------------------------------------------------------------------------------
(* Properties *)

\* However long a request holds up a thread that was told to stop, no second
\* thread runs next to it: the joins of start and stop time out, and the state
\* they leave must not let a later start forget the old thread.
OneDaemon == FfTypeOK /\ alive \subseteq {current}

\* A failed account is left alone until its delay is over, whatever thread asks,
\* after a restart of the daemon too; and while an account is being asked about
\* nobody else asks.
DelaysKept ==
  [][\A t \in FfThread : visiting'[t] # Idle /\ visiting'[t] # visiting[t] =>
       /\ visiting'[t].account \notin waiting
       /\ \A u \in FfThread \ {t} : visiting'[u] = Idle]_ffVars

\* "The new access_token is written back to the right place" (api/app.py): the
\* expiry that is recorded is that of the token that is stored.
RefreshSticks == \A a \in DOMAIN record : record[a].token = record[a].expiryOf
=============================================================================
