----------------------------- MODULE OAuthRefresh -----------------------------
(***************************************************************************)
(* The renewal of one account's credentials: refresh_access_token and      *)
(* _refresh_access_token_owner of services/account_service.py, called by   *)
(* image requests, the watcher, keep-alive and probes at the same time,    *)
(* and the relogin that replaces the credentials from outside.             *)
(*                                                                         *)
(* Callers with the same credentials share one request (a "flight"): the   *)
(* first owns it, the others wait for its future.  Owners take a lock, ask *)
(* the identity provider, and write the answer if the account still has    *)
(* the credentials they started from.  The identity provider honours a     *)
(* refresh token once: its answer replaces it.                             *)
(***************************************************************************)
EXTENDS Naturals, FiniteSets

CONSTANTS
  Caller,       \* threads that call refresh_access_token
  MaxIssues,    \* bound: how many credentials the identity provider issues
  MaxCalls,     \* bound: how many calls there are in a behaviour
  AutoRemove,   \* auto_remove_invalid_accounts
  NoCaller      \* nobody

ASSUME OAuthAssumption ==
  /\ IsFiniteSet(Caller) /\ NoCaller \notin Caller
  /\ MaxIssues \in Nat
  /\ MaxCalls \in Nat
  /\ AutoRemove \in BOOLEAN

\* An access token and its refresh token are issued together; they are named by
\* the order of issue.  0 came with the account.
Credential == 0..MaxIssues
Gone == MaxIssues + 1      \* the account was removed
Nothing == MaxIssues + 2   \* no credential

\* How a future is set: with the new token, or with one of three exceptions.
Outcome == {"renewed", "terminal", "changed", "transient"}
Flight == [owner : Caller, outcome : Outcome \cup {"pending"}]
Holding == {"ask", "apply", "refused", "condemn", "failed"}
Owning == Holding \cup {"lock", "publish", "pop"}
Step == Owning \cup {"idle", "enter", "wait", "return"}

VARIABLES
  stored,    \* the credential in the account's record
  status,    \* the account's status, "normal" or "abnormal"
  issued,    \* how many credentials the identity provider has issued (external)
  live,      \* the credentials whose refresh token it honours (external)
  spoiled,   \* history: credentials spent or revoked without a replacement at hand
  relogin,   \* a credential from a fresh login that is not applied yet
  flights,   \* _oauth_refresh_flights
  lock,      \* the holder of _token_refresh_lock
  pc,        \* where each caller is
  mine,      \* the credential of its snapshot
  attempt,   \* credential_attempt
  outcome,   \* what its request or its future came to
  answer,    \* the credential in the identity provider's answer
  calls      \* how many calls there have been

provider == <<issued, live, spoiled>>
vars == <<stored, status, issued, live, spoiled, relogin, flights, lock, pc,
          mine, attempt, outcome, answer, calls>>

TypeOK ==
  /\ stored \in Credential \cup {Gone}
  /\ status \in {"normal", "abnormal"}
  /\ issued \in Credential
  /\ live \subseteq 0..issued
  /\ spoiled \subseteq 0..issued
  /\ relogin \in 0..issued \cup {Nothing}
  /\ DOMAIN flights \subseteq Credential
  /\ \A c \in DOMAIN flights : flights[c] \in Flight
  /\ lock \in Caller \cup {NoCaller}
  /\ pc \in [Caller -> Step]
  /\ mine \in [Caller -> Credential]
  /\ attempt \in [Caller -> {1, 2}]
  /\ outcome \in [Caller -> Outcome \cup {"pending"}]
  /\ answer \in [Caller -> Credential]
  /\ calls \in 0..MaxCalls

Goto(w, step) == pc' = [pc EXCEPT ![w] = step]
Note(w, result) == outcome' = [outcome EXCEPT ![w] = result]

------------------------------------------------------------------------------
(* refresh_access_token *)

\* The snapshot, under the pool's lock: any token of the account resolves to
\* its record.  A call that finds no account returns at once.
Snapshot(w) ==
  /\ mine' = [mine EXCEPT ![w] = stored]
  /\ Note(w, "pending")
  /\ Goto(w, "enter")

Call(w) ==
  /\ pc[w] = "idle" /\ calls < MaxCalls
  /\ stored # Gone
  /\ calls' = calls + 1
  /\ attempt' = [attempt EXCEPT ![w] = 1]
  /\ Snapshot(w)
  /\ UNCHANGED <<stored, status, provider, relogin, flights, lock, answer>>

\* Under _oauth_refresh_flights_lock: join the flight of these credentials or
\* start it.  A flight that is over and not removed yet answers at once.
Enter(w) ==
  /\ pc[w] = "enter"
  /\ IF mine[w] \in DOMAIN flights
       THEN /\ Note(w, flights[mine[w]].outcome)
            /\ Goto(w, IF flights[mine[w]].outcome = "pending" THEN "wait" ELSE "return")
            /\ UNCHANGED flights
       ELSE /\ flights' = [c \in DOMAIN flights \cup {mine[w]} |->
                             IF c = mine[w] THEN [owner |-> w, outcome |-> "pending"]
                                            ELSE flights[c]]
            /\ Goto(w, "lock")
            /\ UNCHANGED outcome
  /\ UNCHANGED <<stored, status, provider, relogin, lock, mine, attempt, answer, calls>>

TakeLock(w) ==
  /\ pc[w] = "lock" /\ lock = NoCaller
  /\ lock' = w
  /\ Goto(w, "ask")
  /\ UNCHANGED <<stored, status, provider, relogin, flights, mine, attempt, outcome,
                 answer, calls>>

\* The identity provider takes the refresh token and issues the next one; it
\* may go on honouring the old one for a while.
Exchange(c) ==
  /\ c \in live /\ issued < MaxIssues
  /\ issued' = issued + 1
  /\ \E spent \in SUBSET {c} : live' = (live \ spent) \cup {issued + 1}

AskGranted(w) ==
  /\ pc[w] = "ask"
  /\ Exchange(mine[w])
  /\ answer' = [answer EXCEPT ![w] = issued + 1]
  /\ Goto(w, "apply")
  /\ UNCHANGED <<stored, status, spoiled, relogin, flights, lock, mine, attempt,
                 outcome, calls>>

\* The exchange took place and the answer was lost: a timeout.
AskLost(w) ==
  /\ pc[w] = "ask"
  /\ Exchange(mine[w])
  /\ spoiled' = spoiled \cup {mine[w]}
  /\ Goto(w, "failed")
  /\ UNCHANGED <<stored, status, relogin, flights, lock, mine, attempt, outcome,
                 answer, calls>>

\* The identity provider could not be reached, or answered 408, 429 or 5xx.
AskFailed(w) ==
  /\ pc[w] = "ask"
  /\ Goto(w, "failed")
  /\ UNCHANGED <<stored, status, provider, relogin, flights, lock, mine, attempt,
                 outcome, answer, calls>>

\* invalid_grant and the like: the refresh token is not honoured (any more).
AskRefused(w) ==
  /\ pc[w] = "ask"
  /\ mine[w] \notin live
  /\ Goto(w, "refused")
  /\ UNCHANGED <<stored, status, provider, relogin, flights, lock, mine, attempt,
                 outcome, answer, calls>>

\* A faulty variant, for the mutation runs: the answer is written regardless.
ApplyUnchecked(w) ==
  /\ pc[w] = "apply"
  /\ stored' = answer[w]
  /\ Note(w, "renewed")
  /\ answer' = [answer EXCEPT ![w] = 0]
  /\ lock' = NoCaller
  /\ Goto(w, "publish")
  /\ UNCHANGED <<status, provider, relogin, flights, mine, attempt, calls>>

\* _apply_refreshed_tokens, compare-and-set on the credentials of the snapshot.
Apply(w) ==
  /\ pc[w] = "apply"
  /\ IF stored = mine[w]
       THEN stored' = answer[w] /\ Note(w, "renewed")
       ELSE UNCHANGED stored /\ Note(w, "changed")
  /\ answer' = [answer EXCEPT ![w] = 0]
  /\ lock' = NoCaller
  /\ Goto(w, "publish")
  /\ UNCHANGED <<status, provider, relogin, flights, mine, attempt, calls>>

\* A faulty variant, for the mutation runs: the exception leaves the lock taken.
FailKeepingLock(w) ==
  /\ pc[w] = "failed"
  /\ Note(w, "transient")
  /\ Goto(w, "publish")
  /\ UNCHANGED <<stored, status, provider, relogin, flights, lock, mine, attempt,
                 answer, calls>>

\* A transient failure is noted on the record, for display only.
Fail(w) ==
  /\ pc[w] = "failed"
  /\ Note(w, "transient")
  /\ lock' = NoCaller
  /\ Goto(w, "publish")
  /\ UNCHANGED <<stored, status, provider, relogin, flights, mine, attempt, answer, calls>>

\* handle_invalid_token, first its _record_invalid_token_seen: whatever record
\* the old token leads to by now.
Condemn(w) ==
  /\ pc[w] = "refused"
  /\ status' = IF stored = Gone THEN status ELSE "abnormal"
  /\ Goto(w, "condemn")
  /\ UNCHANGED <<stored, provider, relogin, flights, lock, mine, attempt, outcome,
                 answer, calls>>

\* ... then, if so configured, the removal.
RemoveAccount(w) ==
  /\ pc[w] = "condemn"
  /\ stored' = IF AutoRemove THEN Gone ELSE stored
  /\ Note(w, "terminal")
  /\ lock' = NoCaller
  /\ Goto(w, "publish")
  /\ UNCHANGED <<status, provider, relogin, flights, mine, attempt, answer, calls>>

\* future.set_result or set_exception: everybody who waits for it is told.
Publish(w) ==
  LET told == {v \in Caller : pc[v] = "wait" /\ mine[v] = mine[w]}
  IN  /\ pc[w] = "publish"
      /\ flights' = [flights EXCEPT ![mine[w]].outcome = outcome[w]]
      /\ outcome' = [v \in Caller |-> IF v \in told THEN outcome[w] ELSE outcome[v]]
      /\ pc' = [v \in Caller |-> IF v = w THEN "pop"
                                 ELSE IF v \in told THEN "return" ELSE pc[v]]
      /\ UNCHANGED <<stored, status, provider, relogin, lock, mine, attempt, answer, calls>>

\* The owner's finally block: the flight is removed.
Pop(w) ==
  /\ pc[w] = "pop"
  /\ flights' = [c \in DOMAIN flights \ {mine[w]} |-> flights[c]]
  /\ Goto(w, "return")
  /\ UNCHANGED <<stored, status, provider, relogin, lock, mine, attempt, outcome,
                 answer, calls>>

\* The end of an attempt: once more from a new snapshot if the credentials
\* changed meanwhile, otherwise the call returns.
Return(w) ==
  /\ pc[w] = "return"
  /\ IF outcome[w] = "changed" /\ attempt[w] = 1 /\ stored # Gone
       THEN attempt' = [attempt EXCEPT ![w] = 2] /\ Snapshot(w)
       ELSE /\ Goto(w, "idle")
            /\ mine' = [mine EXCEPT ![w] = 0]
            /\ attempt' = [attempt EXCEPT ![w] = 1]
            /\ Note(w, "pending")
  /\ UNCHANGED <<stored, status, provider, relogin, flights, lock, answer, calls>>

------------------------------------------------------------------------------
(* The relogin task, and the identity provider on its own *)

\* A login with the password: a new session, which may end the earlier ones.
Login ==
  /\ relogin = Nothing /\ stored # Gone /\ issued < MaxIssues
  /\ issued' = issued + 1
  /\ relogin' = issued + 1
  /\ \E kept \in {live, {}} : live' = kept \cup {issued + 1}
  /\ UNCHANGED <<stored, status, spoiled, flights, lock, pc, mine, attempt, outcome,
                 answer, calls>>

\* apply_relogin_tokens: no compare-and-set, the credentials are to be replaced.
ApplyRelogin ==
  /\ relogin # Nothing
  /\ IF stored = Gone THEN UNCHANGED <<stored, status>>
                      ELSE stored' = relogin /\ status' = "normal"
  /\ relogin' = Nothing
  /\ UNCHANGED <<provider, flights, lock, pc, mine, attempt, outcome, answer, calls>>

\* A session ends for reasons of its own.
Revoke ==
  /\ \E c \in live : live' = live \ {c} /\ spoiled' = spoiled \cup {c}
  /\ UNCHANGED <<stored, status, issued, relogin, flights, lock, pc, mine, attempt,
                 outcome, answer, calls>>

Init ==
  /\ stored = 0
  /\ status = "normal"
  /\ issued = 0
  /\ live = {0}
  /\ spoiled = {}
  /\ relogin = Nothing
  /\ flights = [c \in {} |-> c]
  /\ lock = NoCaller
  /\ pc = [w \in Caller |-> "idle"]
  /\ mine = [w \in Caller |-> 0]
  /\ attempt = [w \in Caller |-> 1]
  /\ outcome = [w \in Caller |-> "pending"]
  /\ answer = [w \in Caller |-> 0]
  /\ calls = 0

\* What a caller does once it has called.
Proceed(w) ==
  \/ Enter(w) \/ TakeLock(w)
  \/ AskGranted(w) \/ AskLost(w) \/ AskFailed(w) \/ AskRefused(w)
  \/ Apply(w) \/ Fail(w) \/ Condemn(w) \/ RemoveAccount(w)
  \/ Publish(w) \/ Pop(w) \/ Return(w)

Next ==
  \/ \E w \in Caller : Call(w) \/ Proceed(w)
  \/ Login \/ ApplyRelogin \/ Revoke

\* Threads get their turn and requests have a timeout (60 s).  Nobody has to
\* call, to log in or to revoke anything.
Spec == Init /\ [][Next]_vars
FairSpec == Spec /\ \A w \in Caller : WF_vars(Proceed(w))

------------------------------------------------------------------------------
(* Properties. *)

\* Every flight in the table belongs to a caller that is still to finish it and
\* remove it, and whoever waits, waits for such a flight: no exception on the
\* owner's way leaves a future that is never set or an entry that later callers
\* would join in vain (the try/finally of refresh_access_token).
NobodyWaitsInVain ==
  /\ \A c \in DOMAIN flights :
       LET w == flights[c].owner
       IN  /\ mine[w] = c /\ pc[w] \in Owning
           /\ flights[c].outcome = "pending" <=> pc[w] # "pop"
  /\ \A w \in Caller : pc[w] = "wait" =>
       mine[w] \in DOMAIN flights /\ flights[mine[w]].outcome = "pending"

\* The account never ends up with a refresh token that was spent or replaced in
\* this program's own doing: what it stores is honoured, unless its successor is
\* about to be stored, or an answer was lost or a session ended upstream (the
\* expected_refresh_token of _apply_refreshed_tokens).
CredentialKept ==
  stored # Gone =>
    \/ stored \in live \cup spoiled
    \/ relogin # Nothing
    \/ \E w \in Caller : pc[w] = "apply" /\ mine[w] = stored

\* Every call returns: no caller waits for a lock or a future for ever.
CallsReturn == \A w \in Caller : pc[w] # "idle" ~> pc[w] = "idle"

\* "Accounts whose credentials are confirmed to be invalid are treated as
\* abnormal" (web-vue/src/views/Settings.vue): an account marked abnormal has
\* no refresh token that the provider would honour.
AbnormalIsConfirmed == (stored # Gone /\ status = "abnormal") => stored \notin live
=============================================================================
