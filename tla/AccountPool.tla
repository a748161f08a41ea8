----------------------------- MODULE AccountPool -----------------------------
(***************************************************************************)
(* The ChatGPT account pool of services/account_service.py and the image   *)
(* requests that draw on it (_generate_single_image in                     *)
(* services/protocol/conversation.py).                                     *)
(*                                                                         *)
(* The pool maps access tokens to account records and counts, per token,   *)
(* the image requests in flight (`_image_inflight`).  A request picks a    *)
(* token below the per-account limit, takes a slot, probes the account     *)
(* upstream, streams the image and gives the slot back.  Meanwhile token   *)
(* refreshes move the account to a new key, administrators delete, import, *)
(* disable and reset accounts, and background probes rewrite records.      *)
(* Every method body under `self._lock` is one step; the calls to the      *)
(* upstream between two of them are not.                                   *)
(***************************************************************************)
EXTENDS Naturals, FiniteSets, TokenAlias

CONSTANTS
  Worker,             \* threads that serve one image request at a time
  Account,            \* upstream accounts, whatever their current token
  MaxRenewals,        \* bound: how many tokens are renewed in a behaviour
  Cap,                \* image_account_concurrency, at least 1
  AutoRemoveLimited,  \* auto_remove_rate_limited_accounts
  AutoRemoveInvalid,  \* auto_remove_invalid_accounts
  FallbackProxy,      \* is a fallback proxy configured?
  SaveMayFail,        \* may the storage backend fail inside mark_image_result?
  NoToken             \* the empty string where a token is expected

ASSUME PoolAssumption ==
  /\ IsFiniteSet(Worker)
  /\ IsFiniteSet(Account)
  /\ MaxRenewals \in Nat
  /\ Cap \in Nat \ {0}
  /\ {AutoRemoveLimited, AutoRemoveInvalid, FallbackProxy, SaveMayFail}
       \subseteq BOOLEAN
  /\ NoToken \notin Account \X (0..MaxRenewals)

\* The tokens an account may be given: <<a, 0>> came with it, <<a, n>> is from
\* the n-th renewal.  Opaque strings, never issued twice.
Token == Account \X (0..MaxRenewals)
Owner(t) == t[1]

Status == {"normal", "limited", "abnormal", "disabled"}

\* A record is abstracted to its status: quota and image_quota_unknown are
\* figures for display, selection reads the status alone for these accounts.
\* "absent" stands for a token that is no key of `_accounts`.
Record == Status \cup {"absent"}

VARIABLES
  accounts,   \* _accounts, in memory and in the storage backend
  aliases,    \* _token_aliases
  inflight,   \* _image_inflight; a missing key counts 0
  issued,     \* the tokens the identity provider has given out (external)
  pc,         \* where each request is
  token,      \* the token its slot was taken with, or the one it streams with
  active,     \* active_token of fetch_remote_info
  tried,      \* attempted_tokens of get_available_access_token
  saw,        \* saw_remote_quota_exhausted, saw_unavailable_failure
  fellBack,   \* fallback_retry_used
  reimported  \* history: accounts imported while a request worked with them

pool == <<accounts, aliases, inflight>>
request == <<pc, token, active, tried, saw, fellBack>>
vars == <<accounts, aliases, inflight, issued, pc, token, active, tried, saw, fellBack,
          reimported>>

\* A request that has ended: with one of the two selection errors, or with
\* its image or any other error ("idle").
Finished == {"idle", "exhausted", "unavailable"}
InFlight == {"preflight", "remote", "retried", "invalid", "release", "stream",
             "retry", "releaseAgain"}
Step == Finished \cup InFlight \cup {"select", "recover", "recoverInvalid"}

TypeOK ==
  /\ accounts \in [Token -> Record]
  /\ DOMAIN aliases \subseteq Token
  /\ \A t \in DOMAIN aliases : aliases[t] \in Token
  /\ inflight \in [Token -> Nat]
  /\ issued \subseteq Token
  /\ pc \in [Worker -> Step]
  /\ token \in [Worker -> Token \cup {NoToken}]
  /\ active \in [Worker -> Token \cup {NoToken}]
  /\ tried \in [Worker -> SUBSET Token]
  /\ saw \in [Worker -> SUBSET {"exhausted", "failure"}]
  /\ fellBack \in [Worker -> BOOLEAN]
  /\ reimported \subseteq Account

------------------------------------------------------------------------------
(* The pool under its lock. *)

Present == {t \in Token : accounts[t] # "absent"}
Current(t) == Resolve(Present, aliases, t)

\* _is_image_account_available, for accounts of the default source type: a
\* remaining quota of 0 does not make a normal account unavailable.
Available(status) == status \notin {"absent", "disabled", "limited", "abnormal"}

ReadyTokens(excluded) == {t \in Present \ excluded : Available(accounts[t])}
\* A faulty variant, for the mutation runs: one slot too many.
OpenTokensOffByOne(excluded) ==
  {t \in ReadyTokens(excluded) : inflight[t] <= Cap}
OpenTokens(excluded) == {t \in ReadyTokens(excluded) : inflight[t] < Cap}

\* The status a remote check reports: quota left or unknown, or exhausted.
RemoteStatus == {"normal", "limited"}

\* _release_image_slot_locked, on a token that has just been resolved
FreeSlot(t) == inflight' = [inflight EXCEPT ![t] = IF @ <= 1 THEN 0 ELSE @ - 1]

\* A faulty variant, for the mutation runs: the count outlives the account.
DropAccountOnly(t) ==
  /\ accounts' = [accounts EXCEPT ![t] = "absent"]
  /\ aliases' = ForgetAliases(aliases, {t})
  /\ UNCHANGED inflight

\* The account and everything recorded about its token goes away.
Drop(t) ==
  /\ accounts' = [accounts EXCEPT ![t] = "absent"]
  /\ inflight' = [inflight EXCEPT ![t] = 0]
  /\ aliases' = ForgetAliases(aliases, {t})

\* update_account: a record that turns out limited may be removed instead.
UpdateAccount(t, status) ==
  LET c == Current(t) IN
  IF c \notin Present THEN UNCHANGED pool
  ELSE IF status = "limited" /\ AutoRemoveLimited THEN Drop(c)
  ELSE /\ accounts' = [accounts EXCEPT ![c] = status]
       /\ UNCHANGED <<aliases, inflight>>

\* delete_accounts
DeleteAccount(t) ==
  LET c == Current(t) IN
  IF c \in Token THEN Drop(c) ELSE UNCHANGED pool

\* _record_invalid_token_seen
RecordInvalid(t) ==
  LET c == Current(t) IN
  /\ accounts' = IF c \in Present
                   THEN [accounts EXCEPT ![c] = "abnormal"]
                   ELSE accounts
  /\ UNCHANGED <<aliases, inflight>>

\* _apply_refreshed_tokens: the account named by t moves, with its slots, to
\* a token the identity provider has not issued before.
Renewals == Cardinality({t \in issued : t[2] # 0})
NextToken(t) == <<Owner(t), Renewals + 1>>
CanRenew(t) == t \in Present /\ Renewals < MaxRenewals

\* A faulty variant, for the mutation runs: the slots taken under the old token
\* are not carried over to the new one.
RotateWithoutSlots(old, status) ==
  LET new == NextToken(old) IN
  /\ accounts' = [accounts EXCEPT ![old] = "absent", ![new] = status]
  /\ aliases' = AliasTo(aliases, old, new)
  /\ inflight' = [inflight EXCEPT ![old] = 0]
  /\ issued' = issued \cup {new}

RotateTo(old, status) ==
  LET new == NextToken(old) IN
  /\ accounts' = [accounts EXCEPT ![old] = "absent", ![new] = status]
  /\ aliases' = AliasTo(aliases, old, new)
  /\ inflight' = [inflight EXCEPT ![old] = 0, ![new] = inflight[new] + inflight[old]]
  /\ issued' = issued \cup {new}

\* mark_image_result on one record: an image from an account held to be
\* limited shows that its quota is back.
Charged(status, consumed) ==
  IF consumed /\ status = "limited" THEN "normal" ELSE status

\* mark_image_result: the slot goes back and the record is charged in one step.
MarkResult(t, consumed) ==
  LET c == Current(t) IN
  /\ FreeSlot(c)
  /\ accounts' = IF c \in Present
                   THEN [accounts EXCEPT ![c] = Charged(@, consumed)] ELSE accounts
  /\ UNCHANGED aliases

------------------------------------------------------------------------------
(* One image request: get_available_access_token and _generate_single_image *)

Goto(w, step) == pc' = [pc EXCEPT ![w] = step]

\* A request that ends forgets everything but its outcome.
Finish(w, outcome) ==
  /\ Goto(w, outcome)
  /\ token' = [token EXCEPT ![w] = NoToken]
  /\ active' = [active EXCEPT ![w] = NoToken]
  /\ tried' = [tried EXCEPT ![w] = {}]
  /\ saw' = [saw EXCEPT ![w] = {}]
  /\ fellBack' = [fellBack EXCEPT ![w] = FALSE]

\* fetch_remote_info is over and the account is of no use to the request.
GiveUp(w) ==
  /\ Goto(w, "release")
  /\ active' = [active EXCEPT ![w] = NoToken]

\* The loop turns to get_available_access_token with nothing excluded yet.
Reselect(w) ==
  /\ Goto(w, "select")
  /\ token' = [token EXCEPT ![w] = NoToken]
  /\ active' = [active EXCEPT ![w] = NoToken]
  /\ tried' = [tried EXCEPT ![w] = {}]
  /\ saw' = [saw EXCEPT ![w] = {}]

Start(w) ==
  /\ pc[w] \in Finished
  /\ Reselect(w)
  /\ UNCHANGED <<pool, issued, fellBack, reimported>>

\* _acquire_next_candidate_token.  The round-robin index is abstracted to any
\* choice among the open tokens; while all are busy the thread waits.  The
\* limit of 20 attempts lies beyond the number of tokens of an instance.
Acquire(w) ==
  /\ pc[w] = "select"
  /\ \E t \in OpenTokens(tried[w]) :
       /\ inflight' = [inflight EXCEPT ![t] = @ + 1]
       /\ token' = [token EXCEPT ![w] = t]
       /\ active' = [active EXCEPT ![w] = t]
       /\ tried' = [tried EXCEPT ![w] = @ \cup {t}]
  /\ Goto(w, "preflight")
  /\ UNCHANGED <<accounts, aliases, issued, saw, fellBack, reimported>>

\* No candidate is ready.  The first time round the pool itself is classified
\* (_no_ready_candidate_error); later the flags of the attempts decide.
NoReady(w) ==
  /\ pc[w] = "select"
  /\ ReadyTokens(tried[w]) = {}
  /\ LET exhausted == IF tried[w] = {}
                        THEN /\ Present # {}
                             /\ \A t \in Present : accounts[t] = "limited"
                        ELSE saw[w] = {"exhausted"}
     IN  Finish(w, IF exhausted THEN "exhausted" ELSE "unavailable")
  /\ UNCHANGED <<pool, issued, reimported>>

\* The administrator's cancellation seen at the top of the loop, before any slot.
SelectCancelled(w) ==
  /\ pc[w] = "select" /\ tried[w] = {}
  /\ Finish(w, "idle")
  /\ UNCHANGED <<pool, issued, reimported>>

\* fetch_remote_info, first part: a token about to expire is refreshed first;
\* a refresh that fails leaves active_token as it was.
Preflight(w) ==
  /\ pc[w] = "preflight"
  /\ Goto(w, "remote")
  /\ \/ UNCHANGED <<pool, issued, active>>
     \/ /\ active' = [active EXCEPT ![w] = Current(token[w])]
        /\ UNCHANGED <<pool, issued>>
     \/ LET c == Current(token[w]) IN
        /\ CanRenew(c)
        /\ RotateTo(c, accounts[c])
        /\ active' = [active EXCEPT ![w] = NextToken(c)]
  /\ UNCHANGED <<token, tried, saw, fellBack, reimported>>

\* get_user_info succeeded: the record is updated, and what comes back, also
\* for an account that is gone by now, decides whether the request streams.
RemoteOk(w) ==
  /\ pc[w] \in {"remote", "retried"}
  /\ \E info \in RemoteStatus :
       LET c == Current(active[w])
           found == IF c \in Present /\ ~(info = "limited" /\ AutoRemoveLimited)
                      THEN c ELSE active[w]
       IN  /\ UpdateAccount(active[w], info)
           /\ IF Available(info)
                THEN /\ Goto(w, "stream")
                     /\ token' = [token EXCEPT ![w] = found]
                     /\ active' = [active EXCEPT ![w] = NoToken]
                     /\ tried' = [tried EXCEPT ![w] = {}]
                     /\ saw' = [saw EXCEPT ![w] = {}]
                ELSE /\ GiveUp(w)
                     /\ tried' = [tried EXCEPT ![w] = @ \cup {found}]
                     /\ saw' = [saw EXCEPT ![w] = @ \cup {"exhausted"}]
                     /\ UNCHANGED token
  /\ UNCHANGED <<issued, fellBack, reimported>>

\* The probe failed for a reason that says nothing about the credential.
RemoteError(w) ==
  /\ pc[w] \in {"remote", "retried"}
  /\ GiveUp(w)
  /\ saw' = [saw EXCEPT ![w] = @ \cup {"failure"}]
  /\ UNCHANGED <<pool, issued, token, tried, fellBack, reimported>>

\* 401, and a forced refresh brought a different token, its own or the one of
\* a refresh it joined: probe once more.
RemoteRenewed(w) ==
  /\ pc[w] = "remote"
  /\ Goto(w, "retried")
  /\ LET c == Current(active[w]) IN
       \/ /\ CanRenew(c)
          /\ RotateTo(c, accounts[c])
          /\ active' = [active EXCEPT ![w] = NextToken(c)]
       \/ /\ c # active[w]
          /\ active' = [active EXCEPT ![w] = c]
          /\ UNCHANGED <<pool, issued>>
  /\ UNCHANGED <<token, tried, saw, fellBack, reimported>>

\* 401 and no new token, or 401 again: handle_invalid_token, record first.
RemoteInvalid(w) ==
  /\ pc[w] \in {"remote", "retried"}
  /\ RecordInvalid(active[w])
  /\ IF AutoRemoveInvalid THEN Goto(w, "invalid") /\ UNCHANGED active
                          ELSE GiveUp(w)
  /\ saw' = [saw EXCEPT ![w] = @ \cup {"failure"}]
  /\ UNCHANGED <<issued, token, tried, fellBack, reimported>>

\* ... and then, in a second locked section, the removal.
RemoveInvalid(w) ==
  /\ pc[w] = "invalid"
  /\ DeleteAccount(active[w])
  /\ GiveUp(w)
  /\ UNCHANGED <<issued, token, tried, saw, fellBack, reimported>>

\* release_image_slot after a preflight that did not yield an account
ReleaseTried(w) ==
  /\ pc[w] = "release"
  /\ FreeSlot(Current(token[w]))
  /\ Goto(w, "select")
  /\ token' = [token EXCEPT ![w] = NoToken]
  /\ UNCHANGED <<accounts, aliases, issued, active, tried, saw, fellBack, reimported>>

\* The stream ended, with an image or with any error that ends the request:
\* finalize_image_slot and the reply.
StreamDone(w) ==
  /\ pc[w] = "stream"
  /\ \E consumed \in BOOLEAN : MarkResult(token[w], consumed)
  /\ Finish(w, "idle")
  /\ UNCHANGED <<issued, reimported>>

\* mark_image_result frees the slot and raises from _save_accounts.
StreamDoneSaveFails(w) ==
  /\ SaveMayFail
  /\ pc[w] = "stream"
  /\ Current(token[w]) \in Present
  /\ \E consumed \in BOOLEAN : MarkResult(token[w], consumed)
  /\ Goto(w, "releaseAgain")
  /\ UNCHANGED <<issued, token, active, tried, saw, fellBack, reimported>>

\* The handler of finalize_image_slot then calls release_image_slot.
ReleaseAgain(w) ==
  /\ pc[w] = "releaseAgain"
  /\ FreeSlot(Current(token[w]))
  /\ Finish(w, "idle")
  /\ UNCHANGED <<accounts, aliases, issued, reimported>>

\* The upstream refused the token before any output: the slot goes back, then
\* the credential is looked after.
StreamTokenInvalid(w) ==
  /\ pc[w] = "stream"
  /\ MarkResult(token[w], FALSE)
  /\ Goto(w, "recover")
  /\ UNCHANGED <<issued, token, active, tried, saw, fellBack, reimported>>

\* refresh_access_token brought a new token, or found the account rotated
\* already, or failed for the moment: select again.
RecoverRenewed(w) ==
  /\ pc[w] = "recover"
  /\ \/ LET c == Current(token[w]) IN
        CanRenew(c) /\ RotateTo(c, accounts[c])
     \/ UNCHANGED <<pool, issued>>
  /\ Reselect(w)
  /\ UNCHANGED <<fellBack, reimported>>

\* No other token to be had: handle_invalid_token, then select again.
RecoverInvalid(w) ==
  /\ pc[w] = "recover"
  /\ RecordInvalid(token[w])
  /\ IF AutoRemoveInvalid
       THEN Goto(w, "recoverInvalid") /\ UNCHANGED <<token, active, tried, saw>>
       ELSE Reselect(w)
  /\ UNCHANGED <<issued, fellBack, reimported>>

RecoverRemove(w) ==
  /\ pc[w] = "recoverInvalid"
  /\ DeleteAccount(token[w])
  /\ Reselect(w)
  /\ UNCHANGED <<issued, fellBack, reimported>>

\* The connection failed early and a fallback proxy is configured: one retry
\* with the same token, which keeps its slot across the loop's next turn.
StreamFallback(w) ==
  /\ FallbackProxy
  /\ pc[w] = "stream" /\ ~fellBack[w]
  /\ fellBack' = [fellBack EXCEPT ![w] = TRUE]
  /\ Goto(w, "retry")
  /\ UNCHANGED <<pool, issued, token, active, tried, saw, reimported>>

RetryStream(w) ==
  /\ pc[w] = "retry"
  /\ Goto(w, "stream")
  /\ UNCHANGED <<pool, issued, token, active, tried, saw, fellBack, reimported>>

\* The cancellation check at the top of the loop raises before the retry.
RetryCancelled(w) ==
  /\ pc[w] = "retry"
  /\ Finish(w, "idle")
  /\ UNCHANGED <<pool, issued, reimported>>

------------------------------------------------------------------------------
(* Everything else that touches the pool. *)

\* refresh_access_token by the watcher, keep-alive or another request, and
\* apply_relogin_tokens, which also sets the status.
Rotate ==
  /\ \E t \in Present :
       /\ CanRenew(t)
       /\ \/ RotateTo(t, accounts[t])
          \/ RotateTo(t, "normal")
  /\ UNCHANGED <<request, reimported>>

\* fetch_remote_info on behalf of refresh_accounts, the inspection or the
\* failure verification, of any account in the pool.  The removal of an
\* invalid account that may follow is a Delete, a refresh before it a Rotate.
BackgroundProbe ==
  /\ \E t \in Present : \/ \E info \in RemoteStatus : UpdateAccount(t, info)
                        \/ RecordInvalid(t)
  /\ UNCHANGED <<issued, request, reimported>>

\* The status task: enable, disable, reset to normal.
SetStatus ==
  /\ \E t \in Present, status \in {"normal", "disabled"} : UpdateAccount(t, status)
  /\ UNCHANGED <<issued, request, reimported>>

Delete ==
  /\ \E t \in Present : DeleteAccount(t)
  /\ UNCHANGED <<issued, request, reimported>>

\* Some request knows a token of the account.
InUse(a) == \E w \in Worker : token[w] # NoToken /\ Owner(token[w]) = a

\* add_accounts with a token that is no key: one the account had before it was
\* removed, or one it had before a renewal.  Nothing asks whether a request is
\* still at work with the account; reimported remembers that one was.
Import ==
  /\ \E t \in issued \ Present :
       /\ accounts' = [accounts EXCEPT ![t] = "normal"]
       /\ reimported' = IF InUse(Owner(t)) THEN reimported \cup {Owner(t)} ELSE reimported
  /\ UNCHANGED <<aliases, inflight, issued, request>>

\* The process stops; only the stored accounts survive.
Restart ==
  /\ aliases' = [t \in {} |-> t]
  /\ inflight' = [t \in Token |-> 0]
  /\ pc' = [w \in Worker |-> "idle"]
  /\ token' = [w \in Worker |-> NoToken]
  /\ active' = [w \in Worker |-> NoToken]
  /\ tried' = [w \in Worker |-> {}]
  /\ saw' = [w \in Worker |-> {}]
  /\ fellBack' = [w \in Worker |-> FALSE]
  /\ reimported' = {}
  /\ UNCHANGED <<accounts, issued>>

Init ==
  /\ accounts = [t \in Token |-> IF t[2] = 0 THEN "normal" ELSE "absent"]
  /\ aliases = [t \in {} |-> t]
  /\ inflight = [t \in Token |-> 0]
  /\ issued = Account \X {0}
  /\ pc = [w \in Worker |-> "idle"]
  /\ token = [w \in Worker |-> NoToken]
  /\ active = [w \in Worker |-> NoToken]
  /\ tried = [w \in Worker |-> {}]
  /\ saw = [w \in Worker |-> {}]
  /\ fellBack = [w \in Worker |-> FALSE]
  /\ reimported = {}

Request(w) ==
  \/ Start(w) \/ Acquire(w) \/ NoReady(w) \/ SelectCancelled(w)
  \/ Preflight(w) \/ RemoteOk(w) \/ RemoteError(w) \/ RemoteRenewed(w)
  \/ RemoteInvalid(w) \/ RemoveInvalid(w) \/ ReleaseTried(w)
  \/ StreamDone(w) \/ StreamDoneSaveFails(w) \/ ReleaseAgain(w)
  \/ StreamTokenInvalid(w) \/ RecoverRenewed(w) \/ RecoverInvalid(w) \/ RecoverRemove(w)
  \/ StreamFallback(w) \/ RetryStream(w) \/ RetryCancelled(w)

Next ==
  \/ \E w \in Worker : Request(w)
  \/ Rotate \/ BackgroundProbe \/ SetStatus \/ Delete \/ Import \/ Restart

Spec == Init /\ [][Next]_vars

------------------------------------------------------------------------------
(* Properties. *)

\* A request has a slot of its own from the moment it takes one until
\* mark_image_result or release_image_slot gives it back.
Holds(w) == pc[w] \in InFlight \ {"releaseAgain"}
Holders(t) == {w \in Worker : Holds(w) /\ Current(token[w]) = t}

\* The in-flight count of every account in the pool is exactly the number of
\* requests that still have to give a slot of it back, through rotations of
\* the token, deletions, imports, failed probes and cancellations: no slot is
\* lost and none is given back twice (_image_inflight).  An account imported
\* again under a running request is excepted, see AccountConcurrencyBound.
SlotAccounting ==
  \A t \in Present : Owner(t) \notin reimported => inflight[t] = Cardinality(Holders(t))

\* A token that is no key of the pool has no count: were one left behind, an
\* account imported again under that token would start with slots taken
\* (delete_accounts, update_account and _apply_refreshed_tokens clear it).
NoOrphanCount == \A t \in Token : inflight[t] > 0 => t \in Present

\* The count never exceeds the limit, although a rotation adds the old token's
\* count to the new one's without looking at the limit.
CountWithinCap == \A t \in Token : inflight[t] <= Cap

\* What the limit is for: "limits the number of image requests each account
\* handles at the same time" (web-vue/src/views/Settings.vue).  It does not hold
\* of an account that is removed and imported again under a running request:
\* delete_accounts drops the count, and the request's release then frees the
\* slot of another.
AccountConcurrencyBound == \A t \in Present : Cardinality(Holders(t)) <= Cap

\* The same of the accounts that were not imported under a running request.
SettledAccountBound ==
  \A t \in Present : Owner(t) \notin reimported => Cardinality(Holders(t)) <= Cap

\* What the aliases are for: a request in flight loses its account only when
\* that account leaves the pool, never because its token was renewed, however
\* often and by whomever.
RotationKeepsRequest ==
  [][\A w \in Worker :
       (/\ Holds(w) /\ Holds(w)' /\ Current(token[w]) \in Present
        /\ Owner(token[w]) \notin reimported')
         => \/ Current(token[w])' \in Present'
            \/ \A t \in Present' : Owner(t) # Owner(token[w])
            \/ \E t \in Present : Owner(t) = Owner(token[w]) /\ t # Current(token[w])
     ]_vars

\* "exit by raising a normal exception, allowing account/egress cleanup to
\* run" (services/request_cancel_service.py): when every request has ended,
\* cancelled ones included, no slot is taken.
CleanupAfterRequests ==
  (reimported = {} /\ \A w \in Worker : pc[w] \in Finished)
    => \A t \in Token : inflight[t] = 0
=============================================================================
