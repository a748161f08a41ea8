---------------------------- MODULE FireflyRequest ----------------------------
(***************************************************************************)
(* A request on the Firefly channel: protocol/firefly_orchestration.py     *)
(* (_run_firefly_account_attempts and the three orchestrations over it),   *)
(* the calls of backends/firefly_client.py it makes, the circuit breaker   *)
(* of channels/runtime.py, and what the attempts do to the accounts        *)
(* (account_service.py).                                                   *)
(*                                                                         *)
(* An attempt takes a place on an account, calls Adobe, and gives the      *)
(* place back in one of several handlers, each of which also writes a row  *)
(* to the ledger and tells the breaker.  Bytes and payloads are left out:  *)
(* a call of Adobe is the way it can end.  The account's file can always   *)
(* be written here (AccountPool has the case where it cannot).             *)
(*                                                                         *)
(* The client logs a refused or failed call before it raises the error     *)
(* that tells why, and the logger (utils/log.py) takes one argument where  *)
(* the client passes several: what is raised is a TypeError.  The          *)
(* orchestration takes a TypeError for a difference in signatures and      *)
(* makes the call once more.  The handlers for a used-up quota and for a   *)
(* bad token are never reached, and are left out.                          *)
(***************************************************************************)
EXTENDS Naturals, FiniteSets

CONSTANTS
  FqRequest,     \* image or video requests
  FqAccount,     \* Firefly accounts
  NoAccount,     \* no account
  Places,        \* image_account_concurrency
  Attempts,      \* firefly_retry_max_attempts
  Threshold      \* failures that open the breaker

ASSUME FireflyRequestAssumption ==
  /\ IsFiniteSet(FqRequest) /\ IsFiniteSet(FqAccount) /\ NoAccount \notin FqAccount
  /\ {Places, Attempts, Threshold} \subseteq Nat

VARIABLES
  fqStep,        \* where each request is
  kind,          \* "image", "edit" or "video"
  pin,           \* the account a video's entities are bound to, if any
  attempt,       \* the number of the attempt
  attempted,     \* attempted_tokens
  held,          \* the attempt's account
  finalized,     \* image_slot_finalized
  outcome,       \* how the attempt went
  turnedAway,    \* requests whose account Adobe refused in this attempt (history)
  abandoned,     \* requests whose client has cancelled them
  places,        \* _image_inflight of each account
  fqStatus,      \* status of each account
  verifying,     \* accounts whose verification is scheduled
  failCount,     \* the breaker's fail_count, up to Threshold
  cooling,       \* is its open_until in the future?
  booked           \* rows of its attempts in the ledger

breakerVars == <<failCount, cooling>>
accountVars == <<places, fqStatus, verifying>>
attemptVars == <<kind, pin, attempt, attempted, held, outcome, turnedAway>>
fqVars == <<fqStep, attemptVars, finalized, abandoned, accountVars, breakerVars, booked>>

Kinds == {"image", "edit", "video"}
\* The reference images, the rate budget, and generate_image or generate_video:
\* submission, polling and download.  After a TypeError images and videos are
\* generated, and the references of an edit uploaded, a second time.
Calls == {"upload", "uploadAgain", "budget", "generate", "generateAgain"}
\* "request" stands for FireflyRequestError and for an ImageGenerationError from
\* inside, which are handled alike; "typeError" and "other" for the exceptions no
\* handler names, none of which is_rotatable_error takes for rotatable.
Errors == {"cancelled", "temporary", "request", "typeError", "other"}
Outcomes == {"none", "success"} \cup Errors

FqTypeOK ==
  /\ fqStep \in [FqRequest -> {"idle", "check", "select", "finalize", "book", "finally", "done"} \cup Calls]
  /\ kind \in [FqRequest -> Kinds]
  /\ pin \in [FqRequest -> FqAccount \cup {NoAccount}]
  /\ attempt \in [FqRequest -> 0..Attempts]
  /\ attempted \in [FqRequest -> SUBSET FqAccount]
  /\ held \in [FqRequest -> FqAccount \cup {NoAccount}]
  /\ finalized \in [FqRequest -> BOOLEAN]
  /\ outcome \in [FqRequest -> Outcomes]
  /\ turnedAway \subseteq FqRequest
  /\ abandoned \subseteq FqRequest
  /\ places \in [FqAccount -> 0..Places]
  /\ fqStatus \in [FqAccount -> {"normal", "abnormal"}]
  /\ verifying \subseteq FqAccount
  /\ failCount \in 0..Threshold
  /\ cooling \in BOOLEAN
  /\ booked \in [FqRequest -> 0..Attempts]

FqGo(r, s) == fqStep' = [fqStep EXCEPT ![r] = s]

\* A request's own variables are gone with it.
FqEnds(r) ==
  /\ FqGo(r, "done")
  /\ kind' = [kind EXCEPT ![r] = "image"]
  /\ pin' = [pin EXCEPT ![r] = NoAccount]
  /\ attempt' = [attempt EXCEPT ![r] = 0]
  /\ abandoned' = abandoned \ {r}

------------------------------------------------------------------------------
(* Before an attempt *)

\* The first call of an image comes at once; the other two upload first.
FqSubmit(r) ==
  /\ fqStep[r] = "idle"
  /\ \E k \in Kinds, a \in FqAccount \cup {NoAccount} :
       /\ a = NoAccount \/ k = "video"
       /\ kind' = [kind EXCEPT ![r] = k]
       /\ pin' = [pin EXCEPT ![r] = a]
  /\ FqGo(r, "check")
  /\ UNCHANGED <<attempt, attempted, held, outcome, turnedAway, finalized, abandoned,
                 accountVars, breakerVars, booked>>

\* The flag is only looked at in these places, so an earlier cancellation is as
\* good as one that comes there.
FqCancel(r) ==
  /\ fqStep[r] = "check" \/ (fqStep[r] = "upload" /\ kind[r] = "edit")
  /\ r \notin abandoned
  /\ abandoned' = abandoned \cup {r}
  /\ UNCHANGED <<fqStep, attemptVars, finalized, accountVars, breakerVars, booked>>

\* The loop's head: the client's flag, then is_channel_open, which lets everybody
\* through once the time of an opening is over.
FqRefused(r) ==
  /\ fqStep[r] = "check"
  /\ attempt[r] = Attempts \/ r \in abandoned \/ cooling
  /\ FqEnds(r)
  /\ UNCHANGED <<attempted, held, outcome, turnedAway, finalized, accountVars, breakerVars, booked>>

FqAdmitted(r) ==
  /\ fqStep[r] = "check"
  /\ attempt[r] < Attempts /\ r \notin abandoned /\ ~cooling
  /\ attempt' = [attempt EXCEPT ![r] = @ + 1]
  /\ finalized' = [finalized EXCEPT ![r] = FALSE]
  /\ FqGo(r, "select")
  /\ UNCHANGED <<kind, pin, attempted, held, outcome, turnedAway, abandoned, accountVars,
                 breakerVars, booked>>

\* Accounts a request may take, full or not.
ReadyFor(r) ==
  {a \in FqAccount \ attempted[r] :
     fqStatus[a] = "normal" /\ (pin[r] # NoAccount => a = pin[r])}

FqSelect(r) ==
  /\ fqStep[r] = "select"
  /\ \E a \in ReadyFor(r) :
       /\ places[a] < Places
       /\ places' = [places EXCEPT ![a] = @ + 1]
       /\ attempted' = [attempted EXCEPT ![r] = @ \cup {a}]
       /\ held' = [held EXCEPT ![r] = a]
  /\ FqGo(r, IF kind[r] = "image" THEN "budget" ELSE "upload")
  /\ UNCHANGED <<kind, pin, attempt, outcome, turnedAway, finalized, abandoned, fqStatus,
                 verifying, breakerVars, booked>>

\* No account is ready: ImageAccountSelectionError, with the attempts at an end.
FqNoneReady(r) ==
  /\ fqStep[r] = "select"
  /\ ReadyFor(r) = {}
  /\ FqEnds(r)
  /\ UNCHANGED <<attempted, held, outcome, turnedAway, finalized, accountVars, breakerVars, booked>>

------------------------------------------------------------------------------
(* The calls of an attempt *)

\* What a call can raise by itself.  A file that is refused, or no id for it.
UploadErrors == {"request"}

\* No poll url, a job that failed, nothing to download; a second connection that fails
\* too, a generation that takes too long; a result that cannot be stored.
GenerateErrors == {"request", "temporary", "other"}

\* acquire_channel_rate: the wait for the rate budget runs into its timeout.
BudgetErrors == {"request"}

CallErrors(r) ==
  CASE fqStep[r] \in {"upload", "uploadAgain"}     -> UploadErrors
    [] fqStep[r] = "budget"                         -> BudgetErrors
    [] fqStep[r] \in {"generate", "generateAgain"} -> GenerateErrors

IsCalledAgain(r) == fqStep[r] = "generate" \/ (fqStep[r] = "upload" /\ kind[r] = "edit")

\* An edit looks at its flag before it uploads; nobody looks again before the
\* attempt is over.
FlagStops(r) == fqStep[r] = "upload" /\ kind[r] = "edit" /\ r \in abandoned

CallSucceeds(r) ==
  /\ fqStep[r] \in Calls /\ ~FlagStops(r)
  /\ turnedAway' = turnedAway \ {r}
  /\ IF fqStep[r] \in {"generate", "generateAgain"}
     THEN FqGo(r, "finalize") /\ outcome' = [outcome EXCEPT ![r] = "success"]
     ELSE /\ \/ fqStep[r] = "uploadAgain" /\ FqGo(r, "upload")
             \/ FqGo(r, IF fqStep[r] = "budget" THEN "generate" ELSE "budget")
          /\ UNCHANGED outcome
  /\ UNCHANGED <<kind, pin, attempt, attempted, held, finalized, abandoned,
                 accountVars, breakerVars, booked>>

CallFails(r) ==
  /\ fqStep[r] \in Calls
  /\ \E e \in CallErrors(r) \cup (IF FlagStops(r) THEN {"cancelled"} ELSE {}) :
       outcome' = [outcome EXCEPT ![r] = e]
  /\ turnedAway' = turnedAway \ {r}
  /\ FqGo(r, "finalize")
  /\ UNCHANGED <<kind, pin, attempt, attempted, held, finalized, abandoned,
                 accountVars, breakerVars, booked>>

\* A status other than 200, or no connection: the warning raises.  A 401, 403, 429,
\* 451 or 5xx, as raise_for_firefly_http would tell them, is the account's or passes.
CallRefused(r) ==
  /\ fqStep[r] \in Calls \ {"budget"}
  /\ turnedAway' \in {turnedAway \cup {r}, turnedAway \ {r}}
  /\ IF IsCalledAgain(r)
     THEN FqGo(r, IF fqStep[r] = "upload" THEN "uploadAgain" ELSE "generateAgain") /\ UNCHANGED outcome
     ELSE FqGo(r, "finalize") /\ outcome' = [outcome EXCEPT ![r] = "typeError"]
  /\ UNCHANGED <<kind, pin, attempt, attempted, held, finalized, abandoned,
                 accountVars, breakerVars, booked>>

------------------------------------------------------------------------------
(* The end of an attempt *)

\* _release_image_slot_locked: never below zero.
FreePlace(a) == places' = [places EXCEPT ![a] = IF @ > 0 THEN @ - 1 ELSE 0]

\* A faulty variant, for the mutation runs: the flag is not set.
FinalizeForgetfully(r) ==
  /\ fqStep[r] = "finalize"
  /\ FreePlace(held[r])
  /\ finalized' = [finalized EXCEPT ![r] = outcome[r] # "temporary"]
  /\ FqGo(r, "book")
  /\ UNCHANGED <<attemptVars, abandoned, fqStatus, verifying, breakerVars, booked>>

\* finalize_image_slot, whose mark_image_result frees the place and schedules a
\* verification for every failure that is not a 400 of the client: the failures with a
\* handler and a TypeError, an internal error, do; a cancellation passes no failure,
\* and what classify_image_exception makes of another exception is open.
Finalize(r) ==
  /\ fqStep[r] = "finalize"
  /\ FreePlace(held[r])
  /\ finalized' = [finalized EXCEPT ![r] = TRUE]
  /\ \E accountsFault \in BOOLEAN :
       /\ outcome[r] \in {"temporary", "request", "typeError"} => accountsFault
       /\ outcome[r] \in {"success", "cancelled"} => ~accountsFault
       /\ verifying' = IF accountsFault THEN verifying \cup {held[r]} ELSE verifying
  /\ FqGo(r, "book")
  /\ UNCHANGED <<attemptVars, abandoned, fqStatus, breakerVars, booked>>

\* record_channel_success and record_channel_failure; a cancellation counts as
\* neither.  While open, a failure is only counted.
AfterOutcome(o) ==
  CASE o = "success"   -> [count |-> 0, cool |-> FALSE]
    [] o = "cancelled" -> [count |-> failCount, cool |-> cooling]
    [] OTHER ->
         LET n == IF failCount < Threshold THEN failCount + 1 ELSE failCount
         IN [count |-> n, cool |-> cooling \/ n = Threshold]

\* A faulty variant, for the mutation runs: an exception without a handler leaves no row.
BookFinalizedOnly(r) ==
  /\ fqStep[r] = "book"
  /\ booked' = [booked EXCEPT ![r] = IF outcome[r] = "typeError" THEN @ ELSE @ + 1]
  /\ failCount' = AfterOutcome(outcome[r]).count
  /\ cooling' = AfterOutcome(outcome[r]).cool
  /\ FqGo(r, "finally")
  /\ UNCHANGED <<attemptVars, finalized, abandoned, accountVars>>

\* _record_ledger, and what the breaker is told.
Book(r) ==
  /\ fqStep[r] = "book"
  /\ booked' = [booked EXCEPT ![r] = @ + 1]
  /\ failCount' = AfterOutcome(outcome[r]).count
  /\ cooling' = AfterOutcome(outcome[r]).cool
  /\ FqGo(r, "finally")
  /\ UNCHANGED <<attemptVars, finalized, abandoned, accountVars>>

\* Another account is tried, unless the request is bound to one.
GoesOn(r) == outcome[r] = "temporary" /\ pin[r] = NoAccount

\* The finally clause, and the loop's next turn.
Finally(r) ==
  /\ fqStep[r] = "finally"
  /\ IF finalized[r] THEN UNCHANGED places ELSE FreePlace(held[r])
  /\ finalized' = [finalized EXCEPT ![r] = TRUE]
  /\ held' = [held EXCEPT ![r] = NoAccount]
  /\ outcome' = [outcome EXCEPT ![r] = "none"]
  /\ turnedAway' = turnedAway \ {r}
  /\ IF GoesOn(r) THEN FqGo(r, "check") /\ UNCHANGED <<kind, pin, attempt, abandoned>>
                  ELSE FqEnds(r)
  /\ UNCHANGED <<attempted, fqStatus, verifying, breakerVars, booked>>

------------------------------------------------------------------------------
(* Around the requests *)

\* fetch_remote_info presents Adobe's token to another provider, which refuses
\* it, and there is no refresh token: handle_invalid_token marks the account.
Verification(a) ==
  /\ a \in verifying
  /\ verifying' = verifying \ {a}
  /\ fqStatus' = [fqStatus EXCEPT ![a] = "abnormal"]
  /\ UNCHANGED <<fqStep, attemptVars, finalized, abandoned, places, breakerVars, booked>>

\* An administrator, or the credential daemon, sets the account to normal.
Restore(a) ==
  /\ fqStatus[a] # "normal"
  /\ fqStatus' = [fqStatus EXCEPT ![a] = "normal"]
  /\ UNCHANGED <<fqStep, attemptVars, finalized, abandoned, places, verifying,
                 breakerVars, booked>>

CoolingOver ==
  /\ cooling
  /\ cooling' = FALSE
  /\ UNCHANGED <<fqStep, attemptVars, finalized, abandoned, accountVars,
                 failCount, booked>>

FqInit ==
  /\ fqStep = [r \in FqRequest |-> "idle"]
  /\ kind = [r \in FqRequest |-> "image"]
  /\ pin = [r \in FqRequest |-> NoAccount]
  /\ attempt = [r \in FqRequest |-> 0]
  /\ attempted = [r \in FqRequest |-> {}]
  /\ held = [r \in FqRequest |-> NoAccount]
  /\ finalized = [r \in FqRequest |-> TRUE]
  /\ outcome = [r \in FqRequest |-> "none"]
  /\ turnedAway = {}
  /\ abandoned = {}
  /\ places = [a \in FqAccount |-> 0]
  /\ fqStatus = [a \in FqAccount |-> "normal"]
  /\ verifying = {}
  /\ failCount = 0 /\ cooling = FALSE
  /\ booked = [r \in FqRequest |-> 0]

\* What a request does by itself.
FqWork(r) ==
  \/ FqRefused(r) \/ FqAdmitted(r)
  \/ FqSelect(r) \/ FqNoneReady(r)
  \/ CallSucceeds(r) \/ CallFails(r) \/ CallRefused(r)
  \/ Finalize(r) \/ Book(r) \/ Finally(r)

FqNext ==
  \/ \E r \in FqRequest : FqSubmit(r) \/ FqCancel(r) \/ FqWork(r)
  \/ \E a \in FqAccount : Verification(a) \/ Restore(a)
  \/ CoolingOver

FqSpec == FqInit /\ [][FqNext]_fqVars

------------------------------------------------------------------------------
(* Properties *)

\* The places taken on an account are those of the attempts that hold it:
\* whatever handler ends an attempt gives its place back once, neither twice
\* (another request's place) nor never.
PlacesMatch ==
  /\ FqTypeOK
  /\ \A a \in FqAccount :
       places[a] = Cardinality({r \in FqRequest : held[r] = a /\ ~finalized[r]})

\* Every attempt that took an account is in the ledger, once.
AttemptsBooked ==
  \A r \in FqRequest :
    fqStep[r] \in {"check", "select", "done"} => booked[r] = Cardinality(attempted[r])

\* "429/451/5xx: a temporary error of the upstream (another account may be tried)", and
\* so for a used-up quota and a bad token (firefly_errors.py): what Adobe refuses for
\* one account is tried with another, unless the request is bound to the account.
\* Not so, says TLC: the refusal comes as a TypeError, which ends the request.
RefusalsRotate ==
  [][\A r \in FqRequest :
       fqStep[r] = "finally" /\ r \in turnedAway /\ pin[r] = NoAccount => fqStep'[r] = "check"]_fqVars
==============================================================================
