------------------------------ MODULE ImportJobs ------------------------------
(***************************************************************************)
(* Imports of accounts from other installations: from CPA pools            *)
(* (services/cpa_service.py) and sub2api servers                           *)
(* (services/sub2api_service.py).  An import is a thread that fetches the  *)
(* chosen accounts, adds them to the pool, and reports in the one job that *)
(* its server has.  Every report reads the job and writes it back in       *)
(* separate critical sections; a second import of the server, an edit of   *)
(* it, its deletion and a restart may come in between.                     *)
(***************************************************************************)
EXTENDS Naturals, FiniteSets

CONSTANTS
  Remote,        \* configured pools and servers
  RemoteKind(_), \* "cpa" or "sub2api"
  Item,          \* accounts at the remote
  Plans,         \* bound: what the imports are to import, in their order; {} for no import
  MaxImports,    \* bound: imports
  MaxChanges     \* bound: edits, deletions, restarts

ASSUME ImportJobsAssumption ==
  /\ \A r \in Remote : RemoteKind(r) \in {"cpa", "sub2api"}
  /\ IsFiniteSet(Item) /\ {MaxImports, MaxChanges} \subseteq Nat
  /\ Plans \subseteq [1..MaxImports -> SUBSET Item]

ImportNo == 1..MaxImports
Unfinished == {"pending", "running"}
NoJob == [status |-> "none", total |-> 0, completed |-> 0, added |-> 0, failed |-> 0, errors |-> 0]

VARIABLES
  remotes,    \* _servers, _pools: what is configured; remotes do not touch one another, so it is one
  job,        \* import_job, by remote
  thread,     \* where an import is
  remote,     \* the remote of an import
  chosen,     \* the accounts it is to import
  todo,       \* those it has not dealt with
  exported,   \* the batch export: by id, the account whose data it was taken for
  got,        \* the ids it has a token for
  tokens,     \* the accounts whose tokens these are
  updates,    \* what it is about to write
  read,       \* the job it read for that
  goesOn,     \* where it goes on then
  poolTokens, \* accounts in the pool, be it under a renewed token
  left,       \* accounts taken out of the pool again (history)
  changes,    \* edits, deletions and restarts so far
  died,       \* remotes an import of which died of an exception (history)
  mixed       \* remotes whose job is not the report of one undisturbed import (history)

importVars == <<thread, remote, chosen, todo, exported, got, tokens, updates, read, goesOn>>
poolVars == <<poolTokens, left>>
histVars == <<died, mixed>>
ijVars == <<remotes, job, importVars, poolVars, changes, died, mixed>>

Number == 0..2 * Cardinality(Item) * MaxImports
Job == [status : Unfinished \cup {"none", "completed", "failed"}, total : Number, completed : Number,
        added : Number, failed : Number, errors : Number]
Working == {"begin", "batch", "fetch", "error", "count", "close", "add", "refresh", "done", "reread", "write"}

\* What a batch export may be: a server that leaves accounts out and does not say whose data
\* the others are is read by position, so data may be taken for those of another id.
Exports(ids) ==
  UNION {{e \in [S -> ids] : \A i, j \in S : e[i] = e[j] => i = j} : S \in SUBSET ids}

ImportsTypeOK ==
  /\ remotes \subseteq Remote
  /\ job \in [Remote -> Job]
  /\ thread \in [ImportNo -> Working \cup {"new", "ended"}]
  /\ remote \in [ImportNo -> Remote] /\ goesOn \in [ImportNo -> Working \cup {"ended"}]
  /\ chosen \in [ImportNo -> SUBSET Item] /\ todo \in [ImportNo -> SUBSET Item]
  /\ \A n \in ImportNo : exported[n] \in Exports(chosen[n])
  /\ got \in [ImportNo -> SUBSET Item] /\ tokens \in [ImportNo -> SUBSET Item]
  /\ \A n \in ImportNo : DOMAIN updates[n] \subseteq DOMAIN NoJob
  /\ read \in [ImportNo -> Job]
  /\ poolTokens \cup left \subseteq Item /\ changes \in 0..MaxChanges /\ died \subseteq Remote /\ mixed \subseteq Remote

Alive(r) == {n \in ImportNo : remote[n] = r /\ thread[n] \in Working}

------------------------------------------------------------------------------
(* The job of a remote *)

\* get_import_job; NoJob when there is none, or no such remote any more.
GetJob(r) == IF r \in remotes THEN job[r] ELSE NoJob

\* _normalize_import_job with fail_unfinished
Settled(j) == IF j.status \in Unfinished THEN [j EXCEPT !.status = "failed"] ELSE j

\* A report: _update_job of these fields, then the thread goes on there.
Report(n, fields, then) ==
  /\ updates' = [updates EXCEPT ![n] = fields]
  /\ goesOn' = [goesOn EXCEPT ![n] = then]
  /\ thread' = [thread EXCEPT ![n] = "reread"]

GoesTo(n, place) == thread' = [thread EXCEPT ![n] = place] /\ UNCHANGED <<updates, goesOn>>

\* _update_job reads the job; without one there is nothing to report to.
ReadJob(n) ==
  /\ thread[n] = "reread"
  /\ read' = [read EXCEPT ![n] = GetJob(remote[n])]
  /\ thread' = [thread EXCEPT ![n] = IF GetJob(remote[n]) = NoJob THEN goesOn[n] ELSE "write"]
  /\ UNCHANGED <<remotes, job, remote, chosen, todo, exported, got, tokens, updates, goesOn,
                 poolVars, changes, died, mixed>>

\* set_import_job, of what was read with the updates
WriteJob(n) ==
  /\ thread[n] = "write"
  /\ job' = IF remote[n] \in remotes
              THEN [job EXCEPT ![remote[n]] =
                      [f \in DOMAIN NoJob |-> IF f \in DOMAIN updates[n] THEN updates[n][f] ELSE read[n][f]]]
              ELSE job
  /\ thread' = [thread EXCEPT ![n] = goesOn[n]]
  /\ updates' = [updates EXCEPT ![n] = <<>>]
  /\ read' = [read EXCEPT ![n] = NoJob]
  /\ goesOn' = [goesOn EXCEPT ![n] = "begin"]
  /\ UNCHANGED <<remotes, remote, chosen, todo, exported, got, tokens, poolVars, changes, died, mixed>>

------------------------------------------------------------------------------
(* An import *)

\* start_import.  Nothing looks whether another import of the remote is at work.
StartImport(n, kind) ==
  /\ thread[n] = "new" /\ \A m \in 1..(n - 1) : thread[m] # "new"
  /\ chosen[n] # {}
  /\ \E r \in remotes :
       /\ RemoteKind(r) = kind
       /\ job' = [job EXCEPT ![r] = [NoJob EXCEPT !.status = "pending", !.total = Cardinality(chosen[n])]]
       /\ mixed' = IF Alive(r) = {} THEN mixed \ {r} ELSE mixed \cup {r}
       /\ died' = died \ {r}
       /\ remote' = [remote EXCEPT ![n] = r]
  /\ todo' = [todo EXCEPT ![n] = chosen[n]]
  /\ thread' = [thread EXCEPT ![n] = "begin"]
  /\ UNCHANGED <<remotes, chosen, exported, got, tokens, updates, read, goesOn, poolVars, changes>>

StartCpaImport(n) == StartImport(n, "cpa")
StartSub2apiImport(n) == StartImport(n, "sub2api")

ImportStep(n, place) ==
  /\ thread[n] = place
  /\ UNCHANGED <<remotes, job, remote, chosen, read, changes>>

Begin(n) ==
  /\ ImportStep(n, "begin")
  /\ Report(n, [status |-> "running"], IF RemoteKind(remote[n]) = "cpa" THEN "fetch" ELSE "batch")
  /\ UNCHANGED <<todo, exported, got, tokens, poolVars, histVars>>

\* _fetch_access_tokens_for_accounts; a failing export returns nothing.
BatchExport(n) ==
  /\ ImportStep(n, "batch") /\ GoesTo(n, "fetch")
  /\ \E e \in Exports(chosen[n]) : exported' = [exported EXCEPT ![n] = e]
  /\ UNCHANGED <<todo, got, tokens, poolVars, histVars>>

\* append_payload: the token of this account is taken for that of this id.
TakeToken(n, id, account) ==
  /\ todo' = [todo EXCEPT ![n] = @ \ {id}]
  /\ got' = [got EXCEPT ![n] = @ \cup {id}]
  /\ tokens' = [tokens EXCEPT ![n] = @ \cup {account}]
  /\ GoesTo(n, "count")

\* The account is asked for on its own: its token arrives, or an error.
Fetch(n, id) ==
  \/ TakeToken(n, id, id)
  \/ todo' = [todo EXCEPT ![n] = @ \ {id}] /\ GoesTo(n, "error") /\ UNCHANGED <<got, tokens>>

\* fetch_remote_access_token: the downloads run in parallel and end in any order.
DownloadFile(n) ==
  /\ ImportStep(n, "fetch") /\ RemoteKind(remote[n]) = "cpa"
  /\ \E id \in todo[n] : Fetch(n, id)
  /\ UNCHANGED <<exported, poolVars, histVars>>

\* The batch export's data are used, or _fetch_access_token_for_account asks for the account.
FetchAccount(n) ==
  /\ ImportStep(n, "fetch") /\ RemoteKind(remote[n]) = "sub2api"
  /\ \E id \in todo[n] :
       \/ id \in DOMAIN exported[n] /\ TakeToken(n, id, exported[n][id])
       \/ id \notin DOMAIN exported[n] /\ Fetch(n, id)
  /\ UNCHANGED <<exported, poolVars, histVars>>

\* _append_error
AppendError(n) ==
  /\ ImportStep(n, "error")
  /\ LET current == GetJob(remote[n]) IN
       IF current = NoJob THEN GoesTo(n, "count")
         ELSE Report(n, [errors |-> current.errors + 1, failed |-> current.errors + 1], "count")
  /\ UNCHANGED <<todo, exported, got, tokens, poolVars, histVars>>

CountItem(n) ==
  /\ ImportStep(n, "count")
  /\ LET current == GetJob(remote[n])
     IN  Report(n, [completed |-> current.completed + 1, failed |-> current.errors],
                IF todo[n] = {} THEN "close" ELSE "fetch")
  /\ UNCHANGED <<todo, exported, got, tokens, poolVars, histVars>>

\* A faulty variant, for the mutation runs: an import without tokens just ends.
CloseSilently(n) ==
  /\ ImportStep(n, "close")
  /\ IF got[n] = {} THEN GoesTo(n, "ended") ELSE GoesTo(n, "add")
  /\ UNCHANGED <<todo, exported, got, tokens, poolVars, histVars>>

\* Without a token the import has failed.
CloseImport(n) ==
  /\ ImportStep(n, "close")
  /\ LET current == GetJob(remote[n]) IN
       IF got[n] = {}
         THEN Report(n, [status |-> "failed", completed |-> current.total, failed |-> current.errors], "ended")
         ELSE GoesTo(n, "add")
  /\ UNCHANGED <<todo, exported, got, tokens, poolVars, histVars>>

\* add_account_items or add_accounts: each token once.  refresh_accounts comes next.
AddTokens(n) ==
  /\ ImportStep(n, "add") /\ GoesTo(n, "refresh")
  /\ poolTokens' = poolTokens \cup tokens[n]
  /\ UNCHANGED <<todo, exported, got, tokens, left, histVars>>

\* Saving the pool or renewing the accounts fails: the thread dies of the exception.
ImportDies(n) ==
  /\ \E place \in {"add", "refresh"} : ImportStep(n, place)
  /\ GoesTo(n, "ended")
  /\ died' = died \cup {remote[n]} /\ mixed' = mixed \cup {remote[n]}
  /\ UNCHANGED <<todo, exported, got, tokens, poolVars>>

\* The job also says how many of the tokens the pool had already; "added" counts both.
Complete(n) ==
  /\ ImportStep(n, "refresh")
  /\ Report(n, [status |-> "completed", completed |-> Cardinality(chosen[n]),
                added |-> Cardinality(tokens[n]), failed |-> GetJob(remote[n]).errors], "ended")
  /\ UNCHANGED <<todo, exported, got, tokens, poolVars, histVars>>

------------------------------------------------------------------------------
(* The pool, administrators, restarts *)

\* remove_invalid_token, mark_image_result, delete_accounts: an account found invalid or
\* without quota is taken out of the pool, by the import's own refresh_accounts or by others.
AccountLeaves ==
  /\ \E a \in poolTokens : poolTokens' = poolTokens \ {a} /\ left' = left \cup {a}
  /\ UNCHANGED <<remotes, job, importVars, changes, histVars>>

Change == changes < MaxChanges /\ changes' = changes + 1

\* update_server, update_pool: an edit settles the job, although its thread goes on.
EditRemote ==
  /\ Change
  /\ \E r \in remotes : job' = [job EXCEPT ![r] = Settled(@)] /\ mixed' = mixed \cup {r}
  /\ UNCHANGED <<remotes, importVars, poolVars, died>>

\* delete_server, delete_pool
DeleteRemote ==
  /\ Change
  /\ \E r \in remotes : remotes' = remotes \ {r} /\ job' = [job EXCEPT ![r] = NoJob]
  /\ UNCHANGED <<importVars, poolVars, histVars>>

\* A restart; _load settles the jobs.
RestartImports ==
  /\ Change
  /\ job' = [r \in Remote |-> Settled(job[r])]
  /\ mixed' = mixed \cup {r \in Remote : Alive(r) # {}}
  /\ thread' = [n \in ImportNo |-> IF thread[n] = "new" THEN "new" ELSE "ended"]
  /\ updates' = [n \in ImportNo |-> <<>>] /\ read' = [n \in ImportNo |-> NoJob]
  /\ UNCHANGED <<remotes, remote, chosen, todo, exported, got, tokens, goesOn, poolVars, died>>

ImportsInit ==
  /\ remotes \in {{r} : r \in Remote} /\ job = [r \in Remote |-> NoJob]
  /\ thread = [n \in ImportNo |-> "new"] /\ remote \in {[n \in ImportNo |-> r] : r \in remotes}
  /\ chosen \in Plans /\ todo = [n \in ImportNo |-> {}]
  /\ exported = [n \in ImportNo |-> <<>>]
  /\ got = [n \in ImportNo |-> {}] /\ tokens = [n \in ImportNo |-> {}]
  /\ updates = [n \in ImportNo |-> <<>>] /\ read = [n \in ImportNo |-> NoJob]
  /\ goesOn = [n \in ImportNo |-> "begin"]
  /\ poolTokens = {} /\ left = {} /\ changes = 0 /\ died = {} /\ mixed = {}

Imports(n) ==
  \/ StartCpaImport(n) \/ StartSub2apiImport(n) \/ Begin(n) \/ BatchExport(n) \/ DownloadFile(n)
  \/ FetchAccount(n) \/ AppendError(n) \/ CountItem(n) \/ CloseImport(n) \/ AddTokens(n)
  \/ ImportDies(n) \/ Complete(n) \/ ReadJob(n) \/ WriteJob(n)

ImportsNext == (\E n \in ImportNo : Imports(n)) \/ AccountLeaves \/ EditRemote \/ DeleteRemote \/ RestartImports

ImportsSpec == ImportsInit /\ [][ImportsNext]_ijVars

------------------------------------------------------------------------------
(* Properties *)

\* Import n is the remote's last, it has ended and nothing disturbed it.
Undisputed(n) ==
  /\ thread[n] = "ended" /\ remote[n] \in remotes \ mixed
  /\ \A m \in ImportNo : m > n => remote[m] # remote[n] \/ thread[m] = "new"

\* A job is shown at work only while one of the remote's imports is, or after one died of
\* an exception, though reports are written over each other; and the job of an import that
\* nothing disturbed accounts for every id that was chosen, and counts as added no account
\* that was not put into the pool and each once, though several ids may have brought it.
JobsAreHonest ==
  /\ \A r \in remotes : job[r].status \in Unfinished => Alive(r) # {} \/ r \in died
  /\ \A n \in ImportNo : LET j == job[remote[n]] IN
       Undisputed(n) =>
         /\ j.completed = j.total /\ j.total = Cardinality(chosen[n])
         /\ j.failed = Cardinality(chosen[n] \ got[n])
         /\ j.added = Cardinality(tokens[n])
         /\ tokens[n] \subseteq poolTokens \cup left

\* "Return exported account data keyed by requested sub2api account id"
\* (_fetch_access_tokens_for_accounts): an undisturbed import whose job names no failed
\* account has imported every account that was chosen.  Not so, says TLC: read by position,
\* an export that leaves the first account out books the second one for it, and the second
\* one is then fetched again under its own id.
NoneIsPassedOver ==
  \A n \in ImportNo : Undisputed(n) /\ job[remote[n]].failed = 0 => tokens[n] = chosen[n]
=============================================================================
