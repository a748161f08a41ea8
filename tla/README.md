# JoveMage: a verification project

JoveMage is a self-hosted console that offers ChatGPT (web) and Adobe Firefly as
OpenAI- and Anthropic-compatible APIs.  It runs as one process with many threads
around one in-memory pool of upstream accounts, and keeps its state in files.
Most of its hard behaviour lies where those threads meet: image requests share
accounts up to a limit while the accounts' tokens are being renewed, deleted,
imported and probed; background tasks are cancelled while they work; callers
share one token renewal or one computed answer; workers lease mailboxes and
domains; streams break off half-way; files are rewritten while they are read, and
the process may die between any two steps.

This directory holds TLA+ modules that model these parts, configurations that
model-check them with TLC, and theorems about them that TLAPS proves.

## Inventory

| Component | Code (`src/`) | State | What is hard | Modules |
|---|---|---|---|---|
| Account pool, image scheduling | `services/account_service.py`, `services/protocol/conversation.py` | `_accounts` by token, `_token_aliases`, `_image_inflight` | between two critical sections a token is renewed or the account goes | `TokenAlias`, `AccountPool` |
| Failure verification queue | `services/account_service.py` | deque, membership, active and rerun sets | four collections name accounts by tokens that change | `FailureRefresh` |
| OAuth renewal | `services/account_service.py` | flights with futures, a lock, credentials | refresh tokens are honoured once; answers get lost; a relogin interferes | `OAuthRefresh` |
| Background tasks | `services/task_manager.py`, `api/accounts.py` | registry, running task per tier, flags | a cancelled task still runs; the registry forgets | `TaskManager` |
| Image tasks | `services/image_task_service.py` | `_tasks`, `image_tasks.json`, a thread per task | crashes between a change and its write; repeated calls | `ImageTaskBoard`, `ImageTask` |
| Image turn | `services/openai_backend_api.py`, `services/protocol/conversation.py` | what stream, document and task list have told | results come late, in parts, from another turn, or never | `ImageTurn` |
| Image calls, cancellation flags | `api/ai.py`, `services/log_service.py`, `request_cancel_service.py`, `realtime_monitor_service.py`, `trace_snapshot_service.py` | running calls, flags, traces, images per call | parallel images, a client that leaves, an event loop that waits | `ImageCall` |
| Text requests | `services/protocol/conversation.py`, the three front ends, `web_search_tool.py` | the text told so far | repeated history, patches, refused tokens, broken streams | `TextTurn` |
| Chat completion cache | `services/protocol/chat_completion_cache.py` | entries, calls in flight | owners that fail, or leave half-way; a lock held by a suspended stream | `ChatCache` |
| Firefly requests, circuit breaker | `services/protocol/firefly_orchestration.py`, `services/channels/runtime.py` | attempts, places, breaker | many kinds of failure, each with its own clean-up; the client's own warnings fail | `FireflyRequest` |
| Firefly credential daemon | `services/backends/firefly_refresh.py`, `api/app.py` | back-off per account, the thread | writes to accounts edited meanwhile; start and stop | `FireflyRefresh` |
| Usage ledger, reconciliation | `services/channel_usage_service.py`, `channel_reconcile_service.py` | detail and daily rows | a step that fails between aggregation and deletion | `UsageLedger` |
| Image egress, proxies | `services/proxy_service.py` | places per proxy node | nodes are edited while requests hold or wait | `ProxyEgress` |
| Editable file tasks | `services/editable_file_task_service.py` | tasks, their folders | several tasks, one folder; crashes | `EditableTasks` |
| JSON files | `services/json_file.py` | a file and its backup | an overwriting that ends half-way, in an error or a death | `JsonFile` |
| Image storage, tags, thumbnails | `services/image_storage_service.py`, `image_service.py`, `image_tags_service.py` | files, WebDAV, the index | only the index is locked; every operation has several steps | `Gallery` |
| Log store | `services/log_service.py` | a file of lines | read without a lock while it is rewritten; ids made from line numbers | `LogStore` |
| Registration runner | `services/register_service.py` | phases, four flags, threads | schedule, stop and drain cross | `RegisterService` |
| Registration worker, mailboxes | `services/register/openai_register.py`, `mail_provider.py` | states of addresses, mails | leases that are only looked up; mails that come late or do not say for whom; aliases | `RegisterWorker` |
| Mail sources, domain blacklist | `services/register/mail_provider.py`, `domain_blacklist.py` | rotation, list of domains | a domain banned while another worker uses it | `MailSources` |
| Account import | `services/cpa_service.py`, `sub2api_service.py` | one job per remote | reports are written over each other; exports that name no ids | `ImportJobs` |
| Manual OAuth login | `services/oauth_login_service.py` | sessions | codes pasted twice, late, or to another session | `OAuthLogin` |
| Storage backends | `services/storage/*` | files, tables | partial writes | taken as atomic, except as `JsonFile` says |
| Upstream clients, failure classification, authentication, configuration, backup, upscaling, dashboards, catalogues, other routes, console | | | formats and I/O | not modelled |

How the parts interact.  A request of a client is an `ImageCall` or a `TextTurn`
(perhaps through `ChatCache`), or an image task (`ImageTask`).  Each image of it takes
a slot of an account (`AccountPool`) or, on the Firefly channel, a place
(`FireflyRequest`), and a place of a proxy node (`ProxyEgress`); it follows an
upstream turn to its end (`ImageTurn`), is stored (`Gallery`), logged (`LogStore`) and
charged (`UsageLedger`).  A token may be renewed on the way (`OAuthRefresh`,
`FireflyRefresh`), which moves the account to another key and adds an alias
(`TokenAlias`).  A failure on the account's side puts the account into the
verification queue (`FailureRefresh`).  Administrators' bulk operations are
background tasks (`TaskManager`) on the pool.  Accounts come from imports
(`ImportJobs`), logins (`OAuthLogin`) and registrations (`RegisterService`, whose workers
are `RegisterWorker` with addresses of `MailSources`).  What is kept is kept through
`JsonFile`.

What makes each part correct is stated as properties; see the runs below.  "hazards"
in `PROJECT.json` lists what is hard to test at its line in the code, and the
properties that would notice.

## Plan

Done, the core first:

1. `TokenAlias`, `AccountPool`, `TaskManager`, `FailureRefresh`, `OAuthRefresh`,
   `ImageTaskBoard` (abstract) and `ImageTask` (detailed), with their proofs.
2. What requests share: `FireflyRequest` with the breaker, `UsageLedger`, `ProxyEgress`,
   `ChatCache`, `FireflyRefresh`, `JsonFile`.
3. What makes accounts: `RegisterService`, `RegisterWorker`, `MailSources`, `ImportJobs`,
   `OAuthLogin`.
4. What clients get: `ImageTurn`, `EditableTasks`, `TextTurn`, `ImageCall`, `Gallery`, `LogStore`.
5. Proofs about `JsonFile`, `FireflyRefresh`, `ChatCache` and `Gallery`.
6. Proofs of the safety invariants that the runs check: slots and renewals of the pool,
   the queue and its jobs, Firefly requests, the ledger, imports, places of proxies,
   registration workers, mail sources, logins, whole batches, the log, exports, image
   turns, image calls and text requests.

Left: an abstract specification of the ledger (totals per day) for `UsageLedger`.

## Modules

Comments name the functions that definitions stand for, and `map` in `PROJECT.json`
gives the lines.  Everywhere one step is one critical section (or one access to
shared state outside any), and a call to an upstream is a choice among its
outcomes between two steps.  Variables carry the names of the code's fields where
there is one; counters named in a bound (`Max...`), and variables marked "history",
are the model's own.

**Accounts and their tokens**

* **`TokenAlias`** The alias table.  The `while` loop of
  `_resolve_access_token_locked` is defined without recursion, as the settled token
  that lies in every set closed under the loop's step, so that proofs can use it.
* **`AccountPool`** A token is `<<account, n>>`; the upstream never issues one twice.
  `pc` follows a request through `get_available_access_token` (`select`, `preflight`,
  `remote`, `retried`, `invalid`, `release`) and `_generate_single_image` (`stream`,
  `retry`, `recover`, `recoverInvalid`, `releaseAgain`).  The round-robin index is any
  choice, and quotas are left out.  An account that was removed may be imported again
  while requests still work with it; `reimported` (history) remembers that.
* **`FailureRefresh`** The queue by itself; only its calls touch it.
  `mark_image_result` is the only caller and always forces, so the dedup interval
  never applies.  `owed` and `disturbed` are history.
* **`OAuthRefresh`** One account, credentials numbered by their issue.  The identity
  provider is the environment: it honours the credentials in `live`, replaces one
  when it is used (perhaps honouring the old one for a while), and may end a session.
* **`FireflyRefresh`** The daemon's threads (`current`, `alive`), where each visit is,
  the delays it keeps per account, and the accounts' records.  Time is "a token
  runs out" and "a delay passes".
* **`OAuthLogin`** Sessions with their age, the codes the browser got, the steps of
  `finish`: look up, exchange outside the lock, consume, add.

**Where accounts come from**

* **`RegisterService`** `at` follows each runner through `_orchestrate`; the flags are the
  code's four.  The clock is far from a window, near it, or inside it.
* **`RegisterWorker`** A worker's registration as its steps over a file of states: a
  lease is read and written under a lock, a failure marked in two steps.  Mails are
  external: they are sent, delivered late or never, and what they tell (`Headers`) may
  lack the recipients, so that they match any address, or the time, so that no boundary
  makes them old.
* **`MailSources`** `takes` follows a worker through `create_mailbox` of twelve kinds of
  source, which use a configured domain as it is or a name below it; the blacklist is a
  set of patterns that may be unreadable, and a wild one does not ban the names that
  were configured below it.
* **`ImportJobs`** `thread` follows an import of either kind; a report is read and
  written in two critical sections.  A batch export may leave accounts out and take
  the data of one account for another's id, as it is read by position when it names
  no ids; accounts leave the pool again at any time (`left` is history).

**Requests**

* **`FireflyRequest`** `fqStep` follows an attempt through the handlers of
  `_run_firefly_account_attempts`; the breaker's clock is "cooling is over".  Where the
  client logs a refusal, its warning raises a TypeError, for which the orchestrations
  make the call a second time, and which then ends the request.
* **`ProxyEgress`** A request resolves its references in order and keeps the limit
  and the key it was admitted by.
* **`ImageTurn`** The end of a stream, the polling with its budget, settling and
  confirming looks, the recovery of an untold conversation, and the download.
  The clock is that of the polling.
* **`ImageCall`** The event loop, the thread that computes, and a thread per image;
  `at` is where `LoggedCall` is.  What Starlette does with a response whose client is
  gone is external.
* **`TextTurn`** A text is a sequence of words, of which some enclose an annotation or
  a tool call.  `parse` is the state of `iter_conversation_payloads`, `frames` what the
  client was sent.  What a regular expression does with a text is read word by word,
  by a function over the text's length (`ReadWord` for `sanitize_output_text`, `Enclose` for
  tool calls and their removal, `Applied` for the operations of a patch).
* **`ChatCache`** One key.  A stream is a generator whose steps run on any thread of
  the pool, which is how the cache's lock, or the condition of a call that is
  followed, may stay with a thread that cannot give it back.
* **`UsageLedger`** Rows with the uses they stand for, so that what was counted twice
  shows.  The row cap of JSON and git backends is part of appending.

**Tasks, files and logs**

* **`TaskManager`** Tasks are numbered in the order of creation; the five task bodies
  are one loop over batches.  `request_cancel` looks at the status and sets the flag
  without the lock, so the flag may be set at any time after the submission.
* **`ImageTaskBoard`, `ImageTask`** The board says what clients are promised.  The
  service implements it with `state <- what the file says` and `expired <- the ended
  tasks whose retention has passed`: what a client can see is what the file holds,
  since the lock is kept from a change to its write.
* **`EditableTasks`** A task is `<<owner, id>>` and its folder is named by what follows
  the last colon, so that tasks may share one.  A free name is looked for first and
  written later, in whole or in part; `raced` (history) holds the tasks that were about
  to write one path together.
* **`JsonFile`** Contents are version numbers, -1 when torn; one writer.  Each move may be
  refused, and an overwriting, of the file or of its backup, may end half-way with the
  process (a death) or without it (an error).
* **`Gallery`** An image is in the directory, on the server or both, and its entry in
  the index says which; only the index is locked.  Images share nothing but that
  lock, so that one of them shows their interleavings; two were checked by
  simulation.  Deletions run in the event loop, one at a time; where the connection to
  the server breaks, the file is gone and its entry stays.  Left out: two saves of
  the same bytes in the same second, which share a path.
* **`LogStore`** Lines with ids and texts.  A listing reads one line per step, which is
  the finest of its interleavings; filters are the texts that are wanted, and the
  cached count is the count.

`MC*` modules extend specifications for TLC: they add model values, samples of inputs
and symmetry.  Six of them put several specifications side by side that share no
state: `part` says which one a behaviour is of, the others keep their initial
state, and fairness is each part's own.  The state space is the sum of the parts'.
Operators called "faulty variant" are not part of any specification: each is a
plausible bug, put in the place of a definition to show that the property listed
with it in `PROJECT.json` would notice.

## Runs

Six runs pass.  Each checks the parts that its suite puts side by side:

| Run (suite) | Part: bounds | Properties |
|---|---|---|
| `pool_contention` (`MCServing`) | `AccountPool`: 2 requests, 1 account, limit 2, 1 renewal | `SlotAccounting`: the count is the number of slots still to be given back |
| | `ProxyEgress`: 3 requests, 2 nodes, limits 0 to 2, 1 edit | `PlacesAreHeld`: every counted place has a holder, and was admitted under a limit |
| | `RegisterWorker`: 2 workers, a mailbox and its alias, 2 mails that lack their recipients or their time, 1 deed from outside | `SoleHolder`, `SubmittedOnce`: a code is submitted once |
| | `Gallery`: 1 image, from local storage (the default) to another mode, 1 death | `StoredIsServed`: a saved image is served until it is removed |
| `pool_renewal` (`MCSupply`) | `AccountPool`: 1 request, 2 renewals, failing saves, fallback proxy | `NoOrphanCount`, `CountWithinCap`; `RotationKeepsRequest` through a chain of two aliases |
| | `FireflyRequest`: 2 requests, 2 accounts, 1 place, 2 attempts, threshold 1 | `PlacesMatch`, `AttemptsBooked` |
| | `UsageLedger`: 4 rows, cap 3, 3 days, 1 kept | `NeverOvercharged` |
| `tasks` (`MCBackground`) | `TaskManager`: 3 tasks of 3 accounts in batches of 2, 2 tiers, registry of 2 | `TierExclusion`, `CancelledAfterWholeBatches`, `TasksEnd` |
| | `RegisterService`: 2 runners, 1 window, 1 restart | `StopEnds`: a stop ends whatever runs |
| | `LogStore`: 3 old lines, 1 new, 2 rewrites, 1 listing, 1 death | `DeletedIsShown`: what is deleted was shown under that id |
| `failure_queue` (`MCCredentials`) | `FailureRefresh`: 3 accounts, 3 failures, 2 places, 1 renewal | `QueueSound`, `JobsSound`, `VerificationHappens` |
| | `FireflyRefresh`: 1 account, 2 threads, 1 renewal | `OneDaemon`, `DelaysKept` |
| | `MailSources`: 2 workers, every kind of source, a domain and one below it | `RejectedIsAvoided` |
| | `OAuthLogin`: 2 pastes, 3 sessions of 1 kept | `LoginsMeetTheirSession` |
| | `ImportJobs`: 1 import of 2 accounts or 2 of one, 1 edit or restart, both kinds | `JobsAreHonest` |
| `oauth` (`MCCalls`) | `OAuthRefresh`: 2 callers, 3 calls, 2 issued credentials | `CredentialKept`, `CallsReturn` |
| | `ChatCache`: 3 callers, 2 threads, streams of 2 chunks | `OneComputes`, `AnswersWhole` |
| | `TextTurn`: 9 requests over every front end, 2 accounts, 3 payloads out of 8, 3 looks | `TextIsTold`, `FramesParse` |
| | `ImageCall`: 2 calls, up to 2 images, 5 shapes, 1 cancellation | `ImagesAreWhole`, `CallsAreBooked` |
| `image_tasks` (`MCTaskFiles`) | `ImageTask`: 3 tasks, 2 crashes | `KeepsPromise` (refinement of the board), `ShownIsStored`, `OneThreadPerTask`, `TasksEnd` |
| | `EditableTasks`: 3 tasks of 2 owners, 2 of which share a folder, names 1 to 3, 1 death | `ResultsAreOwn`, `EditableTasksEnd` |
| | `JsonFile`: 4 versions, any number of deaths and errors | `WrittenIsRead` |
| | `ImageTurn`: 2 images and a foreign one, budget of 3 | `TurnIsSound` |

Six runs are violated: in each, TLC finds a behaviour of the code that breaks what a
comment or a text of the console says.

| Run | Property | What happens |
|---|---|---|
| `pool_cancelled_retry` | `CleanupAfterRequests` | a request cancelled between a failed connection and its fallback retry ends with its slot taken |
| `pool_failed_save` | `SettledAccountBound` | a save that fails inside `mark_image_result` gives the slot back twice, and the account serves more than its limit |
| `failure_queue_renewed` | `NoOrderLost` | a token renewed while its account is verified leaves the new one active for good; later verifications are lost (`VerificationHappens` shows that this is the only way: it excepts nothing else) |
| `oauth_condemned` | `AbnormalIsConfirmed` | the refusal of an outdated refresh token marks an account abnormal whose current credential is honoured |
| `firefly_renewed` | `RefreshSticks` | the daemon's renewed token is dropped and its expiry kept |
| `ledger_pruned` | `DeletedIsAggregated` | a failed aggregation is taken for a day without use, whose details are then deleted |

The bounds are enough for the cases that matter: the limit is reached and passed on
by a rotation, aliases form chains, both tiers are busy, the registry is full, a
batch is partial, the queue outgrows its places, a flight is joined and a second one
waits for the lock, a crash follows another, a node's limit shrinks below what it
holds, a lease is taken by way of an alias, an attempt fails on one account and goes
on with the other, a round of the maintenance is aborted and begun anew, two imports
share a job, an export is read for the wrong ids, an account is imported again under a
running request, a mail matches an address it was not sent to, an image is in one place
of two, two exports choose one name, a file is torn and its backup old, an answer
repeats two messages of the history, one of two parallel images fails.

Deadlock is checked in `pool_contention` and `pool_renewal`, whose suites say with
`AtRest` where a part may stop (its requests have all ended, its bound is met).  The
other suites say `CHECK_DEADLOCK FALSE`, for their parts stop when their bounds
are used up; there, liveness properties say that nothing waits for ever.

### Fairness

Threads get their turn: weak fairness of the body of a task, of the jobs and of the
starting loop, of a caller of the renewal, of the registration's runners, of an
export.  Requests to an upstream end because they have timeouts, so the tasks of a
registration return.  The registration's scheduler looks at the clock, and time
passes.  Nobody has to submit, cancel, call, log in or fail.  `MaxCalls` makes weak
fairness enough for the refresh lock: only finitely many calls compete for it.  In
`ImageTask` threads compete for the service's lock without such a bound, and strong
fairness says that a thread gets it eventually; a restart follows a crash (`restart:
unless-stopped` in the compose files).

### What does not hold

Besides the six runs, TLC refutes further statements, which have no run of their
own.  Those that are defined in a module are marked there as not so:

* `RefusalsRotate` (`FireflyRequest`): "429/451/5xx" and a used-up quota are to be tried
  with another account (`firefly_errors.py`).  `Logger.warning` takes one message, and the
  client passes a format with its arguments before it raises these errors: what is
  raised is a TypeError, the call is made once more, and the second TypeError ends the
  request.
* `AccountConcurrencyBound` (`AccountPool`): a removal drops the count of an account
  although requests hold its slots, and an import puts it back with none counted.
  `SettledAccountBound` and `SlotAccounting` make an exception of such accounts.
* `NoneIsPassedOver` (`ImportJobs`): "keyed by requested sub2api account id", but an export
  that leaves the first account out and names no ids books the second one for it; the
  second is then imported twice, the first not at all, and the job names no failure.
* `NeverTakenAgain` (`RegisterWorker`): a login that fails at an alias marks the mailbox over
  its "used", which "must not be cleared", and a reset of the failures then frees it.
* `WindowEnds` (`RegisterService`): the scheduled batch may go on after its window.
* `LockedWhileServing` (`ChatCache`): a stream served from the cache that ends on
  another thread than it began on leaves the lock taken; so does one that follows a
  call with the call's condition.
* Two exports whose folders are the same may choose one name before either has written
  it: the later file is written over the other, and both results name it.  `ResultsAreOwn`
  makes an exception of them (`raced`).
* `FoundIsReturned` (`ImageTurn`): the polling may time out with image ids in hand.
* `NothingRunsForEver`, `ImagesAreTold` (`ImageCall`): a thread that still works for a
  client that left enters the call among the running ones for good; a stream
  with `response_format=url` ends well without an image.  A stream whose client left
  is logged as a success, and closing it makes the event loop wait for the threads of
  its images.  A source of an edit that cannot be read is not logged.  A cancellation
  between the two critical sections of `finish` leaves its flag behind.
* `SessionsWithinCap`, `LostCodesAreNotSpent` (`OAuthLogin`): sessions are purged before
  one is added; a code is spent with an answer that is lost.
* `DeletedStaysAway`, `ThumbsAreWhole` (`Gallery`): the compression of an image puts its
  file back after a deletion; a thumbnail of a request that died is taken for
  finished.  A deletion waits for the index in the event loop while a sync uploads.
* `AddedSurvives` (`LogStore`): a death between the truncation of the log and its
  rewriting loses lines.
* `MailSources`: two workers can get one DDG alias, and a worker may give up before it
  has tried every source.
* `ImportJobs`: an edit settles the job of an import that runs, two imports of one
  remote share a job, and an exception leaves it running.
* `TextTurn`: words after a tool call go to a closed block or to one that stays open; the
  tail of an unclosed tool call is not told; a space told before a dot makes the
  whole text be told again; an answer that begins like an earlier message of the
  assistant is cut, lost or told twice; a stream that ends without `[DONE]` is called
  complete; in the search, two failed looks count as confirmation.  `TextIsTold` says
  which answers it excepts.

## Proofs

TLAPS proves, for every value of the constants that satisfies the modules'
assumptions, what follows.  Each theorem rests on an inductive invariant, which TLC
checked on the suites' instances before it was proved.

**Accounts and their tokens**

* `TokenAlias_proofs` has the lemmas about the alias table: a walk that reaches a settled
  token ends there and nowhere else (`ResolvedIsEnd`), whatever is resolved stays so
  while its way is not touched (`ResolveStays`), and what a rotation (`AliasRotated`), a
  deletion (`AliasDropped`) and an import (`AliasImported`) do to every walk.
* `AccountPool_proofs`, first half: `TypeOK`, `NoOrphanCount`, `CountWithinCap`.  The last
  needs that a new token has no count yet, which is `NoOrphanCount` for a token that is
  not issued; the inductive invariant adds that what is present was issued and that
  renewals are counted.
* `AccountPool_proofs`, second half: `SlotAccounting`, `AccountConcurrencyBound` and the
  action property `RotationKeepsRequest`.  `SlotInv` says that a request's tokens were
  issued, that the probe's token and the slot's lead to the same account entry, and
  that the holders of a token are as many as its count.  A rotation renames a token for
  all its holders at once and adds their number to the new one's count.
  `SlotsAreExact` is proved without failing saves and without the fallback proxy, and
  `AccountsWithinLimit`, which is about `SettledAccountBound`, without failing saves; both
  except accounts that were imported again under a running request.  These are the
  three paths on which `pool_cancelled_retry`, `pool_failed_save` and
  `AccountConcurrencyBound` break the statements, and the only ones.
* `Credentials_proofs`, on the queue: `QueueSound` and `JobsSound`.  Tokens are numbered
  upwards along aliases, and what waits is settled (`QInv`).  For the jobs (`JobsInv`) an
  account of the pool has one token there, to which all its aliases lead; a job that
  runs for it has a place among the active ones, and there are no more jobs than
  places, since a job gives back at most the one it was started with.
* `Credentials_proofs`, on the daemon: `OneDaemon` and the action property `DelaysKept`.
  Only the current thread is alive, and only a living thread is asking (`VisitorsRun`).
* `Calls_proofs`, on the renewal: `TypeOK`, `NobodyWaitsInVain`, `CredentialKept`.  The second
  needs that an owner finds its flight under its own credential.  The third needs that
  the lock's holder is the only one that spends a refresh token, that a login's
  credential is nobody's until it is applied, and that an answer about to be written
  is good, superseded by a login, or about to fail its comparison.
* `Credentials_proofs`, on logins: `LoginsMeetTheirSession`.  A code is spent by one
  exchange, so nobody else is past its exchange with it (`LoginInv`).

**Where accounts come from**

* `Services_proofs`, on the workers: `SoleHolder` and the action property `SubmittedOnce`.
  While nobody deals with the leases from outside, no lease is timed out and an address
  that is held is not free in the file of states (`SoleInv`).  So whoever takes the code
  of a mail that names its recipient is the only one at that address since it was
  leased, and has not seen the mail.
* `Credentials_proofs`, on mail sources: the action property `RejectedIsAvoided`.  What a
  worker has seen rejected is on the list until an administrator takes it off, and the
  last look before an address is used finds it (`SourcesInv`), for the domain itself and
  for the names above and below it.
* `Supply_proofs`, on imports: `JobsAreHonest`.  An import that nothing disturbed is the
  only one of its remote (`SoleInv`), so it reads what it wrote; the job with the report
  under way then shows what the import has dealt with (`Tally`).  A last report has a
  final status (`FinalInv`), and an export gives each account to one id at most, so that
  tokens are as many as the ids they came for or fewer; what was added is in the pool
  or has left it.

**Requests**

* `Supply_proofs`, on Firefly requests: `PlacesMatch` and `AttemptsBooked`.  What an attempt
  owes (its place, its account, its row) can be told from where it is (`FqOwes`).
* `Supply_proofs`, on the ledger: `NeverOvercharged`.  Daily rows and totals about to be
  written say no more than was used, there is one daily row per day and bucket, and
  details are as many as uses at most (`LedgerInv`).  A sum is written as the number of
  its units, for a sum over a set by recursion is beyond the provers; the credits
  charged are then shown to be no more than the uses by an injection.
* `Services_proofs`, on proxies: `PlacesAreHeld`.  At a node whose limit is edited, no more
  than k of the holders were admitted under a limit of at most k, for every k
  (`EgInv`); so the one admitted under the highest limit is within it.
* `Calls_proofs`, on the cache: `OneComputes` and `AnswersWhole`.  A computing caller's flight is
  the one that is registered, so there is one; an entry, and what those who wait are
  told, is whole (`WholeInv`), which needs that who is served or follows has someone to
  be served by, and that a lock that is owned, the cache's or a call's, is held at least
  once.
* `Calls_proofs`, on image calls: `ImagesAreWhole` and `CallsAreBooked`.  The invariant is about
  one call at a time (`CallInv`): what was sent and what is held is what the generator
  took; an image is taken when it is made; and a generator that has ended has no
  thread left that could enter the call again among the running ones (`Quiet`).
* `TextTurn_proofs`, on text requests: `FramesParse` and `TextIsTold`, for any words, texts,
  earlier messages and payloads of any length.  What a client knows from the frames it
  has is a state of its own: the blocks open and closed, the marks, the sum of the
  pieces.  `KnowsNext` says how one more frame changes it, and `FramesInv` what it must be
  at each step of the request; every action sends only frames that lead there.  For
  the text, what was read is what upstream said (`SaidInv`), unless that was one message
  equal to the whole history, which waits in `parse` to be told at the end (`Unread`);
  as long as the history is repeated, only the next earlier message can come
  (`ReplaysInv`).  With tools, what was shown is the text before the first call, or that
  but for spaces at its end (`ToolsShown`), and the text without calls begins with it.
  The lemmas say what each reading of a text does to its beginnings: the functions
  that read word by word are shown to exist and to be typed for texts of any length
  by looking at the least position where they would fail (`LeastNat`, `UpTo`).
* `TaskFiles_proofs`, on image turns: `TurnIsSound`.  What a turn knows before a recovery was
  told by its conversation (`OwnInv`), and while it polls, all it knows is its last hit,
  which has settled by its clock (`SettledInv`).

**Tasks and files**

* `Services_proofs`, on tasks: `TypeOK`, `TierExclusion`, `RunningIsReachable`, `StatusTellsProgress`,
  `EndedIsFinal`, `RegistryBounded`, `RecentKept`, `CancelledAfterWholeBatches`.  Exclusion
  follows from reachability: a running task is the one its tier points to.
  `RegistryBounded` counts the registry as the newest `Keep` tasks and at most one
  running task per tier, one of which is among them.  For the last, a batch that is
  not the task's last ends at a multiple of the size (`BatchEnds`).
* `TaskFiles_proofs`, on image tasks: `TypeOK`, `OneThreadPerTask`, `ShownIsStored`, and
  `Implements`, the refinement `Spec => KeepsPromise`.  It rests on `Pending`: between a
  change and its write the memory is one step of the board ahead of the file.
* `Services_proofs`, on the log: `DeletedIsShown`.  An id says what its line says
  (`LogLine`): one that was made up has the line's text in it, and the next rewrite
  writes it down.  So a line that carries an id that was shown is the line that was
  shown, wherever it is by now (`LogInv`).  What a rewrite keeps is defined by the
  numbers that stay, in their order (`InOrder`, which exists: `OrderExists`), as the
  provers know nothing of `SelectSeq`.
* `TaskFiles_proofs`, on exports: `ResultsAreOwn`.  A task chooses names in its own folder
  (`FolderInv`); unless it raced, the name it chose is still free and nobody else chose it
  (`TargetInv`); what is written is free for nobody, so the result of a task that did not
  race stays its own (`ResultInv`).
* `TaskFiles_proofs`, on JSON files: `WrittenIsRead`.  A whole file is never behind what
  was written last with success, and the backup is not behind either when the last
  write that came to it ended there (`FilesInv`); where the writer is tells which of them
  is new already (`WriterInv`).
* `Services_proofs`, on images: `StoredIsServed`.  A copy that is promised is on the server,
  in the index and in what a running sync will write over it (`CopyPromise`); a save
  that is about to write its entry has the copy it claims (`CopyMade`); only a deletion
  takes a copy, and takes its promise too (`DoomInv`).

What the theorems assume of the constants is named in each module (`...Assumption`):
bounds are natural numbers, sets that are counted are finite, and the values that
stand for "none" are no members of the sets they are told apart from.  `TextAssumption`
gives the shapes of requests and payloads, and says that an earlier message has a
text, as `assistant_history_messages` keeps no other; it says nothing of the words.

Proved and not run: the type invariants that have a theorem of their own
(`TypeCorrect`), `RunningIsReachable`, `StatusTellsProgress`, `EndedIsFinal`,
`RegistryBounded`, `RecentKept`, `NobodyWaitsInVain`.

Only model-checked: all liveness (`TasksEnd`, `StopEnds`, `VerificationHappens`,
`CallsReturn`, `EditableTasksEnd`), for fairness and ENABLED are out of the prover's
reach.  Every safety property that a passing run checks is proved.

## Not modelled

* Upstream clients, the wording of their requests and the classification of
  failures: the models branch on the outcome, any of which may come.
* Storage backends other than the JSON file: a save is one step, except where a
  failing save matters (`SaveMayFail`).  The git store's shared working directory is
  not modelled.
* Authentication, configuration and backup: records that are read and replaced whole;
  settings are constants.  Upscaling: one computation behind a request.  Runtime log,
  dashboard, catalogues and prompts observe or list.  Routes other than those named
  above pass their arguments on.  The console is outside the process.
* Parts of what is modelled: in the pool, selection by plan and source, the limit of
  twenty attempts of one selection, quotas as numbers, Codex accounts and deadlines;
  in `FireflyRequest`, catalogues, payloads, the buckets of the rate budget, and the
  handlers of a used-up quota and a bad token, which no error reaches; in
  `ProxyEgress`, clearance cookies and the probing of nodes; in `ImageTurn`, uploads, the
  Codex route and the parsing of events; in `EditableTasks`, the parsing of artifacts;
  in `RegisterWorker`, the HTTP dialogue and the matching of mails to addresses that
  contain one another; in `MailSources`, the reading of mailboxes; in
  `TextTurn`, the parsing of requests, usage counts and a client that leaves; in
  `ImageCall`, calls without a trace, durations, and the retries inside one image (which
  `AccountPool` has); in `Gallery`, zip downloads, statistics and filters.
