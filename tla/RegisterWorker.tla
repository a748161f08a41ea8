---------------------------- MODULE RegisterWorker ----------------------------
(***************************************************************************)
(* The workers that register accounts (services/register/openai_register)  *)
(* and the pool of Outlook mailboxes they take their addresses from        *)
(* (services/register/mail_provider.py, the provider "outlook_token").     *)
(*                                                                         *)
(* A worker leases an address, enters OpenAI's signup or login flow, waits *)
(* for the code that is mailed to the address, submits it, creates the     *)
(* account, marks the address and adds the account to the pool.  Several   *)
(* addresses may be aliases of one mailbox: their mails lie in one inbox   *)
(* and one credential reads it.  Mails come late or never, codes that are  *)
(* not the last are refused, leases of more than an hour are taken over,   *)
(* administrators reset states and import and prune credentials, and the   *)
(* process restarts.                                                       *)
(***************************************************************************)
EXTENDS Naturals

CONSTANTS
  MailWorker,    \* worker threads
  Address,       \* addresses, aliases included
  NoAddress,     \* no address
  Login(_),      \* the mailbox an address belongs to, itself an address
  Headers,       \* what messages tell: their recipients, their time, both or neither
  MaxSends,      \* bound: mails with a code
  MaxDeeds       \* bound: what administrators, the clock and restarts do

ASSUME RegisterWorkerAssumption ==
  /\ NoAddress \notin Address
  /\ \A a \in Address : Login(a) \in Address /\ Login(Login(a)) = Login(a)
  /\ Headers \subseteq [named : BOOLEAN, dated : BOOLEAN]
  /\ {MaxSends, MaxDeeds} \subseteq Nat

\* What a message in the mailbox tells of its recipients and its time may be missing.
Letter == [to : Address, number : 1..MaxSends]
Mail == [to : Address, number : 1..MaxSends, named : BOOLEAN, dated : BOOLEAN]
NoMail == [to |-> NoAddress, number |-> 0, named |-> FALSE, dated |-> FALSE]

\* OUTLOOK_CREDENTIAL_FATAL_STATES, OUTLOOK_REFRESHED_CREDENTIAL_RESET_STATES
Fatal == {"login_required", "token_invalid"}
Failure == Fatal \cup {"failed"}
State == Failure \cup {"unused", "in_use", "used"}

VARIABLES
  mailPool,   \* the imported credentials, by mailbox
  state,      \* the state file; no entry is "unused"
  stale,      \* addresses in use for an hour or more
  at,         \* where a worker is
  box,        \* the address it leased
  flow,       \* the flow OpenAI put it into
  retried,    \* it started its login anew
  error,      \* how its registration failed
  old,        \* mails that tell a time before its boundary
  seen,       \* _seen_code_message_refs, with the code it submits
  code,       \* the mail whose code it submits
  sent,       \* letters that were sent and not delivered (external)
  inbox,      \* mails in the mailboxes (external)
  lastSend,   \* the worker's last mail, whose code is accepted (external)
  sends,      \* mails sent so far
  deeds,      \* what administrators, the clock and restarts did so far
  touched,    \* a lease was ended or cleared from outside (history)
  consumed,   \* addresses registered since the last reset of everything (history)
  spent       \* mails whose code a worker has taken to submit it (history)

poolVars == <<mailPool, state, stale>>
workVars == <<at, box, flow, retried, error>>
codeVars == <<old, seen, code>>
mailVars == <<sent, inbox, lastSend, sends>>
historyVars == <<deeds, touched, consumed, spent>>
workerVars == <<poolVars, workVars, codeVars, mailVars, historyVars>>

Mailboxes == {a \in Address : Login(a) = a}

WorkerTypeOK ==
  /\ mailPool \subseteq Mailboxes
  /\ state \in [Address -> State]
  /\ stale \subseteq Address
  /\ at \in [MailWorker -> {"idle", "authorize", "send", "login", "wait", "validate", "create",
                        "exchange", "mark", "markFailed", "markLogin", "add", "verify"}]
  /\ box \in [MailWorker -> Address \cup {NoAddress}]
  /\ flow \in [MailWorker -> {"signup", "login"}]
  /\ retried \in [MailWorker -> BOOLEAN]
  /\ error \in [MailWorker -> Failure]
  /\ old \in [MailWorker -> SUBSET Mail] /\ seen \in [MailWorker -> SUBSET Mail]
  /\ code \in [MailWorker -> Mail \cup {NoMail}]
  /\ sent \subseteq Letter /\ inbox \subseteq Mail
  /\ lastSend \in [MailWorker -> 0..MaxSends] /\ sends \in 0..MaxSends
  /\ deeds \in 0..MaxDeeds /\ touched \in BOOLEAN
  /\ consumed \subseteq Address /\ spent \subseteq Mail

GotoStep(w, place) == at' = [at EXCEPT ![w] = place]

------------------------------------------------------------------------------
(* The pool of mailboxes *)

\* _outlook_entry_available
EntryAvailable(a) == state[a] = "unused" \/ (state[a] = "in_use" /\ a \in stale)

\* A faulty variant, for the mutation runs: an address in use is available.
AvailableIfBusy(a) == Login(a) \in mailPool /\ state[a] \in {"unused", "in_use"}

\* _outlook_credential_available: an address without an entry of its own inherits
\* a fatal state of its mailbox.
MailAvailable(a) ==
  /\ Login(a) \in mailPool
  /\ EntryAvailable(a)
  /\ state[a] = "unused" => state[Login(a)] \notin Fatal

\* _set_outlook_token_state
SetState(a, s) == state' = [state EXCEPT ![a] = s] /\ stale' = stale \ {a}

\* _message_before_code_boundary: a message that tells no time is never old.
Dated(mails) == {m \in mails : m.dated}

\* create_mailbox: mails from before are old.
Lease(w) ==
  /\ at[w] = "idle"
  /\ \E a \in Address :
       /\ MailAvailable(a)
       /\ SetState(a, "in_use")
       /\ box' = [box EXCEPT ![w] = a]
  /\ old' = [old EXCEPT ![w] = Dated(inbox)]
  /\ GotoStep(w, "authorize")
  /\ UNCHANGED <<mailPool, flow, retried, error, seen, code, mailVars, historyVars>>

------------------------------------------------------------------------------
(* A registration *)

\* An exception ends the registration.
Fails(w, errors) ==
  /\ \E e \in errors : error' = [error EXCEPT ![w] = e]
  /\ GotoStep(w, "markFailed")

\* _received_after, five seconds before now: mails that just came are not old.
SetBoundary(w) ==
  \E recent \in SUBSET Dated(inbox) : old' = [old EXCEPT ![w] = @ \cup (Dated(inbox) \ recent)]

\* OpenAI mails a code; the codes of earlier mails are no longer accepted.
MailCode(w) ==
  /\ sends < MaxSends /\ sends' = sends + 1
  /\ sent' = sent \cup {[to |-> box[w], number |-> sends']}
  /\ lastSend' = [lastSend EXCEPT ![w] = sends']
  /\ UNCHANGED inbox

\* _platform_authorize, after a challenge perhaps once more: it lands in the login
\* flow, in a signup that has mailed a code already, or in one that has not.
Authorize(w) ==
  /\ at[w] = "authorize"
  /\ SetBoundary(w)
  /\ \/ Fails(w, {"failed"}) /\ UNCHANGED <<flow, mailVars>>
     \/ /\ flow' = [flow EXCEPT ![w] = "login"] /\ GotoStep(w, "login")
        /\ UNCHANGED <<error, mailVars>>
     \/ /\ flow' = [flow EXCEPT ![w] = "signup"]
        /\ \/ GotoStep(w, "wait") /\ MailCode(w)
           \/ GotoStep(w, "send") /\ UNCHANGED mailVars
        /\ UNCHANGED error
  /\ UNCHANGED <<poolVars, box, retried, seen, code, historyVars>>

\* _start_passwordless_signup
StartSignup(w) ==
  /\ at[w] = "send"
  /\ SetBoundary(w)
  /\ \/ Fails(w, {"failed"}) /\ UNCHANGED mailVars
     \/ GotoStep(w, "wait") /\ MailCode(w) /\ UNCHANGED error
  /\ UNCHANGED <<poolVars, box, flow, retried, seen, code, historyVars>>

\* _authorize_continue_login, then _send_passwordless_otp; a retried login authorizes
\* anew before.
StartLogin(w) ==
  /\ at[w] = "login"
  /\ SetBoundary(w)
  /\ \/ Fails(w, {"failed", "login_required"}) /\ UNCHANGED mailVars
     \/ GotoStep(w, "wait") /\ MailCode(w) /\ UNCHANGED error
  /\ UNCHANGED <<poolVars, box, flow, retried, seen, code, historyVars>>

\* fetch_recent_messages: aliases share the mailbox.
MessagesOf(w) == {m \in inbox : Login(m.to) = Login(box[w])}

\* A faulty variant, for the mutation runs: the mails of all aliases.
MatchesAny(m, a) == TRUE

\* _message_matches_email: a message without recipients matches any address.
MatchesEmail(m, a) == m.named => m.to = a

\* The mails whose code wait_for_code returns.
Candidates(w) == {m \in MessagesOf(w) : MatchesEmail(m, box[w]) /\ m \notin old[w] /\ m \notin seen[w]}

\* wait_for_code: a new mail with a code for the address, or the time is up, or the
\* mailbox cannot be read.
WaitForCode(w) ==
  /\ at[w] = "wait"
  /\ \/ \E m \in Candidates(w) :
          /\ seen' = [seen EXCEPT ![w] = @ \cup {m}]
          /\ code' = [code EXCEPT ![w] = m]
          /\ spent' = spent \cup {m}
          /\ GotoStep(w, "validate") /\ UNCHANGED error
     \/ Fails(w, {"failed", "token_invalid"}) /\ UNCHANGED <<seen, code, spent>>
  /\ UNCHANGED <<poolVars, box, flow, retried, old, mailVars, deeds, touched, consumed>>

\* validate_otp.  A login whose session ended is started once more.
Validate(w) ==
  /\ at[w] = "validate"
  /\ \/ /\ code[w].number = lastSend[w]
        /\ \/ GotoStep(w, "create")
           \/ flow[w] = "login" /\ GotoStep(w, "exchange")
        /\ UNCHANGED <<retried, error>>
     \/ /\ flow[w] = "login" /\ ~retried[w]
        /\ retried' = [retried EXCEPT ![w] = TRUE]
        /\ GotoStep(w, "login") /\ UNCHANGED error
     \/ Fails(w, {"failed"}) /\ UNCHANGED retried
  /\ UNCHANGED <<poolVars, box, flow, codeVars, mailVars, historyVars>>

CreateAccount(w) ==
  /\ at[w] = "create"
  /\ Fails(w, {"failed"}) \/ (GotoStep(w, "exchange") /\ UNCHANGED error)
  /\ UNCHANGED <<poolVars, box, flow, retried, codeVars, mailVars, historyVars>>

\* _exchange_registered_tokens or exchange_tokens_from_continue_url; an error text
\* that says "access_token" counts as the mailbox's.
ExchangeTokens(w) ==
  /\ at[w] = "exchange"
  /\ Fails(w, {"failed", "token_invalid"}) \/ (GotoStep(w, "mark") /\ UNCHANGED error)
  /\ UNCHANGED <<poolVars, box, flow, retried, codeVars, mailVars, historyVars>>

\* mark_mailbox_result
MarkUsed(w) ==
  /\ at[w] = "mark" /\ GotoStep(w, "add")
  /\ SetState(box[w], "used")
  /\ consumed' = consumed \cup {box[w]}
  /\ UNCHANGED <<mailPool, box, flow, retried, error, codeVars, mailVars, deeds, touched, spent>>

\* The worker ends, and what it knew goes with it.
Leave(w) ==
  /\ GotoStep(w, "idle")
  /\ box' = [box EXCEPT ![w] = NoAddress]
  /\ flow' = [flow EXCEPT ![w] = "signup"]
  /\ retried' = [retried EXCEPT ![w] = FALSE]
  /\ error' = [error EXCEPT ![w] = "failed"]
  /\ old' = [old EXCEPT ![w] = {}] /\ seen' = [seen EXCEPT ![w] = {}]
  /\ code' = [code EXCEPT ![w] = NoMail]

\* A failure that is the mailbox's is marked there too, in a second step.
MarkFailed(w) ==
  /\ at[w] = "markFailed"
  /\ SetState(box[w], error[w])
  /\ IF error[w] \in Fatal /\ Login(box[w]) # box[w]
       THEN GotoStep(w, "markLogin") /\ UNCHANGED <<box, flow, retried, error, codeVars>>
       ELSE Leave(w)
  /\ UNCHANGED <<mailPool, mailVars, historyVars>>

MarkLogin(w) ==
  /\ at[w] = "markLogin"
  /\ SetState(Login(box[w]), error[w])
  /\ Leave(w)
  /\ UNCHANGED <<mailPool, mailVars, historyVars>>

\* add_account_items; then _verify_and_fix, which cannot log an Outlook account in
\* again and gives up at a refusal.
AddAccount(w) ==
  /\ at[w] = "add" /\ GotoStep(w, "verify")
  /\ UNCHANGED <<poolVars, box, flow, retried, error, codeVars, mailVars, historyVars>>

Verify(w) ==
  /\ at[w] = "verify" /\ Leave(w)
  /\ UNCHANGED <<poolVars, mailVars, historyVars>>

------------------------------------------------------------------------------
(* Mails, time, administrators, restarts *)

Deliver ==
  /\ \E l \in sent, h \in Headers :
       /\ sent' = sent \ {l}
       /\ inbox' = inbox \cup {[to |-> l.to, number |-> l.number, named |-> h.named, dated |-> h.dated]}
  /\ UNCHANGED <<poolVars, workVars, codeVars, lastSend, sends, historyVars>>

Deed == deeds < MaxDeeds /\ deeds' = deeds + 1
TouchLeases == Deed /\ touched' = TRUE

HourPasses ==
  /\ TouchLeases
  /\ \E a \in Address : state[a] = "in_use" /\ a \notin stale /\ stale' = stale \cup {a}
  /\ UNCHANGED <<mailPool, state, workVars, codeVars, mailVars, consumed, spent>>

\* clear_outlook_token_states and reset_outlook_token_pool_state
Clear(addresses, states) ==
  LET cleared == {a \in addresses : state[a] \in states}
  IN  /\ state' = [a \in Address |-> IF a \in cleared THEN "unused" ELSE state[a]]
      /\ stale' = stale \ cleared

\* reset_outlook_pool
ResetPool ==
  /\ TouchLeases
  /\ \E scope \in {{"in_use", "failed"}, Fatal, State} :
       /\ Clear(Address, scope)
       /\ consumed' = IF scope = State THEN {} ELSE consumed
  /\ UNCHANGED <<mailPool, workVars, codeVars, mailVars, spent>>

\* _merge_outlook_pools: a new credential, or another one for a mailbox; the failures
\* of that mailbox and its aliases are forgotten.
ImportCredential ==
  /\ TouchLeases
  /\ \E a \in Mailboxes :
       mailPool' = mailPool \cup {a} /\ Clear({b \in Address : Login(b) = a}, Failure)
  /\ UNCHANGED <<workVars, codeVars, mailVars, consumed, spent>>

\* _prune_unused_outlook_pools
PrunePool ==
  /\ Deed /\ UNCHANGED touched
  /\ mailPool' = {a \in mailPool : \E b \in Address : Login(b) = a /\ state[b] # "unused"}
  /\ UNCHANGED <<state, stale, workVars, codeVars, mailVars, consumed, spent>>

RestartWorkers ==
  /\ Deed /\ UNCHANGED touched
  /\ at' = [w \in MailWorker |-> "idle"] /\ box' = [w \in MailWorker |-> NoAddress]
  /\ flow' = [w \in MailWorker |-> "signup"] /\ retried' = [w \in MailWorker |-> FALSE]
  /\ error' = [w \in MailWorker |-> "failed"]
  /\ old' = [w \in MailWorker |-> {}] /\ seen' = [w \in MailWorker |-> {}]
  /\ code' = [w \in MailWorker |-> NoMail]
  /\ UNCHANGED <<poolVars, mailVars, consumed, spent>>

WorkerInit ==
  /\ mailPool = Mailboxes /\ state = [a \in Address |-> "unused"] /\ stale = {}
  /\ at = [w \in MailWorker |-> "idle"] /\ box = [w \in MailWorker |-> NoAddress]
  /\ flow = [w \in MailWorker |-> "signup"] /\ retried = [w \in MailWorker |-> FALSE]
  /\ error = [w \in MailWorker |-> "failed"]
  /\ old = [w \in MailWorker |-> {}] /\ seen = [w \in MailWorker |-> {}]
  /\ code = [w \in MailWorker |-> NoMail]
  /\ sent = {} /\ inbox = {} /\ lastSend = [w \in MailWorker |-> 0] /\ sends = 0
  /\ deeds = 0 /\ touched = FALSE /\ consumed = {} /\ spent = {}

Registers(w) ==
  \/ Lease(w) \/ Authorize(w) \/ StartSignup(w) \/ StartLogin(w) \/ WaitForCode(w)
  \/ Validate(w) \/ CreateAccount(w) \/ ExchangeTokens(w) \/ MarkUsed(w)
  \/ MarkFailed(w) \/ MarkLogin(w) \/ AddAccount(w) \/ Verify(w)

WorkerNext ==
  \/ \E w \in MailWorker : Registers(w)
  \/ Deliver \/ HourPasses \/ ResetPool \/ ImportCredential \/ PrunePool \/ RestartWorkers

WorkerSpec == WorkerInit /\ [][WorkerNext]_workerVars

------------------------------------------------------------------------------
(* Properties *)

\* Unless a lease grew older than an hour or the states were cleared, two workers never
\* work with one address, though each of them only looks at a file of states, aliases
\* share states with their mailbox, failures are written in two steps, credentials are
\* pruned and the process restarts.
SoleHolder ==
  /\ WorkerTypeOK
  /\ ~touched => \A v, w \in MailWorker : v # w /\ box[v] # NoAddress => box[v] # box[w]

\* Under the same condition the code of a mail that names its recipient is submitted
\* once, by whichever worker: although aliases share an inbox, a login that is started
\* anew leaves the earlier mails where they are, mails come late, those without a time
\* pass the boundary, and a restart forgets which mails were seen (wait_for_code).
SubmittedOnce ==
  [][~touched =>
       \A w \in MailWorker :
         at[w] = "wait" /\ at'[w] = "validate" /\ code'[w].named => code'[w] \notin spent]_workerVars

\* "used must not be cleared, so that a mailbox that was consumed is not taken again"
\* (clear_outlook_token_states): no registration is started for an address that has
\* been registered, unless everything was reset.  Not so, says TLC: a login that
\* fails at an alias marks the mailbox too, and a reset of failures frees it.
NeverTakenAgain ==
  [][\A w \in MailWorker : at[w] = "idle" /\ at'[w] = "authorize" =>
       box'[w] \notin consumed]_workerVars
=============================================================================
