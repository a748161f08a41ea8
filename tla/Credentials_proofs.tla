------------------------- MODULE Credentials_proofs --------------------------
(***************************************************************************)
(* Proofs about the parts of MCCredentials: the daemon that renews Firefly *)
(* credentials, the verification queue, logins by hand, and the blacklist  *)
(* of mail domains.                                                        *)
(***************************************************************************)
EXTENDS FireflyRefresh, FailureRefresh, OAuthLogin, MailSources, TokenAlias_proofs,
        SequenceTheorems, FiniteSetTheorems, TLAPS

------------------------------------------------------------------------------
(* The credential daemon (FireflyRefresh)                                  *)
(*                                                                         *)
(* Proofs about the credential daemon: for any number of accounts, threads *)
(* and tokens, one thread at most runs, and whoever is asked about is past *)
(* its delay and asked about by nobody else.                               *)
(*                                                                         *)
(* The module keeps the only thread that may run in _thread: it is forgot- *)
(* ten by Stopped and replaced by Spawn, both of which look whether it     *)
(* still runs.  A thread in the middle of a renewal runs, so two renewals  *)
(* would be two threads.                                                   *)

USE FireflyRefreshAssumption

\* Only a thread that runs is asking about an account.
VisitorsRun == \A t \in FfThread : visiting[t] # Idle => t \in alive

FfInv == FfTypeOK /\ alive \subseteq {current} /\ VisitorsRun

------------------------------------------------------------------------------
(* Types *)

\* The records after one of them was changed, if it is still there.
LEMMA UpdateTypes ==
  ASSUME FfTypeOK, NEW a \in FfAccount, NEW r,
         a \in DOMAIN record => r \in FfRecord,
         record' = IF a \in DOMAIN record THEN [record EXCEPT ![a] = r] ELSE record
  PROVE  /\ DOMAIN record' \subseteq FfAccount
         /\ \A b \in DOMAIN record' : record'[b] \in FfRecord
  BY DEF FfTypeOK

LEMMA FfInitTypes == FfInit => FfTypeOK
  <1> SUFFICES ASSUME FfInit PROVE FfTypeOK
    OBVIOUS
  <1>1. started \in BOOLEAN /\ stopping \in BOOLEAN
    BY DEF FfInit
  <1>2. [status |-> "normal", token |-> 0, expiryOf |-> 0] \in FfRecord
    BY DEF FfRecord, FfStatus, FfToken
  <1> QED
    BY <1>1, <1>2 DEF FfInit, FfTypeOK, FfToken, Backoffs

LEMMA SeenIsNotIdle == \A seen \in Seen \cup {Idle} : seen # Idle => seen \in Seen
  OBVIOUS

\* A visit that ends, well or badly, keeps the types.
LEMMA VisitTypes ==
  ASSUME FfTypeOK, NEW t \in FfThread, Renewed(t) \/ RefreshFails(t)
  PROVE  FfTypeOK'
  <1> DEFINE seen == visiting[t]
  <1>1. seen \in Seen
    BY SeenIsNotIdle DEF FfTypeOK, Renewed, RefreshFails
  <1>2. seen.account \in FfAccount
    BY <1>1 DEF Seen
  <1>3. visiting' \in [FfThread -> Seen \cup {Idle}]
    BY DEF FfTypeOK, Renewed, RefreshFails
  <1>4. waiting' \subseteq FfAccount
    BY <1>2 DEF FfTypeOK, Renewed, RefreshFails
  <1>5. CASE Renewed(t)
    <2>1. ffIssued[seen.account] + 1 \in FfToken
      BY <1>5 DEF Renewed
    <2> DEFINE r == [record[seen.account] EXCEPT !.status = "normal",
                                                 !.expiryOf = ffIssued[seen.account] + 1]
    <2>2. seen.account \in DOMAIN record => r \in FfRecord
      BY <2>1 DEF FfTypeOK, FfRecord, FfStatus
    <2>3. record' = IF seen.account \in DOMAIN record
                      THEN [record EXCEPT ![seen.account] = r] ELSE record
      BY <1>5 DEF Renewed, UpdateRecord
    <2>4. /\ DOMAIN record' \subseteq FfAccount
          /\ \A a \in DOMAIN record' : record'[a] \in FfRecord
      <3> HIDE DEF r
      <3> QED
        BY <1>2, <2>2, <2>3, UpdateTypes
    <2>5. /\ ffIssued' \in [FfAccount -> FfToken]
          /\ ffFailures' \in [FfAccount -> 0..Backoffs]
      BY <1>5, <1>2, <2>1 DEF Renewed, FfTypeOK, Backoffs
    <2>6. UNCHANGED <<expiring, alive, current, started, stopping, manager, snapshot>>
      BY <1>5 DEF Renewed, daemonVars
    <2> QED
      BY <1>3, <1>4, <2>4, <2>5, <2>6 DEF FfTypeOK
  <1>6. CASE RefreshFails(t)
    <2> DEFINE r == [record[seen.account] EXCEPT !.status = "abnormal"]
    <2>1. seen.account \in DOMAIN record => r \in FfRecord
      BY DEF FfTypeOK, FfRecord, FfStatus
    <2>2. \/ UNCHANGED record
          \/ record' = IF seen.account \in DOMAIN record
                         THEN [record EXCEPT ![seen.account] = r] ELSE record
      BY <1>6 DEF RefreshFails, UpdateRecord
    <2>3. /\ DOMAIN record' \subseteq FfAccount
          /\ \A a \in DOMAIN record' : record'[a] \in FfRecord
      <3>1. CASE UNCHANGED record
        BY <3>1 DEF FfTypeOK
      <3>2. CASE record' = IF seen.account \in DOMAIN record
                             THEN [record EXCEPT ![seen.account] = r] ELSE record
        <4> HIDE DEF r
        <4> QED
          BY <3>2, <1>2, <2>1, UpdateTypes
      <3> QED
        BY <3>1, <3>2, <2>2
    <2>4. ffFailures' \in [FfAccount -> 0..Backoffs]
      BY <1>6, <1>2 DEF RefreshFails, FfTypeOK, Backoffs
    <2>5. UNCHANGED <<ffIssued, expiring, alive, current, started, stopping, manager,
                      snapshot>>
      BY <1>6 DEF RefreshFails, daemonVars, adobeVars
    <2> QED
      BY <1>3, <1>4, <2>3, <2>4, <2>5 DEF FfTypeOK
  <1> QED
    BY <1>5, <1>6

LEMMA FfStepTypes == FfTypeOK /\ [FfNext]_ffVars => FfTypeOK'
  <1> SUFFICES ASSUME FfTypeOK, [FfNext]_ffVars PROVE FfTypeOK'
    OBVIOUS
  <1> USE DEF FfTypeOK, adobeVars, scheduleVars, daemonVars
  <1>1. CASE UNCHANGED ffVars
    BY <1>1 DEF ffVars
  <1>2. ASSUME NEW t \in FfThread, Look(t) PROVE FfTypeOK'
    <2>1. {[account |-> a, rec |-> record[a]] : a \in DOMAIN record} \in SUBSET Seen
      BY DEF Seen
    <2>2. snapshot' \in [FfThread -> SUBSET Seen]
      BY <1>2, <2>1 DEF Look
    <2> QED
      BY <1>2, <2>2 DEF Look
  <1>3. ASSUME NEW t \in FfThread, Ask(t) PROVE FfTypeOK'
    BY <1>3 DEF Ask
  <1>4. ASSUME NEW t \in FfThread, Skip(t) PROVE FfTypeOK'
    BY <1>4 DEF Skip, Seen
  <1>5. ASSUME NEW t \in FfThread, Renewed(t) \/ RefreshFails(t) PROVE FfTypeOK'
    BY <1>5, VisitTypes
  <1>6. ASSUME NEW t \in FfThread, Leave(t) PROVE FfTypeOK'
    BY <1>6 DEF Leave
  <1>7. CASE StartCalled
    BY <1>7 DEF StartCalled
  <1>8. CASE Spawn
    BY <1>8 DEF Spawn
  <1>9. CASE StopCalled
    BY <1>9 DEF StopCalled
  <1>10. CASE Stopped
    BY <1>10 DEF Stopped
  <1>11. CASE RunOut
    BY <1>11 DEF RunOut, FfToken
  <1>12. CASE DelayOver
    BY <1>12 DEF DelayOver
  <1>13. CASE EditAccount
    BY <1>13 DEF EditAccount, FfRecord
  <1>14. CASE RemoveAccount
    BY <1>14 DEF RemoveAccount
  <1> QED
    BY <1>1, <1>2, <1>3, <1>4, <1>5, <1>6, <1>7, <1>8, <1>9, <1>10, <1>11, <1>12, <1>13,
       <1>14 DEF FfNext

------------------------------------------------------------------------------
(* One daemon *)

LEMMA FfInitInv == FfInit => FfInv
  BY FfInitTypes DEF FfInit, FfInv, VisitorsRun

LEMMA FfStepInv == FfInv /\ [FfNext]_ffVars => FfInv'
  <1> SUFFICES ASSUME FfInv, [FfNext]_ffVars PROVE FfInv'
    OBVIOUS
  <1>0. FfTypeOK'
    BY FfStepTypes DEF FfInv
  <1> SUFFICES (alive \subseteq {current} /\ VisitorsRun)'
    BY <1>0 DEF FfInv
  <1> USE DEF FfInv, FfTypeOK, VisitorsRun, daemonVars
  <1>1. CASE UNCHANGED ffVars
    BY <1>1 DEF ffVars
  <1>2. ASSUME NEW t \in FfThread, Look(t) \/ Skip(t) PROVE (alive \subseteq {current} /\ VisitorsRun)'
    BY <1>2 DEF Look, Skip
  <1>3. ASSUME NEW t \in FfThread, Ask(t) PROVE (alive \subseteq {current} /\ VisitorsRun)'
    BY <1>3 DEF Ask
  <1>4. ASSUME NEW t \in FfThread, Renewed(t) \/ RefreshFails(t)
        PROVE  (alive \subseteq {current} /\ VisitorsRun)'
    BY <1>4 DEF Renewed, RefreshFails
  <1>5. ASSUME NEW t \in FfThread, Leave(t) PROVE (alive \subseteq {current} /\ VisitorsRun)'
    BY <1>5 DEF Leave
  <1>6. CASE StartCalled \/ StopCalled
    BY <1>6 DEF StartCalled, StopCalled
  <1>7. CASE Spawn
    <2>1. CASE current \in alive
      BY <1>7, <2>1 DEF Spawn
    <2>2. CASE current \notin alive
      <3>1. alive = {}
        BY <2>2
      <3>2. \A t \in FfThread : visiting[t] = Idle
        BY <3>1
      <3> QED
        BY <1>7, <2>2, <3>1, <3>2 DEF Spawn
    <2> QED
      BY <2>1, <2>2
  <1>8. CASE Stopped
    BY <1>8 DEF Stopped
  <1>9. CASE RunOut \/ DelayOver \/ EditAccount \/ RemoveAccount
    BY <1>9 DEF RunOut, DelayOver, EditAccount, RemoveAccount
  <1> QED
    BY <1>1, <1>2, <1>3, <1>4, <1>5, <1>6, <1>7, <1>8, <1>9 DEF FfNext

LEMMA FfInvariance == FfSpec => []FfInv
  BY FfInitInv, FfStepInv, PTL DEF FfSpec

\* Starting and stopping the daemon, in any rhythm and with threads that hang in a
\* request for as long as they like, never leaves two of them running.
THEOREM FfOneDaemon == FfSpec => []OneDaemon
  <1>1. FfInv => OneDaemon
    BY DEF FfInv, OneDaemon
  <1> QED
    BY <1>1, FfInvariance, PTL

\* An account is only asked about when its delay is over, and by one thread at a
\* time.
LEMMA AskKeepsDelays ==
  ASSUME FfInv, [FfNext]_ffVars, NEW t \in FfThread,
         visiting'[t] # Idle, visiting'[t] # visiting[t]
  PROVE  /\ visiting'[t].account \notin waiting
         /\ \A u \in FfThread \ {t} : visiting'[u] = Idle
  <1> USE DEF FfInv, FfTypeOK, daemonVars
  <1>1. PICK s \in FfThread : Ask(s)
    <2>1. ASSUME NEW s \in FfThread,
                 Look(s) \/ Skip(s) \/ Renewed(s) \/ RefreshFails(s) \/ Leave(s)
          PROVE  visiting'[t] = Idle \/ visiting'[t] = visiting[t]
      BY <2>1 DEF Look, Skip, Renewed, RefreshFails, Leave
    <2>2. CASE \/ UNCHANGED ffVars \/ StartCalled \/ Spawn \/ StopCalled \/ Stopped
               \/ RunOut \/ DelayOver \/ EditAccount \/ RemoveAccount
      BY <2>2 DEF ffVars, StartCalled, Spawn, StopCalled, Stopped, RunOut, DelayOver,
                  EditAccount, RemoveAccount
    <2> QED
      BY <2>1, <2>2 DEF FfNext
  <1>2. s = t
    BY <1>1 DEF Ask
  <1>3. visiting'[t].account \notin waiting
    BY <1>1, <1>2 DEF Ask
  <1>4. \A u \in FfThread \ {t} : u \notin alive
    BY <1>1, <1>2 DEF Ask
  <1>5. \A u \in FfThread \ {t} : visiting[u] = Idle
    BY <1>4 DEF VisitorsRun
  <1>6. \A u \in FfThread \ {t} : visiting'[u] = visiting[u]
    BY <1>1, <1>2 DEF Ask
  <1> QED
    BY <1>3, <1>5, <1>6

\* The back-off is never cut short, not even by a restart of the daemon in the
\* middle of a visit.
THEOREM FfDelaysKept == FfSpec => DelaysKept
  <1>1. FfInv /\ [FfNext]_ffVars =>
          [\A t \in FfThread : visiting'[t] # Idle /\ visiting'[t] # visiting[t] =>
             /\ visiting'[t].account \notin waiting
             /\ \A u \in FfThread \ {t} : visiting'[u] = Idle]_ffVars
    BY AskKeepsDelays
  <1> QED
    BY <1>1, FfInvariance, PTL DEF FfSpec, DelaysKept

------------------------------------------------------------------------------
(* Logins by hand (OAuthLogin)                                             *)
(*                                                                         *)
(* A code is spent by the one exchange that takes it on, so that no other  *)
(* request is past its exchange with it; and it is added only after that.  *)

PastExchange == {"consume", "add", "refresh"}

LoginInv ==
  /\ LoginTypeOK /\ LoginsMeetTheirSession
  /\ \A f \in LoginThread : finish[f] \in PastExchange => code[f] \in spent
  /\ \A f \in LoginThread : finish[f] # "idle" => code[f] \in issued

LEMMA LoginInitInv == LoginInit => LoginInv
  <1> SUFFICES ASSUME LoginInit PROVE LoginInv
    OBVIOUS
  <1>1. 0 \in 0..MaxTime /\ 0 \in 0..MaxStarted
    BY OAuthLoginAssumption
  <1> QED BY <1>1 DEF LoginInit, LoginInv, LoginTypeOK, LoginsMeetTheirSession, PastExchange

LEMMA LoginStepInv == LoginInv /\ [LoginNext]_loginVars => LoginInv'
  <1> SUFFICES ASSUME LoginInv, [LoginNext]_loginVars PROVE LoginInv'
    OBVIOUS
  <1> USE DEF LoginInv, LoginTypeOK, LoginsMeetTheirSession, PastExchange, threadVars
  <1>p. Purged \subseteq Session
    BY DEF Purged, Fresh
  <1>1. CASE UNCHANGED loginVars
    BY <1>1 DEF loginVars
  <1>2. CASE StartLogin
    <2>1. pages + 1 \in Session /\ pages + 1 \in 0..MaxStarted
      BY <1>2, OAuthLoginAssumption DEF StartLogin, Session
    <2> QED BY <1>2, <1>p, <2>1 DEF StartLogin
  <1>3. CASE LoginTick
    <2>1. time + 1 \in 0..MaxTime
      BY <1>3, OAuthLoginAssumption DEF LoginTick
    <2> QED BY <1>3, <2>1 DEF LoginTick
  <1>4. ASSUME NEW s \in Session, Visit(s) PROVE LoginInv'
    BY <1>4 DEF Visit, Code
  <1>5. ASSUME NEW f \in LoginThread, Paste(f) PROVE LoginInv'
    <2>1. CASE UNCHANGED threadVars
      BY <1>5, <1>p, <2>1 DEF Paste
    <2>2. CASE ~UNCHANGED threadVars
      <3>1. PICK c \in issued, withState \in BOOLEAN, body \in 0..pages :
              LET s == Candidate(c, withState, body) IN
              /\ Accepts(c, withState, s)
              /\ finish' = [finish EXCEPT ![f] = "exchange"] /\ code' = [code EXCEPT ![f] = c]
              /\ stated' = [stated EXCEPT ![f] = withState] /\ picked' = [picked EXCEPT ![f] = s]
        BY <1>5, <2>2 DEF Paste
      <3> DEFINE s == Candidate(c, withState, body)
      <3>2. s \in Session \cup {NoSession} /\ (withState => s = c.page)
        BY <1>p, <3>1 DEF Candidate, Accepts
      <3> HIDE DEF s
      <3>3. /\ finish' = [finish EXCEPT ![f] = "exchange"] /\ code' = [code EXCEPT ![f] = c]
            /\ stated' = [stated EXCEPT ![f] = withState] /\ picked' = [picked EXCEPT ![f] = s]
            /\ sessions' = Purged /\ UNCHANGED <<created, pages, issued, spent, added, time>>
        BY <1>5, <3>1 DEF Paste, s
      <3>4. LoginTypeOK'
        BY <1>p, <3>2, <3>3
      <3> QED BY <3>2, <3>3, <3>4
    <2> QED BY <2>1, <2>2
  <1>6. ASSUME NEW f \in LoginThread, Exchange(f) PROVE LoginInv'
    <2> USE <1>6
    <2>c. code[f] \in Code \cup {NoCode} /\ finish[f] = "exchange"
      BY DEF Exchange
    <2>1. CASE /\ code[f].page = picked[f] /\ code[f] \notin spent /\ spent' = spent \cup {code[f]}
               /\ finish' = [finish EXCEPT ![f] = "consume"] /\ UNCHANGED <<code, stated, picked>>
      <3>1. UNCHANGED <<sessions, created, pages, issued, added, time>>
        BY DEF Exchange
      <3>2. code[f] \in issued
        BY <2>c
      <3>3. \A g \in LoginThread \ {f} : finish'[g] = finish[g]
        BY <2>1
      <3>4. \A g \in LoginThread \ {f} : finish[g] \in PastExchange => code[g] # code[f]
        BY <2>1
      <3>5. LoginTypeOK'
        BY <2>1, <3>1, <3>2
      <3>6. LoginsMeetTheirSession'
        BY <2>1, <2>c, <3>1, <3>3, <3>4
      <3> QED BY <2>1, <3>1, <3>3, <3>5, <3>6
    <2>2. CASE Answer(f) /\ (spent' = spent \/ spent' = spent \cup {code[f]})
      <3>1. UNCHANGED <<sessions, created, pages, issued, added, time>>
        BY DEF Exchange
      <3>3. finish'[f] = "idle" /\ \A g \in LoginThread \ {f} :
              finish'[g] = finish[g] /\ code'[g] = code[g] /\ stated'[g] = stated[g] /\ picked'[g] = picked[g]
        BY <2>2 DEF Answer
      <3>5. LoginTypeOK'
        BY <2>2, <2>c, <3>1 DEF Answer
      <3>6. LoginsMeetTheirSession'
        BY <2>2, <3>1, <3>3
      <3>7. spent \subseteq spent' /\ issued' = issued
        BY <2>2, <3>1
      <3> QED BY <3>3, <3>5, <3>6, <3>7
    <2> QED BY <1>6, <2>1, <2>2 DEF Exchange
  <1>7. ASSUME NEW f \in LoginThread, Consume(f) PROVE LoginInv'
    BY <1>7 DEF Consume
  <1>8. ASSUME NEW f \in LoginThread, AddAccount(f) PROVE LoginInv'
    BY <1>8 DEF AddAccount
  <1>9. ASSUME NEW f \in LoginThread, AnswerLogin(f) PROVE LoginInv'
    BY <1>9 DEF AnswerLogin, Answer
  <1> QED BY <1>1, <1>2, <1>3, <1>4, <1>5, <1>6, <1>7, <1>8, <1>9 DEF LoginNext

\* A code pasted with its address is exchanged with the secret of its own page, and an
\* account comes from a code that was exchanged just for it, by one request
\* (oauth_login_service.finish and its route).
THEOREM LoginsAreSound == LoginSpec => []LoginsMeetTheirSession
  <1>1. LoginInv => LoginsMeetTheirSession
    BY DEF LoginInv
  <1> QED BY <1>1, LoginInitInv, LoginStepInv, PTL DEF LoginSpec

------------------------------------------------------------------------------
(* The blacklist of mail domains (MailSources)                             *)
(*                                                                         *)
(* What a worker has seen rejected is an entry of the blacklist until an   *)
(* administrator takes it away, and no source without a blacklist has any; *)
(* the last look at the list before an address is used finds the entry.    *)

BanOf(d) == [base |-> d, wild |-> FALSE]

Places == {"idle", "next", "make", "record", "made", "has", "ban", "mark"}

SourcesInv ==
  /\ \A e \in rejected : ~Excluded(e[1]) /\ <<e[1], BanOf(e[2])>> \in blacklist
  /\ \A e \in rejected : e = <<e[1], e[2]>>
  /\ \A w \in MailTaker : takes[w] = "ban" => ~Excluded(source[w])
  /\ takes \in [MailTaker -> Places] /\ DOMAIN source = MailTaker
  /\ warned \in [MailTaker -> SUBSET rejected]

LEMMA SourcesInitInv == SourcesInit => SourcesInv
  BY DEF SourcesInit, SourcesInv, Places

\* A step of one worker that leaves the list and the rejections alone, and does not
\* lead to an entry.
QuietStep(w) ==
  /\ UNCHANGED <<blacklist, rejected>>
  /\ \E place \in Places \ {"ban"} : takes' = [takes EXCEPT ![w] = place]
  /\ source' = source \/ \E s : source' = [source EXCEPT ![w] = s]
  /\ warned' = warned \/ \E known \in SUBSET rejected : warned' = [warned EXCEPT ![w] = known]

LEMMA QuietStepInv ==
  ASSUME SourcesInv, NEW w \in MailTaker, QuietStep(w)
  PROVE  SourcesInv'
  <1>1. takes' \in [MailTaker -> Places] /\ DOMAIN source' = MailTaker
    BY DEF SourcesInv, QuietStep
  <1>2. warned' \in [MailTaker -> SUBSET rejected]
    BY DEF SourcesInv, QuietStep
  <1>3. ASSUME NEW v \in MailTaker, takes'[v] = "ban" PROVE ~Excluded(source'[v])
    <2>1. v # w /\ takes[v] = "ban"
      BY <1>3 DEF SourcesInv, QuietStep
    <2>2. source'[v] = source[v]
      BY <2>1 DEF SourcesInv, QuietStep
    <2> QED BY <2>1, <2>2 DEF SourcesInv
  <1> QED BY <1>1, <1>2, <1>3 DEF SourcesInv, QuietStep, Excluded

\* Making an address is a quiet step, whatever the kind of the source.
LEMMA MakesQuietly ==
  ASSUME SourcesInv, NEW w \in MailTaker, NEW kind, Makes(w, kind),
         \/ GoOn(w)
         \/ \E d : Made(w, d)
         \/ GotoTake(w, "record")
  PROVE  QuietStep(w)
  BY DEF Makes, GoOn, Made, GotoTake, QuietStep, Places, listVars

LEMMA TakesQuietly ==
  ASSUME SourcesInv, NEW w \in MailTaker, Takes(w), ~BanDomain(w)
  PROVE  QuietStep(w) \/ Rejected(w)
  <1>e. ASSUME EndTaking(w), warned' = [warned EXCEPT ![w] = {}], UNCHANGED <<listVars, rejected>>
        PROVE  QuietStep(w)
    BY <1>e DEF EndTaking, GotoTake, QuietStep, Places, listVars
  <1>1. CASE StartTaking(w)
    BY <1>1 DEF StartTaking, GotoTake, QuietStep, Places, listVars
  <1>2. CASE NextSource(w)
    <2>1. CASE NextEntry \in sourcesTried[w]
      <3>1. takes' = [takes EXCEPT ![w] = "next"]
        BY <1>2, <2>1 DEF NextSource, SourcesInv
      <3> QED BY <1>2, <2>1, <3>1 DEF NextSource, QuietStep, Places, listVars
    <2>2. CASE NextEntry \notin sourcesTried[w]
      BY <1>2, <2>2 DEF NextSource, GotoTake, QuietStep, Places, listVars
    <2> QED BY <2>1, <2>2
  <1>3. CASE GiveUpTaking(w) \/ MakeFails(w) \/ Registered(w) \/ MarkRejected(w)
    BY <1>3, <1>e DEF GiveUpTaking, MakeFails, Registered, MarkRejected
  <1>4. CASE CheckMade(w)
    BY <1>4 DEF CheckMade, GotoTake, QuietStep, Places, listVars
  <1>5. CASE OutlookEmailApi(w)
    <2>1. CASE source[w] \in leased
      BY <1>5, <2>1, <1>e DEF OutlookEmailApi
    <2>2. CASE source[w] \notin leased
      BY <1>5, <2>2 DEF OutlookEmailApi, Made, GotoTake, QuietStep, Places, listVars
    <2> QED BY <2>1, <2>2
  <1>6. CASE RecordAlias(w)
    BY <1>6 DEF RecordAlias, Made, GotoTake, QuietStep, Places, listVars
  <1>7. CASE \/ CloudflareTempMail(w) \/ MoEmail(w) \/ CloudMailGen(w) \/ Inbucket(w) \/ TempMailLol(w)
             \/ DuckMail(w) \/ GptMail(w) \/ Ahem(w) \/ JoveMail(w) \/ YydsMail(w) \/ DDGMail(w)
    <2>1. ASSUME NEW patterns, NextDomain(w, patterns) \/ SubdomainOf(w, patterns)
          PROVE  GoOn(w) \/ \E d : Made(w, d)
      BY <2>1 DEF NextDomain, SubdomainOf
    <2>2. ServerPicks(w) \/ FixedDomain(w) => GoOn(w) \/ \E d : Made(w, d)
      BY DEF ServerPicks, FixedDomain
    <2>3. PICK kind : Makes(w, kind)
      BY <1>7 DEF CloudflareTempMail, MoEmail, CloudMailGen, Inbucket, TempMailLol, DuckMail, GptMail,
                  Ahem, JoveMail, YydsMail, DDGMail
    <2>4. GoOn(w) \/ (\E d : Made(w, d)) \/ GotoTake(w, "record")
      BY <1>7, <2>1, <2>2 DEF CloudflareTempMail, MoEmail, CloudMailGen, Inbucket, TempMailLol, DuckMail,
                  GptMail, Ahem, JoveMail, YydsMail, DDGMail
    <2> QED BY <2>3, <2>4, MakesQuietly
  <1> QED BY <1>1, <1>2, <1>3, <1>4, <1>5, <1>6, <1>7 DEF Takes

\* Entries that go take the rejections they stand for with them.
LEMMA ForgetInv ==
  ASSUME SourcesInv, Forget(blacklist \ blacklist'), UNCHANGED <<takes, source>>
  PROVE  SourcesInv'
  <1> DEFINE lost == {<<e[1], e[2].base>> : e \in blacklist \ blacklist'}
  <1>1. rejected' = rejected \ lost /\ warned' = [w \in MailTaker |-> warned[w] \ lost]
    BY DEF Forget
  <1>2. ASSUME NEW e \in rejected' PROVE <<e[1], BanOf(e[2])>> \in blacklist'
    <2>1. e \in rejected /\ e \notin lost /\ e = <<e[1], e[2]>>
      BY <1>1 DEF SourcesInv
    <2> DEFINE entry == <<e[1], BanOf(e[2])>>
    <2>2. entry \in blacklist
      BY <2>1 DEF SourcesInv
    <2>3. entry[1] = e[1] /\ entry[2].base = e[2]
      BY DEF BanOf
    <2>4. entry \notin blacklist'  => <<entry[1], entry[2].base>> \in lost
      BY <2>2
    <2> QED BY <2>1, <2>3, <2>4
  <1> HIDE DEF lost
  <1>3. warned' \in [MailTaker -> SUBSET rejected']
    BY <1>1 DEF SourcesInv
  <1>4. rejected' \subseteq rejected
    BY <1>1
  <1> QED BY <1>2, <1>3, <1>4 DEF SourcesInv, Excluded

LEMMA SourcesStepInv == SourcesInv /\ [SourcesNext]_msVars => SourcesInv'
  <1> SUFFICES ASSUME SourcesInv, [SourcesNext]_msVars PROVE SourcesInv'
    OBVIOUS
  <1>1. ASSUME UNCHANGED <<rejected, warned, takes, source>>, blacklist \subseteq blacklist'
        PROVE  SourcesInv'
    BY <1>1 DEF SourcesInv, Excluded
  <1>2. CASE UNCHANGED msVars
    BY <1>1, <1>2 DEF msVars, listVars, takeVars
  <1>3. CASE BanByHand \/ DamageList \/ Reconfigure
    BY <1>1, <1>3 DEF BanByHand, DamageList, Reconfigure, takerVars, takeVars
  <1>4. CASE Unban
    <2>1. PICK e \in blacklist : blacklist' = blacklist \ {e} /\ Forget({e})
      BY <1>4 DEF Unban
    <2>2. blacklist \ blacklist' = {e}
      BY <2>1
    <2>3. Forget(blacklist \ blacklist')
      BY <2>1, <2>2
    <2> QED BY <1>4, <2>3, ForgetInv DEF Unban, takerVars, takeVars
  <1>5. CASE ReplaceBans
    BY <1>5, ForgetInv DEF ReplaceBans, takerVars, takeVars
  <1>6. ASSUME NEW w \in MailTaker, Takes(w) PROVE SourcesInv'
    <2>1. CASE BanDomain(w)
      <3>1. takes' = [takes EXCEPT ![w] = "mark"] /\ UNCHANGED <<source, warned>>
        BY <2>1 DEF BanDomain, GotoTake
      <3>2. CASE ~blacklistOk
        <4>1. UNCHANGED <<blacklist, rejected>>
          BY <2>1, <3>2 DEF BanDomain
        <4> QED BY <3>1, <4>1, QuietStepInv DEF QuietStep, Places
      <3>3. CASE blacklistOk
        <4>1. /\ blacklist' = blacklist \cup {<<source[w], BanOf(domain[w])>>}
              /\ rejected' = rejected \cup {<<source[w], domain[w]>>}
          BY <2>1, <3>3 DEF BanDomain, BanOf
        <4>2. ~Excluded(source[w])
          BY <2>1 DEF BanDomain, SourcesInv
        <4>3. takes' \in [MailTaker -> Places] /\ \A v \in MailTaker : takes'[v] = "ban" => takes[v] = "ban"
          BY <3>1 DEF SourcesInv, Places
        <4>4. \A e \in rejected' : ~Excluded(e[1]) /\ <<e[1], BanOf(e[2])>> \in blacklist' /\ e = <<e[1], e[2]>>
          BY <4>1, <4>2 DEF SourcesInv
        <4> QED BY <3>1, <4>1, <4>3, <4>4 DEF SourcesInv, Excluded
      <3> QED BY <3>2, <3>3
    <2>2. CASE Rejected(w)
      <3>1. /\ takes' = [takes EXCEPT ![w] = IF Excluded(source[w]) THEN "mark" ELSE "ban"]
            /\ UNCHANGED <<source, warned, blacklist, rejected>>
        BY <2>2 DEF Rejected, GotoTake, listVars
      <3>2. takes' \in [MailTaker -> Places]
        BY <3>1 DEF SourcesInv, Places
      <3>3. \A v \in MailTaker : takes'[v] = "ban" => ~Excluded(source[v])
        BY <3>1 DEF SourcesInv
      <3> QED BY <3>1, <3>2, <3>3 DEF SourcesInv, Excluded
    <2> QED BY <1>6, <2>1, <2>2, TakesQuietly, QuietStepInv
  <1> QED BY <1>2, <1>3, <1>4, <1>5, <1>6 DEF SourcesNext

\* The entry of a rejection is found by the last look, also for a name below or above it.
LEMMA RejectionBans ==
  ASSUME SourcesInv, NEW s, NEW n, NEW d, d \in Above(n) \/ n \in Above(d), <<s, d>> \in rejected
  PROVE  IsBanned(s, n)
  <1> DEFINE entry == <<s, BanOf(d)>>
  <1>1. entry \in blacklist /\ ~Excluded(s)
    BY DEF SourcesInv
  <1>2. BanOf(d) \in Bans(s)
    BY <1>1 DEF Bans
  <1>3. LET p == [base |-> n, wild |-> FALSE] IN Matches(p, BanOf(d)) \/ ConfigBlocked(p, BanOf(d))
    BY DEF Matches, ConfigBlocked, BanOf
  <1> QED BY <1>1, <1>2, <1>3 DEF IsBanned

\* An address is used only after the last look at the blacklist.
LEMMA UsesChecked ==
  ASSUME SourcesInv, [SourcesNext]_msVars, NEW w \in MailTaker, takes[w] = "made", takes'[w] = "has"
  PROVE  ~IsBanned(source[w], domain[w])
  <1>1. PICK v \in MailTaker : Takes(v)
    BY DEF SourcesNext, msVars, takeVars, takerVars, BanByHand, Unban, ReplaceBans, DamageList, Reconfigure
  <1>2. v = w
    <2>1. ASSUME v # w PROVE FALSE
      <3>1. QuietStep(v) \/ Rejected(v) \/ BanDomain(v)
        BY <1>1, TakesQuietly
      <3>2. takes'[w] = takes[w]
        BY <2>1, <3>1 DEF QuietStep, Rejected, BanDomain, GotoTake, SourcesInv
      <3> QED BY <3>2
    <2> QED BY <2>1
  <1>3. CheckMade(w)
    BY <1>1, <1>2 DEF Takes, StartTaking, NextSource, GiveUpTaking, CloudflareTempMail, MoEmail, CloudMailGen,
        Inbucket, TempMailLol, DuckMail, GptMail, Ahem, JoveMail, YydsMail, DDGMail, RecordAlias, Makes,
        OutlookEmailApi, MakeFails, Registered, Rejected, BanDomain, MarkRejected
  <1>4. ASSUME IsBanned(source[w], domain[w]) PROVE FALSE
    BY <1>3, <1>4 DEF CheckMade, GotoTake, SourcesInv
  <1> QED BY <1>4

\* A domain that OpenAI rejected is not tried again at that source, nor a name below or
\* above it, by a worker that began after the rejection was entered (create_mailbox,
\* ban_domain_for_provider).
THEOREM RejectedIsAvoidedAlways == SourcesSpec => RejectedIsAvoided
  <1>1. SourcesInv /\ [SourcesNext]_msVars =>
          [\A w \in MailTaker, d \in MailDomain :
             takes[w] = "made" /\ takes'[w] = "has" /\ <<source[w], d>> \in warned[w] =>
               d \notin Above(domain[w]) /\ domain[w] \notin Above(d)]_msVars
    <2> SUFFICES ASSUME SourcesInv, [SourcesNext]_msVars,
                        NEW w \in MailTaker, takes[w] = "made", takes'[w] = "has",
                        NEW d \in MailDomain, <<source[w], d>> \in warned[w],
                        d \in Above(domain[w]) \/ domain[w] \in Above(d)
                 PROVE  FALSE
      OBVIOUS
    <2>1. <<source[w], d>> \in rejected
      BY DEF SourcesInv
    <2> QED BY <2>1, RejectionBans, UsesChecked
  <1> QED BY <1>1, SourcesInitInv, SourcesStepInv, PTL DEF SourcesSpec, RejectedIsAvoided

------------------------------------------------------------------------------
(* The verification queue (FailureRefresh)                                 *)
(*                                                                         *)
(* Aliases lead from an older token to a newer one, so that every walk     *)
(* ends at a token that is settled; that token stays settled for as long   *)
(* as it waits, because a renewal rewrites it in the queue and a deletion  *)
(* takes its aliases along.  A new token is in no part of the queue, for   *)
(* all of its tokens were issued before.                                   *)

IssuedTokens == {t \in Token : t[2] <= renewals}

Ascending == \A t \in DOMAIN aliases : t[2] < aliases[t][2]

WaitingSettled == \A t \in pendingSet : AliasHop(present, aliases, t) = t

TokensIssued ==
  /\ present \subseteq IssuedTokens /\ pendingSet \subseteq IssuedTokens
  /\ AliasNodes(aliases) \subseteq IssuedTokens
  /\ \A t \in Token : reported[t] > 0 \/ launching[t] > 0 \/ probing[t] > 0 => t \in IssuedTokens

QInv == TypeOK /\ QueueConsistent /\ Ascending /\ WaitingSettled /\ TokensIssued

LEMMA QInitInv == Init => QInv
  <1> SUFFICES ASSUME Init PROVE QInv
    OBVIOUS
  <1>1. 0 \in 0..MaxRenewals /\ 0 \in 0..MaxFailures
    BY QueueAssumption
  <1>2. present \subseteq Token /\ present \subseteq IssuedTokens
    BY <1>1 DEF Init, Token, IssuedTokens
  <1>3. TypeOK
    BY <1>1, <1>2 DEF Init, TypeOK, NoJobs
  <1>4. RangeOf(pending) = {}
    BY DEF Init, RangeOf
  <1> QED BY <1>2, <1>3, <1>4
          DEF Init, QInv, QueueConsistent, Ascending, WaitingSettled, TokensIssued, AliasNodes, NoJobs

\* Tokens come to a settled one, that was issued.
LEMMA CurrentSettles ==
  ASSUME QInv, NEW t \in IssuedTokens
  PROVE  /\ Current(t) \in IssuedTokens
         /\ AliasHop(present, aliases, Current(t)) = Current(t)
  <1> DEFINE number == [x \in Token |-> x[2]]
  <1>1. \A x \in AliasNodes(aliases) : number[x] \in 0..MaxRenewals
    BY DEF QInv, TokensIssued, IssuedTokens, Token
  <1>2. \A x \in DOMAIN aliases : number[x] < number[aliases[x]]
    BY DEF QInv, Ascending, TypeOK
  <1>3. MaxRenewals \in Nat
    BY QueueAssumption
  <1> HIDE DEF number
  <1>4. AliasHop(present, aliases, Resolve(present, aliases, t)) = Resolve(present, aliases, t)
    BY <1>1, <1>2, <1>3, WalkSettles
  <1>5. Current(t) \in {t} \cup AliasNodes(aliases)
    BY ResolveInNodes DEF Current
  <1> QED BY <1>4, <1>5 DEF Current, QInv, TokensIssued

\* What a sequence holds after one more, without its first and after a rewriting.
LEMMA AppendedRange ==
  ASSUME NEW T, NEW seq \in Seq(T), NEW t \in T, t \notin RangeOf(seq),
         \A i, j \in DOMAIN seq : seq[i] = seq[j] => i = j
  PROVE  /\ Append(seq, t) \in Seq(T)
         /\ RangeOf(Append(seq, t)) = RangeOf(seq) \cup {t}
         /\ \A i, j \in DOMAIN Append(seq, t) : Append(seq, t)[i] = Append(seq, t)[j] => i = j
  <1> DEFINE s == Append(seq, t)
  <1>1. /\ Len(seq) \in Nat /\ DOMAIN seq = 1..Len(seq) /\ s \in Seq(T)
        /\ DOMAIN s = 1..(Len(seq) + 1) /\ s[Len(seq) + 1] = t
        /\ \A i \in 1..Len(seq) : s[i] = seq[i]
    OBVIOUS
  <1> HIDE DEF s
  <1>2. \A i \in DOMAIN s : i = Len(seq) + 1 \/ i \in DOMAIN seq
    BY <1>1
  <1>3. RangeOf(s) = RangeOf(seq) \cup {t}
    <2>1. DOMAIN seq \subseteq DOMAIN s /\ Len(seq) + 1 \in DOMAIN s
      BY <1>1
    <2> QED BY <1>1, <1>2, <2>1 DEF RangeOf
  <1>4. \A i, j \in DOMAIN s : s[i] = s[j] => i = j
    BY <1>1, <1>2 DEF RangeOf
  <1> QED BY <1>1, <1>3, <1>4 DEF s

LEMMA TailRange ==
  ASSUME NEW T, NEW seq \in Seq(T), seq # <<>>,
         \A i, j \in DOMAIN seq : seq[i] = seq[j] => i = j
  PROVE  /\ Head(seq) \in RangeOf(seq) /\ Tail(seq) \in Seq(T)
         /\ RangeOf(Tail(seq)) = RangeOf(seq) \ {Head(seq)}
         /\ \A i, j \in DOMAIN Tail(seq) : Tail(seq)[i] = Tail(seq)[j] => i = j
  <1>1. /\ Len(seq) \in Nat \ {0} /\ DOMAIN seq = 1..Len(seq) /\ Head(seq) = seq[1]
        /\ Tail(seq) \in Seq(T) /\ DOMAIN Tail(seq) = 1..(Len(seq) - 1)
        /\ \A i \in 1..(Len(seq) - 1) : Tail(seq)[i] = seq[i + 1]
    OBVIOUS
  <1>2. \A i, j \in DOMAIN Tail(seq) : Tail(seq)[i] = Tail(seq)[j] => i = j
    BY <1>1
  <1>3. \A i \in DOMAIN Tail(seq) : Tail(seq)[i] \in RangeOf(seq) \ {Head(seq)}
    BY <1>1 DEF RangeOf
  <1>4. ASSUME NEW i \in DOMAIN seq, seq[i] # Head(seq) PROVE seq[i] \in RangeOf(Tail(seq))
    <2>1. i - 1 \in DOMAIN Tail(seq) /\ Tail(seq)[i - 1] = seq[i]
      BY <1>1, <1>4
    <2> QED BY <2>1 DEF RangeOf
  <1>5. Head(seq) \in RangeOf(seq)
    BY <1>1 DEF RangeOf
  <1> QED BY <1>1, <1>2, <1>3, <1>4, <1>5 DEF RangeOf

LEMMA RewrittenRange ==
  ASSUME NEW T, NEW seq \in Seq(T), NEW old, NEW new \in T, new \notin RangeOf(seq),
         \A i, j \in DOMAIN seq : seq[i] = seq[j] => i = j,
         NEW s, s = [i \in DOMAIN seq |-> IF seq[i] = old THEN new ELSE seq[i]]
  PROVE  /\ s \in Seq(T)
         /\ RangeOf(s) \subseteq (RangeOf(seq) \ {old}) \cup {new}
         /\ old \notin RangeOf(seq) => RangeOf(s) = RangeOf(seq)
         /\ \A i, j \in DOMAIN s : s[i] = s[j] => i = j
  <1>1. DOMAIN seq = 1..Len(seq) /\ Len(seq) \in Nat /\ \A i \in DOMAIN seq : seq[i] \in T
    OBVIOUS
  <1>2. s \in Seq(T)
    BY <1>1
  <1>3. DOMAIN s = DOMAIN seq
    OBVIOUS
  <1>4. RangeOf(s) \subseteq (RangeOf(seq) \ {old}) \cup {new}
    BY <1>3 DEF RangeOf
  <1>5. old \notin RangeOf(seq) => s = seq
    BY <1>1 DEF RangeOf
  <1>6. ASSUME NEW i \in DOMAIN s, NEW j \in DOMAIN s, s[i] = s[j] PROVE i = j
    BY <1>3, <1>6 DEF RangeOf
  <1> QED BY <1>2, <1>4, <1>5, <1>6

\* A token joins the queue, as Schedule and EndJob have it.
LEMMA EnqueueInv ==
  ASSUME QInv, NEW t \in IssuedTokens, Current(t) \notin pendingSet, Enqueue(Current(t)),
         UNCHANGED pool
  PROVE  /\ pending' \in Seq(Token) /\ pendingSet' \subseteq IssuedTokens
         /\ QueueConsistent' /\ WaitingSettled'
  <1> DEFINE c == Current(t)
  <1>1. c \in IssuedTokens /\ c \in Token /\ AliasHop(present, aliases, c) = c
    BY CurrentSettles DEF IssuedTokens
  <1> HIDE DEF c
  <1>2. pending' = Append(pending, c) /\ pendingSet' = pendingSet \cup {c} /\ c \notin pendingSet
    BY DEF Enqueue, c
  <1>3. pending \in Seq(Token) /\ pendingSet = RangeOf(pending)
        /\ \A i, j \in DOMAIN pending : pending[i] = pending[j] => i = j
    BY DEF QInv, TypeOK, QueueConsistent
  <1>4. /\ pending' \in Seq(Token) /\ RangeOf(pending') = RangeOf(pending) \cup {c}
        /\ \A i, j \in DOMAIN pending' : pending'[i] = pending'[j] => i = j
    BY <1>1, <1>2, <1>3, AppendedRange
  <1>5. QueueConsistent'
    BY <1>2, <1>3, <1>4 DEF QueueConsistent, RangeOf
  <1>6. WaitingSettled'
    BY <1>1, <1>2 DEF QInv, WaitingSettled, pool
  <1> QED BY <1>1, <1>2, <1>4, <1>5, <1>6 DEF QInv, TokensIssued

LEMMA QueueStepTypes ==
  ASSUME QInv, NEW t \in Token,
         RecordFailure(t) \/ Schedule(t) \/ Launch(t) \/ LaunchFails(t) \/ EndJob(t) \/ Delete(t) \/ LeaveLoop
  PROVE  /\ present' \subseteq Token /\ renewals' = renewals /\ failures' \in 0..MaxFailures
         /\ reported' \in [Token -> Nat] /\ active' \subseteq Token /\ rerun' \subseteq Token
         /\ loops' \in Nat /\ launching' \in [Token -> Nat] /\ probing' \in [Token -> Nat]
         /\ owed' \subseteq Account /\ disturbed' \subseteq Account
  <1> USE DEF QInv, TypeOK, pool
  <1>o. Owner(t) \in Account /\ \A x \in present : Owner(x) \in Account
    BY DEF Owner, Token
  <1>1. CASE RecordFailure(t)
    <2>1. failures + 1 \in 0..MaxFailures
      BY <1>1, QueueAssumption DEF RecordFailure
    <2> QED BY <1>1, <2>1 DEF RecordFailure
  <1>2. CASE Schedule(t)
    <2>1. reported[t] - 1 \in Nat
      <3>1. reported[t] > 0
        BY <1>2 DEF Schedule
      <3>2. reported[t] \in Nat
        OBVIOUS
      <3> QED BY <3>1, <3>2
    <2>e. reported' = [reported EXCEPT ![t] = reported[t] - 1]
      BY <1>2 DEF Schedule
    <2>2. reported' \in [Token -> Nat]
      BY <2>1, <2>e
    <2> DEFINE c == Current(t)
               ongoing == {x \in active : Current(x) = c}
    <2>3. owed' = owed \/ (c \in present /\ owed' = owed \cup {Owner(c)})
      BY <1>2 DEF Schedule
    <2>4. rerun' = rerun \/ \E x \in ongoing : rerun' = rerun \cup {x}
      BY <1>2 DEF Schedule
    <2>5. loops' = loops \/ loops' = loops + 1
      BY <1>2 DEF Schedule
    <2>6. UNCHANGED <<pool, failures, active, launching, probing, disturbed>>
      BY <1>2 DEF Schedule
    <2>7. ongoing \subseteq active
      OBVIOUS
    <2> HIDE DEF c, ongoing
    <2>8. owed' \subseteq Account
      BY <1>o, <2>3
    <2>9. rerun' \subseteq Token
      BY <2>4, <2>7
    <2>10. loops' \in Nat
      BY <2>5
    <2>11. /\ present' \subseteq Token /\ renewals' = renewals /\ failures' \in 0..MaxFailures
           /\ active' \subseteq Token /\ launching' \in [Token -> Nat] /\ probing' \in [Token -> Nat]
           /\ disturbed' \subseteq Account
      BY <2>6
    <2> QED BY <2>2, <2>8, <2>9, <2>10, <2>11
  <1>3. CASE Launch(t)
    <2>1. launching[t] - 1 \in Nat /\ probing[t] + 1 \in Nat
      BY <1>3 DEF Launch
    <2>2. launching' \in [Token -> Nat] /\ probing' \in [Token -> Nat]
      BY <1>3, <2>1 DEF Launch
    <2> QED BY <1>3, <2>2 DEF Launch
  <1>4. CASE LaunchFails(t)
    <2>1. launching[t] - 1 \in Nat
      BY <1>4 DEF LaunchFails
    <2> QED BY <1>4, <2>1 DEF LaunchFails
  <1>5. CASE EndJob(t)
    <2>1. probing[t] - 1 \in Nat
      BY <1>5 DEF EndJob
    <2> QED BY <1>5, <2>1 DEF EndJob
  <1>6. CASE Delete(t)
    BY <1>6 DEF Delete
  <1>7. CASE LeaveLoop
    <2>1. loops - 1 \in Nat
      BY <1>7 DEF LeaveLoop
    <2> QED BY <1>7, <2>1 DEF LeaveLoop
  <1> QED BY <1>1, <1>2, <1>3, <1>4, <1>5, <1>6, <1>7

\* A step that neither renews nor deletes, and leaves the queue as it was or one longer.
LEMMA PoolStillInv ==
  ASSUME QInv, NEW t \in IssuedTokens, UNCHANGED pool,
         \/ UNCHANGED <<pending, pendingSet>>
         \/ Current(t) \notin pendingSet /\ Enqueue(Current(t)),
         \A x \in Token : reported'[x] > 0 \/ launching'[x] > 0 \/ probing'[x] > 0 =>
           x = t \/ reported[x] > 0 \/ launching[x] > 0 \/ probing[x] > 0
  PROVE  /\ pending' \in Seq(Token) /\ pendingSet' \subseteq Token
         /\ QueueConsistent' /\ Ascending' /\ WaitingSettled' /\ TokensIssued'
  <1>1. IssuedTokens' = IssuedTokens /\ Ascending'
    BY DEF pool, IssuedTokens, QInv, Ascending
  <1>2. /\ pending' \in Seq(Token) /\ pendingSet' \subseteq IssuedTokens
        /\ QueueConsistent' /\ WaitingSettled'
    <2>1. CASE UNCHANGED <<pending, pendingSet>>
      BY <2>1 DEF QInv, TypeOK, QueueConsistent, RangeOf, WaitingSettled, TokensIssued, pool
    <2> QED BY <2>1, EnqueueInv
  <1>3. TokensIssued'
    BY <1>1, <1>2 DEF QInv, TokensIssued, AliasNodes, pool
  <1> QED BY <1>1, <1>2, <1>3 DEF IssuedTokens

LEMMA QuietJobInv ==
  ASSUME QInv, NEW t \in Token,
         RecordFailure(t) \/ Schedule(t) \/ Launch(t) \/ LaunchFails(t) \/ EndJob(t)
  PROVE  QInv'
  <1>1. t \in IssuedTokens
    BY DEF QInv, TokensIssued, RecordFailure, Schedule, Launch, LaunchFails, EndJob
  <1>2. UNCHANGED pool
    BY DEF RecordFailure, Schedule, Launch, LaunchFails, EndJob
  <1>3. \/ UNCHANGED <<pending, pendingSet>>
        \/ Current(t) \notin pendingSet /\ Enqueue(Current(t))
    BY DEF RecordFailure, Schedule, Launch, LaunchFails, EndJob
  <1>4. \A x \in Token \ {t} : reported'[x] = reported[x] /\ launching'[x] = launching[x] /\ probing'[x] = probing[x]
    BY DEF RecordFailure, Schedule, Launch, LaunchFails, EndJob, QInv, TypeOK
  <1>5. /\ pending' \in Seq(Token) /\ pendingSet' \subseteq Token
        /\ QueueConsistent' /\ Ascending' /\ WaitingSettled' /\ TokensIssued'
    BY <1>1, <1>2, <1>3, <1>4, PoolStillInv
  <1>6. TypeOK'
    BY <1>2, <1>5, QueueStepTypes DEF QInv, TypeOK, pool
  <1> QED BY <1>5, <1>6 DEF QInv

\* Nothing happens to the pool, the queue and the jobs.
LEMMA QStillInv ==
  ASSUME QInv, UNCHANGED <<pool, pending, pendingSet, reported, launching, probing>>, TypeOK'
  PROVE  QInv'
  <1>1. AliasNodes(aliases)' = AliasNodes(aliases) /\ IssuedTokens' = IssuedTokens
    BY DEF pool, AliasNodes, IssuedTokens
  <1>2. TokensIssued'
    BY <1>1 DEF pool, QInv, TokensIssued
  <1>3. QueueConsistent'
    BY DEF QInv, QueueConsistent, RangeOf
  <1>4. Ascending' /\ WaitingSettled'
    BY DEF pool, QInv, Ascending, WaitingSettled
  <1> QED BY <1>2, <1>3, <1>4 DEF QInv

LEMMA PopInv == ASSUME QInv, LeaveLoop \/ PopNext PROVE QInv'
  <1>1. CASE LeaveLoop
    <2>1. loops - 1 \in Nat
      BY <1>1 DEF LeaveLoop, QInv, TypeOK
    <2>2. TypeOK'
      BY <1>1, <2>1 DEF LeaveLoop, pool, QInv, TypeOK
    <2> QED BY <1>1, <2>2, QStillInv DEF LeaveLoop
  <1>2. CASE PopNext
    <2> DEFINE h == Head(pending)
    <2>1. /\ pending' = Tail(pending) /\ pendingSet' = pendingSet \ {h} /\ active' = active \cup {h}
          /\ launching' = [launching EXCEPT ![h] = @ + 1] /\ loops' = loops - 1 /\ loops > 0 /\ pending # <<>>
          /\ UNCHANGED <<pool, failures, reported, rerun, probing, owed, disturbed>>
      BY <1>2 DEF PopNext
    <2>2. pending \in Seq(Token) /\ pendingSet = RangeOf(pending)
          /\ \A i, j \in DOMAIN pending : pending[i] = pending[j] => i = j
      BY DEF QInv, TypeOK, QueueConsistent
    <2>3. /\ h \in RangeOf(pending) /\ pending' \in Seq(Token) /\ RangeOf(pending') = RangeOf(pending) \ {h}
          /\ \A i, j \in DOMAIN pending' : pending'[i] = pending'[j] => i = j
      BY <2>1, <2>2, TailRange
    <2> HIDE DEF h
    <2>4. QueueConsistent'
      BY <2>1, <2>2, <2>3 DEF QueueConsistent, RangeOf
    <2>5. h \in IssuedTokens /\ h \in Token
      BY <2>2, <2>3 DEF QInv, TokensIssued, IssuedTokens
    <2>6. loops - 1 \in Nat
      BY <2>1 DEF QInv, TypeOK
    <2>7. launching' \in [Token -> Nat]
      BY <2>1, <2>5 DEF QInv, TypeOK
    <2>8. TypeOK'
      BY <2>1, <2>3, <2>5, <2>6, <2>7 DEF QInv, TypeOK, pool
    <2>9. \A x \in Token : launching'[x] > 0 => x = h \/ launching[x] > 0
      BY <2>1 DEF QInv, TypeOK
    <2>10. IssuedTokens' = IssuedTokens
      BY <2>1 DEF IssuedTokens, pool
    <2>11. TokensIssued'
      BY <2>1, <2>5, <2>9, <2>10 DEF QInv, TokensIssued, AliasNodes, pool
    <2> QED BY <2>1, <2>4, <2>8, <2>11 DEF QInv, Ascending, WaitingSettled, pool
  <1> QED BY <1>1, <1>2

LEMMA DeleteInv == ASSUME QInv, NEW t \in Token, Delete(t) PROVE QInv'
  <1>1. /\ present' = present \ {t} /\ aliases' = ForgetAliases(aliases, {t})
        /\ UNCHANGED <<renewals, failures, reported, pending, pendingSet, active, rerun,
                       loops, launching, probing, owed, disturbed>>
    BY DEF Delete
  <1>2. /\ DOMAIN aliases' \subseteq DOMAIN aliases
        /\ \A x \in DOMAIN aliases' : aliases'[x] = aliases[x] /\ x # t
    BY <1>1 DEF ForgetAliases
  <1>3. WaitingSettled'
    BY <1>1, <1>2 DEF QInv, WaitingSettled, AliasHop, Ascending, TypeOK
  <1>4. TypeOK' /\ QueueConsistent' /\ Ascending'
    BY <1>1, <1>2 DEF QInv, TypeOK, QueueConsistent, RangeOf, Ascending
  <1>5. TokensIssued'
    <2>1. IssuedTokens' = IssuedTokens
      BY <1>1 DEF IssuedTokens
    <2>2. AliasNodes(aliases') \subseteq AliasNodes(aliases)
      BY <1>2 DEF AliasNodes
    <2>3. TokensIssued => TokensIssued'
      BY <1>1, <2>1, <2>2 DEF TokensIssued
    <2> QED BY <2>3 DEF QInv
  <1> QED BY <1>3, <1>4, <1>5 DEF QInv

LEMMA RenewInv == ASSUME QInv, NEW old \in Token, Renew(old) PROVE QInv'
  <1> DEFINE new == <<Owner(old), renewals + 1>>
             rewritten(S) == {IF t = old THEN new ELSE t : t \in S}
  <1>1. /\ old \in present /\ renewals' = renewals + 1 /\ present' = rewritten(present)
        /\ aliases' = AliasTo(aliases, old, new)
        /\ pending' = [i \in DOMAIN pending |-> IF pending[i] = old THEN new ELSE pending[i]]
        /\ pendingSet' = IF old \in pendingSet \cup RangeOf(pending) THEN RangeOf(pending') ELSE pendingSet
        /\ active' = rewritten(active) /\ rerun' = rewritten(rerun)
        /\ disturbed' = IF old \in active THEN disturbed \cup {Owner(old)} ELSE disturbed
        /\ UNCHANGED <<failures, reported, loops, launching, probing, owed>>
    BY DEF Renew
  <1>2. renewals + 1 \in 0..MaxRenewals /\ renewals \in Nat /\ renewals < MaxRenewals
    BY QueueAssumption DEF Renew, QInv, TypeOK
  <1>3. new \in Token /\ new \notin IssuedTokens /\ Owner(old) \in Account /\ new[2] = renewals + 1
    BY <1>2 DEF Token, IssuedTokens, Owner
  <1>4. old \in IssuedTokens /\ old[2] < renewals + 1
    BY <1>1, <1>2 DEF QInv, TokensIssued, IssuedTokens, Token
  <1> HIDE DEF new
  <1>5. new \in IssuedTokens' /\ IssuedTokens \subseteq IssuedTokens'
    BY <1>1, <1>2, <1>3 DEF IssuedTokens, Token
  <1>6. pending \in Seq(Token) /\ pendingSet = RangeOf(pending)
        /\ \A i, j \in DOMAIN pending : pending[i] = pending[j] => i = j
    BY DEF QInv, TypeOK, QueueConsistent
  <1>7. new \notin RangeOf(pending)
    BY <1>3, <1>6 DEF QInv, TokensIssued
  <1>8. /\ pending' \in Seq(Token) /\ RangeOf(pending') \subseteq (RangeOf(pending) \ {old}) \cup {new}
        /\ old \notin RangeOf(pending) => RangeOf(pending') = RangeOf(pending)
        /\ \A i, j \in DOMAIN pending' : pending'[i] = pending'[j] => i = j
    BY <1>1, <1>3, <1>6, <1>7, RewrittenRange
  <1>9. pendingSet' = RangeOf(pending')
    BY <1>1, <1>6, <1>8
  <1>10. QueueConsistent'
    BY <1>8, <1>9 DEF QueueConsistent, RangeOf
  <1>11. /\ DOMAIN aliases' = DOMAIN aliases \cup {old} /\ aliases'[old] = new
         /\ \A x \in DOMAIN aliases \ {old} : aliases'[x] = aliases[x]
    BY <1>1 DEF AliasTo
  <1>12. Ascending'
    BY <1>3, <1>4, <1>11 DEF QInv, Ascending
  <1>13. \A S \in SUBSET Token : rewritten(S) \subseteq Token
    BY <1>3
  <1>14. DOMAIN aliases' \subseteq Token /\ \A x \in DOMAIN aliases' : aliases'[x] \in Token
    BY <1>3, <1>11 DEF QInv, TypeOK
  <1>15. TypeOK'
    <2>1. pendingSet' \subseteq Token
      BY <1>3, <1>6, <1>8, <1>9 DEF QInv, TypeOK
    <2>2. present' \subseteq Token /\ active' \subseteq Token /\ rerun' \subseteq Token
      BY <1>1, <1>13 DEF QInv, TypeOK
    <2> HIDE DEF rewritten
    <2> QED BY <1>1, <1>2, <1>3, <1>8, <1>14, <2>1, <2>2 DEF QInv, TypeOK
  <1>16. new \in present' /\ \A x \in present \ {old} : x \in present'
    BY <1>1
  <1>17. WaitingSettled'
    <2>1. ASSUME NEW t \in pendingSet' PROVE AliasHop(present', aliases', t) = t
      <3>1. t = new \/ (t # old /\ t \in pendingSet)
        BY <1>6, <1>8, <1>9
      <3>2. CASE t = new
        BY <1>16, <3>2 DEF AliasHop
      <3>3. CASE t # old /\ t \in pendingSet
        <4>1. t \in present \/ t \notin DOMAIN aliases
          <5>1. t \in DOMAIN aliases => t[2] < aliases[t][2] /\ t[2] \in Nat
            BY DEF QInv, Ascending, TypeOK, Token
          <5> QED BY <3>3, <5>1 DEF QInv, WaitingSettled, AliasHop
        <4> QED BY <1>11, <1>16, <3>3, <4>1 DEF AliasHop
      <3> QED BY <3>1, <3>2, <3>3
    <2> QED BY <2>1 DEF WaitingSettled
  <1>18. TokensIssued'
    <2>1. present' \subseteq IssuedTokens' /\ pendingSet' \subseteq IssuedTokens'
      BY <1>1, <1>5, <1>6, <1>8, <1>9 DEF QInv, TokensIssued
    <2>2. AliasNodes(aliases') \subseteq IssuedTokens'
      BY <1>4, <1>5, <1>11 DEF QInv, TokensIssued, AliasNodes
    <2>3. \A t \in Token : reported'[t] > 0 \/ launching'[t] > 0 \/ probing'[t] > 0 => t \in IssuedTokens'
      BY <1>1, <1>5 DEF QInv, TokensIssued
    <2> QED BY <2>1, <2>2, <2>3 DEF TokensIssued
  <1> QED BY <1>10, <1>12, <1>15, <1>17, <1>18 DEF QInv

LEMMA QStepInv == QInv /\ [Next]_vars => QInv'
  <1> SUFFICES ASSUME QInv, [Next]_vars PROVE QInv'
    OBVIOUS
  <1>1. CASE UNCHANGED vars
    <2>1. TypeOK'
      BY <1>1 DEF vars, pool, QInv, TypeOK
    <2> QED BY <1>1, <2>1, QStillInv DEF vars, pool
  <1> QED BY <1>1, QuietJobInv, PopInv, DeleteInv, RenewInv DEF Next, LoopStep, JobStep

\* However failures, renewals, deletions and jobs interleave, the queue names every
\* account once, by a token that is not a renewed one (_apply_refreshed_tokens rewrites
\* the deque and the set, delete_accounts the aliases).
THEOREM QueueIsSound == Spec => []QueueSound
  <1>1. QInv /\ [Next]_vars => QInv'
    BY QStepInv
  <1>2. QInv => QueueSound
    <2> SUFFICES ASSUME QInv PROVE PendingIsCurrent
      BY DEF QInv, QueueSound
    <2> QED BY DEF QInv, WaitingSettled, PendingIsCurrent, Current, Resolve
  <1> QED BY <1>1, <1>2, QInitInv, PTL DEF Spec

------------------------------------------------------------------------------
(* The places for verifications (FailureRefresh)                           *)
(*                                                                         *)
(* A place among the active ones is given with every job, and a job gives  *)
(* back one place at most, for the renewals may have rewritten the one it  *)
(* was started with; so there are no more jobs than places.  An account of *)
(* the pool has one token in it, to which all its aliases lead: what       *)
(* waits and what is active for it is that token, and what waits is not    *)
(* active, so that its place holds back a second job.                      *)

JobCounts == [t \in Token |-> Jobs(t)]

OneTokenEach == \A t, u \in present : Owner(t) = Owner(u) => t = u

\* Aliases stay with their account and lead to the pool while it is there.
AliasesLead ==
  /\ \A t \in DOMAIN aliases : Owner(aliases[t]) = Owner(t)
  /\ \A t \in AliasNodes(aliases) : InPool(Owner(t)) => t \in present \cup DOMAIN aliases

Used(t) == t \in pendingSet \cup active \cup rerun \/ reported[t] > 0 \/ Jobs(t) > 0

Traced == \A t \in Token : Used(t) /\ InPool(Owner(t)) => t \in present \cup AliasNodes(aliases)

\* A job of an account in the pool is its only one and has a place.
SoleJobs ==
  \A t \in Token : Jobs(t) > 0 /\ InPool(Owner(t)) =>
    /\ Jobs(t) = 1
    /\ \E x \in active : Owner(x) = Owner(t)
    /\ \A u \in Token : Jobs(u) > 0 /\ Owner(u) = Owner(t) => u = t

PlacesSettled ==
  /\ active \cup rerun \subseteq IssuedTokens
  /\ \A t \in active \cup rerun : AliasHop(present, aliases, t) = t
  /\ pendingSet \cap active = {}

PlacesCounted ==
  /\ TotalOf(JobCounts) <= Cardinality(active)
  /\ Cardinality(active) <= MaxConcurrent

JobsInv ==
  /\ QInv /\ OneTokenEach /\ AliasesLead /\ Traced /\ SoleJobs
  /\ PlacesSettled /\ PlacesCounted /\ ActiveHasJob

LEMMA UnitsFinite ==
  ASSUME NEW T, IsFiniteSet(T), NEW f \in [T -> Nat]
  PROVE  IsFiniteSet(Units(f)) /\ TotalOf(f) \in Nat
  <1> DEFINE parts == {{t} \X (1..f[t]) : t \in T}
  <1>1. IsFiniteSet(parts)
    <2> DEFINE part == [t \in T |-> {t} \X (1..f[t])]
    <2>1. part \in Surjection(T, parts)
      BY DEF Surjection
    <2> QED BY <2>1, FS_Surjection
  <1>2. \A t \in T : IsFiniteSet({t} \X (1..f[t]))
    <2>1. TAKE t \in T
    <2>2. IsFiniteSet({t})
      BY FS_Singleton
    <2>3. IsFiniteSet(1..f[t])
      BY FS_Interval
    <2> QED BY <2>2, <2>3, FS_Product
  <1>3. IsFiniteSet(UNION parts)
    BY <1>1, <1>2, FS_UNION
  <1> QED BY <1>3, FS_CardinalityType DEF Units, TotalOf

\* One count more is one more in all.
LEMMA OneMore ==
  ASSUME NEW T, IsFiniteSet(T), NEW f \in [T -> Nat], NEW g \in [T -> Nat], NEW t \in T,
         g[t] = f[t] + 1, \A u \in T \ {t} : g[u] = f[u]
  PROVE  TotalOf(g) = TotalOf(f) + 1
  <1> DEFINE unit == <<t, f[t] + 1>>
  <1>1. 1..g[t] = (1..f[t]) \cup {f[t] + 1} /\ f[t] + 1 \notin 1..f[t]
    OBVIOUS
  <1>2. unit \notin Units(f)
    BY <1>1 DEF Units
  <1>3. Units(g) = Units(f) \cup {unit}
    <2>1. \A u \in T : {u} \X (1..g[u]) \subseteq Units(f) \cup {unit}
      <3>1. TAKE u \in T
      <3>2. CASE u = t
        BY <1>1, <3>2 DEF Units
      <3>3. CASE u # t
        BY <3>3 DEF Units
      <3> QED BY <3>2, <3>3
    <2>2. \A u \in T : {u} \X (1..f[u]) \subseteq Units(g)
      <3>1. TAKE u \in T
      <3>2. 1..f[u] \subseteq 1..g[u]
        BY <1>1
      <3> QED BY <3>2 DEF Units
    <2>3. unit \in Units(g)
      BY <1>1 DEF Units
    <2> QED BY <2>1, <2>2, <2>3 DEF Units
  <1>4. IsFiniteSet(Units(f))
    BY UnitsFinite
  <1> HIDE DEF unit
  <1> QED BY <1>2, <1>3, <1>4, FS_AddElement DEF TotalOf

LEMMA TokenFinite == IsFiniteSet(Token)
  <1>1. IsFiniteSet(0..MaxRenewals)
    BY QueueAssumption, FS_Interval
  <1> QED BY <1>1, QueueAssumption, FS_Product DEF Token

\* What is settled and traced of an account in the pool is its token there.
LEMMA SettledIsPresent ==
  ASSUME QInv, AliasesLead, NEW t \in Token, AliasHop(present, aliases, t) = t, InPool(Owner(t)),
         t \in present \cup AliasNodes(aliases)
  PROVE  t \in present
  <1>1. t \in present \/ t \in DOMAIN aliases
    BY DEF AliasesLead
  <1>2. t \in DOMAIN aliases => t[2] < aliases[t][2] /\ t[2] \in Nat
    BY DEF QInv, Ascending, TypeOK, Token
  <1> QED BY <1>1, <1>2 DEF AliasHop

LEMMA CurrentIsTraced ==
  ASSUME JobsInv, NEW t \in Token, Used(t), InPool(Owner(Current(t)))
  PROVE  Current(t) \in present \cup AliasNodes(aliases)
  <1>1. Current(t) \in {t} \cup AliasNodes(aliases)
    BY ResolveInNodes DEF Current
  <1> QED BY <1>1 DEF JobsInv, Traced

LEMMA JobsTyped ==
  ASSUME QInv
  PROVE  /\ JobCounts \in [Token -> Nat] /\ TotalOf(JobCounts) \in Nat
         /\ \A t \in Token : Jobs(t) = JobCounts[t] /\ Jobs(t) \in Nat
  <1>1. \A t \in Token : launching[t] \in Nat /\ probing[t] \in Nat
    BY DEF QInv, TypeOK
  <1>2. JobCounts \in [Token -> Nat]
    BY <1>1 DEF JobCounts, Jobs
  <1> QED BY <1>1, <1>2, TokenFinite, UnitsFinite DEF JobCounts, Jobs

\* A step that leaves the pool, the places and the number of jobs alone.
LEMMA SamePlacesInv ==
  ASSUME JobsInv, QInv', NEW t \in Token, Used(t) \/ t \in present,
         UNCHANGED <<pool, active, disturbed>>, \A x \in Token : Jobs(x)' = Jobs(x),
         rerun' \subseteq rerun \cup active,
         \/ pendingSet' \subseteq pendingSet
         \/ pendingSet' \subseteq pendingSet \cup {Current(t)} /\ Current(t) \notin active /\ Used(t),
         \A x \in Token \ {t} : reported'[x] = reported[x]
  PROVE  JobsInv'
  <1>1. /\ present' = present /\ aliases' = aliases /\ renewals' = renewals
        /\ active' = active /\ disturbed' = disturbed
        /\ \A a : InPool(a)' <=> InPool(a)
    BY DEF pool, InPool
  <1>2. OneTokenEach'
    BY <1>1 DEF JobsInv, OneTokenEach
  <1>3. AliasesLead'
    BY <1>1 DEF JobsInv, AliasesLead, AliasNodes
  <1>4. ActiveHasJob'
    BY <1>1 DEF JobsInv, ActiveHasJob, QInv, TypeOK
  <1>5. SoleJobs'
    BY <1>1 DEF JobsInv, SoleJobs
  <1>6. JobCounts' = JobCounts
    BY DEF JobCounts
  <1>7. PlacesCounted'
    BY <1>1, <1>6 DEF JobsInv, PlacesCounted, TotalOf, Units
  <1>8. PlacesSettled'
    BY <1>1 DEF JobsInv, PlacesSettled, IssuedTokens
  <1>9. Traced'
    <2> SUFFICES ASSUME NEW x \in Token, Used(x)', InPool(Owner(x))
                 PROVE  x \in present \cup AliasNodes(aliases)
      BY <1>1 DEF Traced, AliasNodes
    <2>1. Used(x) \/ x = t \/ (x = Current(t) /\ Used(t))
      BY <1>1 DEF Used
    <2> QED BY <2>1, CurrentIsTraced DEF JobsInv, Traced
  <1> QED BY <1>2, <1>3, <1>4, <1>5, <1>7, <1>8, <1>9 DEF JobsInv

LEMMA OneFewer ==
  ASSUME NEW S, IsFiniteSet(S), NEW x
  PROVE  /\ Cardinality(S) \in Nat /\ Cardinality(S \ {x}) \in Nat
         /\ Cardinality(S \ {x}) <= Cardinality(S) /\ Cardinality(S \ {x}) >= Cardinality(S) - 1
  <1>1. Cardinality(S) \in Nat
    BY FS_CardinalityType
  <1>2. IsFiniteSet(S \ {x})
        /\ Cardinality(S \ {x}) = IF x \in S THEN Cardinality(S) - 1 ELSE Cardinality(S)
    BY FS_RemoveElement
  <1>3. Cardinality(S \ {x}) \in Nat
    BY <1>2, FS_CardinalityType
  <1> QED BY <1>1, <1>2, <1>3

\* A job ends, or is not submitted, and gives back the place of its token if there is one.
LEMMA OneLessInv ==
  ASSUME JobsInv, QInv', NEW t \in Token, Jobs(t) > 0,
         UNCHANGED <<pool, disturbed, reported>>, Jobs(t)' = Jobs(t) - 1,
         \A x \in Token \ {t} : Jobs(x)' = Jobs(x),
         active' = active \ {t}, rerun' \subseteq rerun,
         \/ pendingSet' = pendingSet
         \/ pendingSet' = pendingSet \cup {Current(t)} /\ Current(t) \notin active'
  PROVE  JobsInv'
  <1>1. /\ present' = present /\ aliases' = aliases /\ renewals' = renewals
        /\ disturbed' = disturbed /\ \A a : InPool(a)' <=> InPool(a)
    BY DEF pool, InPool
  <1>n. \A x \in Token : Jobs(x) \in Nat /\ Jobs(x)' <= Jobs(x)
    BY JobsTyped DEF JobsInv
  <1>2. OneTokenEach'
    BY <1>1 DEF JobsInv, OneTokenEach
  <1>3. AliasesLead'
    BY <1>1 DEF JobsInv, AliasesLead, AliasNodes
  <1>4. ActiveHasJob'
    BY <1>1 DEF JobsInv, ActiveHasJob, QInv, TypeOK
  <1>5. SoleJobs'
    <2> SUFFICES ASSUME NEW x \in Token, Jobs(x)' > 0, InPool(Owner(x))
                 PROVE  /\ Jobs(x)' = 1
                        /\ \E y \in active' : Owner(y) = Owner(x)
                        /\ \A u \in Token : Jobs(u)' > 0 /\ Owner(u) = Owner(x) => u = x
      BY <1>1 DEF SoleJobs
    <2>1. Jobs(x) > 0 /\ Jobs(x) = 1
      BY <1>1, <1>n DEF JobsInv, SoleJobs
    <2>2. x # t
      BY <2>1
    <2>3. Owner(t) # Owner(x)
      BY <1>1, <2>1, <2>2 DEF JobsInv, SoleJobs
    <2>4. \E y \in active' : Owner(y) = Owner(x)
      BY <1>1, <2>1, <2>3 DEF JobsInv, SoleJobs
    <2>5. \A u \in Token : Jobs(u)' > 0 => Jobs(u) > 0
      BY <1>n
    <2> QED BY <1>1, <2>1, <2>2, <2>4, <2>5 DEF JobsInv, SoleJobs
  <1>6. TotalOf(JobCounts) = TotalOf(JobCounts') + 1
    <2>1. JobCounts \in [Token -> Nat] /\ \A x \in Token : JobCounts[x] = Jobs(x)
      BY JobsTyped DEF JobsInv
    <2>2. JobCounts' = [x \in Token |-> Jobs(x)']
      BY DEF JobCounts
    <2>3. JobCounts' \in [Token -> Nat]
      BY <1>n, <2>2
    <2>4. JobCounts[t] = JobCounts'[t] + 1
      BY <1>n, <2>1, <2>2
    <2>5. \A x \in Token \ {t} : JobCounts[x] = JobCounts'[x]
      BY <2>1, <2>2
    <2> QED BY <2>1, <2>3, <2>4, <2>5, TokenFinite, OneMore
  <1>7. PlacesCounted'
    <2>1. active \subseteq Token /\ IsFiniteSet(active)
      BY TokenFinite, FS_Subset DEF JobsInv, QInv, TypeOK
    <2>2. /\ Cardinality(active) \in Nat /\ Cardinality(active') \in Nat
          /\ Cardinality(active') <= Cardinality(active)
          /\ Cardinality(active') >= Cardinality(active) - 1
      BY <2>1, OneFewer
    <2>3. TotalOf(JobCounts') \in Nat
      <3>1. JobCounts' = [x \in Token |-> Jobs(x)']
        BY DEF JobCounts
      <3>2. JobCounts' \in [Token -> Nat]
        BY <1>n, <3>1
      <3> QED BY <3>2, TokenFinite, UnitsFinite
    <2>4. TotalOf(JobCounts') + 1 <= Cardinality(active) /\ Cardinality(active) <= MaxConcurrent
      BY <1>6 DEF JobsInv, PlacesCounted
    <2>5. MaxConcurrent \in Nat
      BY QueueAssumption
    <2>6. TotalOf(JobCounts)' = TotalOf(JobCounts')
      BY DEF TotalOf, Units
    <2> QED BY <2>2, <2>3, <2>4, <2>5, <2>6 DEF PlacesCounted
  <1>8. PlacesSettled'
    BY <1>1 DEF JobsInv, PlacesSettled, IssuedTokens
  <1>9. Traced'
    <2> SUFFICES ASSUME NEW x \in Token, Used(x)', InPool(Owner(x))
                 PROVE  x \in present \cup AliasNodes(aliases)
      BY <1>1 DEF Traced, AliasNodes
    <2>1. Used(t) /\ (Used(x) \/ x = Current(t))
      BY <1>n DEF Used
    <2> QED BY <2>1, CurrentIsTraced DEF JobsInv, Traced
  <1> QED BY <1>2, <1>3, <1>4, <1>5, <1>7, <1>8, <1>9 DEF JobsInv

LEMMA QuietJobsInv ==
  ASSUME JobsInv, QInv', NEW t \in Token,
         RecordFailure(t) \/ Schedule(t) \/ Launch(t) \/ LaunchFails(t) \/ EndJob(t)
  PROVE  JobsInv'
  <1>t. launching \in [Token -> Nat] /\ probing \in [Token -> Nat] /\ reported \in [Token -> Nat]
    BY DEF JobsInv, QInv, TypeOK
  <1>1. CASE RecordFailure(t)
    BY <1>1, <1>t, SamePlacesInv DEF RecordFailure, Jobs
  <1>2. CASE Schedule(t)
    <2> DEFINE c == Current(t)
               ongoing == {x \in active : Current(x) = c}
    <2>1. /\ reported[t] > 0 /\ reported' = [reported EXCEPT ![t] = @ - 1]
          /\ UNCHANGED <<pool, failures, active, launching, probing, disturbed>>
      BY <1>2 DEF Schedule
    <2>2. \/ /\ rerun' = rerun \/ \E x \in ongoing : rerun' = rerun \cup {x}
             /\ pendingSet' = pendingSet
          \/ /\ ongoing = {} /\ rerun' = rerun
             /\ pendingSet' = pendingSet \cup {c}
      BY <1>2 DEF Schedule, Enqueue
    <2>3. ongoing = {} => c \notin active
      <3>1. t \in IssuedTokens
        BY <2>1 DEF JobsInv, QInv, TokensIssued
      <3>2. AliasHop(present, aliases, c) = c
        BY <3>1, CurrentSettles DEF JobsInv
      <3>3. Current(c) = c
        BY <3>2 DEF Current, Resolve
      <3> QED BY <3>3
    <2>4. rerun' \subseteq rerun \cup active
      BY <2>2
    <2>5. Used(t)
      BY <2>1 DEF Used
    <2>6. \A x \in Token \ {t} : reported'[x] = reported[x]
      BY <1>t, <2>1
    <2>7. \A x \in Token : Jobs(x)' = Jobs(x)
      BY <2>1 DEF Jobs
    <2> HIDE DEF c
    <2>8. \/ pendingSet' \subseteq pendingSet
          \/ pendingSet' \subseteq pendingSet \cup {c} /\ c \notin active
      BY <2>2, <2>3
    <2> QED BY <2>1, <2>4, <2>5, <2>6, <2>7, <2>8, SamePlacesInv DEF c
  <1>3. CASE Launch(t)
    <2>1. Used(t)
      BY <1>t, <1>3 DEF Launch, Used, Jobs
    <2>2. \A x \in Token : Jobs(x)' = Jobs(x)
      <3>1. /\ launching' = [launching EXCEPT ![t] = launching[t] - 1]
            /\ probing' = [probing EXCEPT ![t] = probing[t] + 1]
        BY <1>3 DEF Launch
      <3> QED BY <1>t, <3>1 DEF Jobs
    <2> QED BY <1>3, <2>1, <2>2, SamePlacesInv DEF Launch
  <1>4. CASE LaunchFails(t)
    <2>1. Jobs(t) > 0 /\ Jobs(t)' = Jobs(t) - 1 /\ \A x \in Token \ {t} : Jobs(x)' = Jobs(x)
      BY <1>t, <1>4 DEF LaunchFails, Jobs
    <2> QED BY <1>4, <2>1, OneLessInv DEF LaunchFails
  <1>5. CASE EndJob(t)
    <2>1. Jobs(t) > 0 /\ Jobs(t)' = Jobs(t) - 1 /\ \A x \in Token \ {t} : Jobs(x)' = Jobs(x)
      BY <1>t, <1>5 DEF EndJob, Jobs
    <2>2. active' = active \ {t} /\ rerun' \subseteq rerun /\ UNCHANGED <<pool, disturbed, reported>>
      BY <1>5 DEF EndJob
    <2>3. \/ pendingSet' = pendingSet
          \/ pendingSet' = pendingSet \cup {Current(t)} /\ t \in rerun
      BY <1>5 DEF EndJob, Enqueue
    <2>4. t \in rerun => Current(t) = t
      BY DEF JobsInv, PlacesSettled, Current, Resolve
    <2> QED BY <2>1, <2>2, <2>3, <2>4, OneLessInv
  <1> QED BY <1>1, <1>2, <1>3, <1>4, <1>5

LEMMA StillJobsInv ==
  ASSUME JobsInv, QInv', UNCHANGED <<pool, reported, pendingSet, active, rerun, launching, probing, disturbed>>
  PROVE  JobsInv'
  <1>1. /\ present' = present /\ aliases' = aliases /\ renewals' = renewals
        /\ \A a : InPool(a)' <=> InPool(a)
    BY DEF pool, InPool
  <1>2. OneTokenEach' /\ PlacesSettled'
    BY <1>1 DEF JobsInv, OneTokenEach, PlacesSettled, IssuedTokens
  <1>3. AliasesLead'
    BY <1>1 DEF JobsInv, AliasesLead, AliasNodes
  <1>4. \A t \in Token : Jobs(t)' = Jobs(t) /\ (Used(t)' <=> Used(t))
    BY DEF Jobs, Used
  <1>5. Traced'
    BY <1>1, <1>4 DEF JobsInv, Traced, AliasNodes
  <1>6. SoleJobs'
    BY <1>1, <1>4 DEF JobsInv, SoleJobs
  <1>7. JobCounts' = JobCounts
    BY <1>4 DEF JobCounts
  <1>8. PlacesCounted'
    BY <1>7 DEF JobsInv, PlacesCounted, TotalOf, Units
  <1>9. ActiveHasJob'
    BY <1>4 DEF JobsInv, ActiveHasJob, QInv, TypeOK
  <1> QED BY <1>2, <1>3, <1>5, <1>6, <1>8, <1>9 DEF JobsInv

LEMMA PopJobsInv ==
  ASSUME JobsInv, QInv', PopNext
  PROVE  JobsInv'
  <1>0. PICK h : h = Head(pending)
    OBVIOUS
  <1>1. /\ pendingSet' = pendingSet \ {h} /\ active' = active \cup {h}
        /\ launching' = [launching EXCEPT ![h] = @ + 1] /\ probing' = probing
        /\ Cardinality(active) < MaxConcurrent /\ pending # <<>>
        /\ present' = present /\ aliases' = aliases /\ renewals' = renewals
        /\ UNCHANGED <<reported, rerun, disturbed>>
    <2>1. Cardinality(active) \in Nat
      <3>1. IsFiniteSet(active)
        BY TokenFinite, FS_Subset DEF JobsInv, QInv, TypeOK
      <3> QED BY <3>1, FS_CardinalityType
    <2> QED BY <1>0, <2>1, QueueAssumption DEF PopNext, Full, pool
  <1>2. h \in pendingSet /\ h \in Token /\ h \in IssuedTokens /\ AliasHop(present, aliases, h) = h
    <2>1. pending \in Seq(Token) /\ pendingSet = RangeOf(pending)
          /\ \A i, j \in DOMAIN pending : pending[i] = pending[j] => i = j
      BY DEF JobsInv, QInv, TypeOK, QueueConsistent
    <2>2. h \in pendingSet
      BY <1>0, <1>1, <2>1, TailRange
    <2> QED BY <2>2 DEF JobsInv, QInv, WaitingSettled, TokensIssued, IssuedTokens
  <1>3. \A a : InPool(a)' <=> InPool(a)
    BY <1>1 DEF InPool
  <1>4. h \notin active
    BY <1>2 DEF JobsInv, PlacesSettled
  <1>5. /\ Jobs(h)' = Jobs(h) + 1 /\ \A x \in Token \ {h} : Jobs(x)' = Jobs(x)
        /\ \A x \in Token : Jobs(x) \in Nat /\ Jobs(x)' \in Nat
    <2>1. launching \in [Token -> Nat] /\ probing \in [Token -> Nat]
      BY DEF JobsInv, QInv, TypeOK
    <2>2. launching'[h] = launching[h] + 1 /\ \A x \in Token \ {h} : launching'[x] = launching[x]
      BY <1>1, <1>2, <2>1
    <2>3. launching[h] \in Nat /\ probing[h] \in Nat
      BY <1>2, <2>1
    <2>4. Jobs(h)' = Jobs(h) + 1
      BY <1>1, <2>2, <2>3 DEF Jobs
    <2>5. \A x \in Token \ {h} : Jobs(x)' = Jobs(x)
      BY <1>1, <2>2 DEF Jobs
    <2>6. \A x \in Token : Jobs(x) \in Nat
      BY <2>1 DEF Jobs
    <2> QED BY <2>4, <2>5, <2>6
  <1>6. OneTokenEach' /\ PlacesSettled'
    BY <1>1, <1>2 DEF JobsInv, OneTokenEach, PlacesSettled, IssuedTokens
  <1>7. AliasesLead'
    BY <1>1, <1>3 DEF JobsInv, AliasesLead, AliasNodes
  <1>8. Traced'
    BY <1>1, <1>2, <1>3, <1>5 DEF JobsInv, Traced, Used, AliasNodes
  \* The place that its account would have is the token that waits.
  <1>9. InPool(Owner(h)) => \A u \in Token : Owner(u) = Owner(h) => Jobs(u) = 0
    <2> SUFFICES ASSUME InPool(Owner(h)), NEW u \in Token, Owner(u) = Owner(h), Jobs(u) > 0 PROVE FALSE
      BY <1>5
    <2>1. PICK x \in active : Owner(x) = Owner(h)
      BY DEF JobsInv, SoleJobs
    <2>2. x \in Token /\ AliasHop(present, aliases, x) = x /\ Used(x)
      BY <2>1 DEF JobsInv, PlacesSettled, QInv, TypeOK, Used
    <2>3. x \in present
      BY <2>1, <2>2, SettledIsPresent DEF JobsInv, Traced
    <2>4. h \in present
      <3>1. Used(h)
        BY <1>2 DEF Used
      <3> QED BY <1>2, <3>1, SettledIsPresent DEF JobsInv, Traced
    <2> QED BY <1>4, <2>1, <2>3, <2>4 DEF JobsInv, OneTokenEach
  <1>10. SoleJobs'
    <2> SUFFICES ASSUME NEW x \in Token, Jobs(x)' > 0, InPool(Owner(x))
                 PROVE  /\ Jobs(x)' = 1
                        /\ \E y \in active' : Owner(y) = Owner(x)
                        /\ \A u \in Token : Jobs(u)' > 0 /\ Owner(u) = Owner(x) => u = x
      BY <1>3 DEF SoleJobs
    <2>1. CASE Owner(x) = Owner(h)
      <3>1. \A u \in Token \ {h} : Owner(u) = Owner(h) => Jobs(u)' = 0
        BY <1>5, <1>9, <2>1
      <3>2. Jobs(h)' = 1
        BY <1>2, <1>5, <1>9, <2>1
      <3>3. x = h
        BY <2>1, <3>1
      <3>4. \A u \in Token : Jobs(u)' > 0 /\ Owner(u) = Owner(x) => u = x
        BY <3>1, <3>3
      <3> QED BY <1>1, <3>2, <3>3, <3>4
    <2>2. CASE Owner(x) # Owner(h)
      <3>1. Jobs(x)' = Jobs(x) /\ \A u \in Token : Owner(u) = Owner(x) => Jobs(u)' = Jobs(u)
        BY <1>5, <2>2
      <3>2. /\ Jobs(x) = 1 /\ \E y \in active : Owner(y) = Owner(x)
            /\ \A u \in Token : Jobs(u) > 0 /\ Owner(u) = Owner(x) => u = x
        BY <3>1 DEF JobsInv, SoleJobs
      <3> QED BY <1>1, <3>1, <3>2
    <2> QED BY <2>1, <2>2
  <1>11. PlacesCounted'
    <2>1. JobCounts' = [x \in Token |-> Jobs(x)'] /\ JobCounts = [x \in Token |-> Jobs(x)]
      BY DEF JobCounts
    <2>2. /\ JobCounts' \in [Token -> Nat] /\ JobCounts \in [Token -> Nat]
          /\ JobCounts'[h] = JobCounts[h] + 1 /\ \A x \in Token \ {h} : JobCounts'[x] = JobCounts[x]
      BY <1>2, <1>5, <2>1
    <2>3. TotalOf(JobCounts') = TotalOf(JobCounts) + 1
      BY <1>2, <2>2, TokenFinite, OneMore
    <2>4. IsFiniteSet(active)
      BY TokenFinite, FS_Subset DEF JobsInv, QInv, TypeOK
    <2>5. Cardinality(active') = Cardinality(active) + 1 /\ Cardinality(active) \in Nat
      BY <1>1, <1>4, <2>4, FS_AddElement, FS_CardinalityType
    <2>6. TotalOf(JobCounts)' = TotalOf(JobCounts')
      BY DEF TotalOf, Units
    <2>7. MaxConcurrent \in Nat /\ TotalOf(JobCounts) \in Nat
      BY QueueAssumption, JobsTyped DEF JobsInv
    <2> QED BY <1>1, <2>3, <2>5, <2>6, <2>7 DEF JobsInv, PlacesCounted
  <1>12. ActiveHasJob'
    <2>1. \A x \in Token : Jobs(x) > 0 => Jobs(x)' > 0
      BY <1>5
    <2>2. Jobs(h)' > 0
      BY <1>2, <1>5
    <2> QED BY <1>1, <2>1, <2>2 DEF JobsInv, ActiveHasJob, QInv, TypeOK
  <1> QED BY <1>6, <1>7, <1>8, <1>10, <1>11, <1>12 DEF JobsInv

LEMMA DeleteJobsInv ==
  ASSUME JobsInv, QInv', NEW t \in Token, Delete(t)
  PROVE  JobsInv'
  <1>1. /\ t \in present /\ present' = present \ {t} /\ aliases' = ForgetAliases(aliases, {t})
        /\ renewals' = renewals
        /\ UNCHANGED <<reported, pendingSet, active, rerun, launching, probing, disturbed>>
    BY DEF Delete
  <1>2. /\ \A x \in DOMAIN aliases' : x \in DOMAIN aliases /\ aliases'[x] = aliases[x]
        /\ \A x \in DOMAIN aliases : x # t /\ aliases[x] # t => x \in DOMAIN aliases'
    BY <1>1 DEF ForgetAliases
  <1>3. \A x \in Token : InPool(Owner(x))' => InPool(Owner(x)) /\ Owner(x) # Owner(t)
    BY <1>1 DEF InPool, JobsInv, OneTokenEach
  <1>4. OneTokenEach' /\ ActiveHasJob'
    BY <1>1 DEF JobsInv, OneTokenEach, ActiveHasJob, Jobs
  <1>5. PlacesSettled'
    <2>1. \A x \in active \cup rerun : AliasHop(present', aliases', x) = x
      <3>1. TAKE x \in active \cup rerun
      <3>2. x \in present \/ x \notin DOMAIN aliases
        <4>1. x \in DOMAIN aliases => x[2] < aliases[x][2] /\ x[2] \in Nat
          BY DEF JobsInv, QInv, Ascending, TypeOK, Token
        <4> QED BY <4>1 DEF JobsInv, PlacesSettled, AliasHop
      <3>3. t \notin DOMAIN aliases'
        BY <1>1 DEF ForgetAliases
      <3> QED BY <1>1, <1>2, <3>2, <3>3 DEF AliasHop
    <2> QED BY <1>1, <2>1 DEF JobsInv, PlacesSettled, IssuedTokens
  <1>6. \A x \in DOMAIN aliases : Owner(x) # Owner(t) => x \in DOMAIN aliases'
    BY <1>2 DEF JobsInv, AliasesLead
  <1>7. AliasesLead'
    <2>1. \A x \in DOMAIN aliases' : Owner(aliases'[x]) = Owner(x)
      BY <1>2 DEF JobsInv, AliasesLead
    <2>2. AliasNodes(aliases') \subseteq AliasNodes(aliases) /\ AliasNodes(aliases) \subseteq Token
      BY <1>2 DEF AliasNodes, JobsInv, QInv, TypeOK
    <2>3. ASSUME NEW x \in AliasNodes(aliases'), InPool(Owner(x))' PROVE x \in present' \cup DOMAIN aliases'
      BY <1>1, <1>3, <1>6, <2>2, <2>3 DEF JobsInv, AliasesLead
    <2> QED BY <2>1, <2>3 DEF AliasesLead
  <1>8. Traced'
    <2> SUFFICES ASSUME NEW x \in Token, Used(x), InPool(Owner(x))'
                 PROVE  x \in present' \cup AliasNodes(aliases')
      BY <1>1 DEF Traced, Used, Jobs
    <2>1. x \in present \cup AliasNodes(aliases) /\ Owner(x) # Owner(t)
      BY <1>3 DEF JobsInv, Traced
    <2>2. x \in present \cup DOMAIN aliases
      BY <1>3, <2>1 DEF JobsInv, AliasesLead
    <2> QED BY <1>1, <1>6, <2>1, <2>2 DEF AliasNodes
  <1>9. \A x \in Token : Jobs(x)' = Jobs(x)
    BY <1>1 DEF Jobs
  <1>10. SoleJobs'
    BY <1>1, <1>3, <1>9 DEF JobsInv, SoleJobs
  <1>11. JobCounts' = JobCounts
    BY <1>9 DEF JobCounts
  <1>12. PlacesCounted'
    BY <1>1, <1>11 DEF JobsInv, PlacesCounted, TotalOf, Units
  <1> QED BY <1>4, <1>5, <1>7, <1>8, <1>10, <1>12 DEF JobsInv

LEMMA RenewJobsInv ==
  ASSUME JobsInv, QInv', NEW old \in Token, Renew(old)
  PROVE  JobsInv'
  <1>0. PICK new : new = <<Owner(old), renewals + 1>>
    OBVIOUS
  <1> DEFINE rewritten(S) == {IF t = old THEN new ELSE t : t \in S}
  <1>1. /\ old \in present /\ renewals' = renewals + 1 /\ present' = rewritten(present)
        /\ aliases' = AliasTo(aliases, old, new)
        /\ pendingSet' \subseteq rewritten(pendingSet)
        /\ active' = rewritten(active) /\ rerun' = rewritten(rerun)
        /\ disturbed' = IF old \in active THEN disturbed \cup {Owner(old)} ELSE disturbed
        /\ UNCHANGED <<reported, launching, probing>>
    <2>1. pendingSet = RangeOf(pending)
      BY DEF JobsInv, QInv, QueueConsistent
    <2>2. pending' = [i \in DOMAIN pending |-> IF pending[i] = old THEN new ELSE pending[i]]
      BY <1>0 DEF Renew
    <2>3. RangeOf(pending') \subseteq rewritten(pendingSet)
      BY <2>1, <2>2 DEF RangeOf
    <2>4. old \notin pendingSet => pendingSet \subseteq rewritten(pendingSet)
      OBVIOUS
    <2>5. pendingSet' = IF old \in pendingSet \cup RangeOf(pending) THEN RangeOf(pending') ELSE pendingSet
      BY <1>0 DEF Renew
    <2>6. pendingSet' \subseteq rewritten(pendingSet)
      BY <2>3, <2>4, <2>5
    <2> QED BY <1>0, <2>6 DEF Renew
  <1>2. renewals \in Nat /\ renewals < MaxRenewals
    BY DEF Renew, JobsInv, QInv, TypeOK
  <1>3. new \in Token /\ new \notin IssuedTokens /\ Owner(new) = Owner(old) /\ new \in IssuedTokens'
    <2>1. renewals + 1 \in 0..MaxRenewals /\ ~(renewals + 1 <= renewals)
      BY <1>2, QueueAssumption
    <2> QED BY <1>0, <1>1, <2>1 DEF Token, IssuedTokens, Owner
  <1>4. /\ active \subseteq IssuedTokens /\ rerun \subseteq IssuedTokens /\ pendingSet \subseteq IssuedTokens
        /\ present \subseteq IssuedTokens /\ IssuedTokens \subseteq IssuedTokens' /\ IssuedTokens \subseteq Token
    BY <1>1, <1>2 DEF JobsInv, PlacesSettled, QInv, TokensIssued, IssuedTokens, Token
  <1>5. \A S : rewritten(S) = IF old \in S THEN (S \ {old}) \cup {new} ELSE S
    OBVIOUS
  <1> HIDE DEF rewritten
  <1>6. /\ DOMAIN aliases' = DOMAIN aliases \cup {old} /\ aliases'[old] = new
        /\ \A x \in DOMAIN aliases \ {old} : aliases'[x] = aliases[x]
    BY <1>1 DEF AliasTo
  <1>7. present' = (present \ {old}) \cup {new}
    BY <1>1, <1>5
  <1>8. \A a : InPool(a)' <=> InPool(a)
    BY <1>1, <1>3, <1>7 DEF InPool
  <1>9. OneTokenEach'
    BY <1>1, <1>3, <1>7 DEF JobsInv, OneTokenEach
  <1>10. AliasNodes(aliases) \subseteq AliasNodes(aliases') \cup present' /\ AliasNodes(aliases') \subseteq AliasNodes(aliases) \cup {old, new}
    <2>1. \A x \in DOMAIN aliases : aliases[x] \in AliasNodes(aliases') \cup present'
      <3>1. TAKE x \in DOMAIN aliases
      <3>2. CASE x # old
        BY <1>6, <3>2 DEF AliasNodes
      <3>3. CASE x = old
        <4>1. Owner(aliases[old]) = Owner(old) /\ aliases[old] \in AliasNodes(aliases)
          BY <3>3 DEF JobsInv, AliasesLead, AliasNodes
        <4>2. InPool(Owner(old))
          BY <1>1 DEF InPool
        <4>3. aliases[old] \in present \cup DOMAIN aliases
          BY <4>1, <4>2 DEF JobsInv, AliasesLead
        <4> QED BY <1>6, <1>7, <3>3, <4>3 DEF AliasNodes
      <3> QED BY <3>2, <3>3
    <2> QED BY <1>6, <2>1 DEF AliasNodes
  <1>11. AliasesLead'
    <2>1. \A x \in DOMAIN aliases' : Owner(aliases'[x]) = Owner(x)
      BY <1>3, <1>6 DEF JobsInv, AliasesLead
    <2>2. \A x \in AliasNodes(aliases') : InPool(Owner(x))' => x \in present' \cup DOMAIN aliases'
      BY <1>6, <1>7, <1>8, <1>10 DEF JobsInv, AliasesLead
    <2> QED BY <2>1, <2>2 DEF AliasesLead
  <1>12. \A x \in Token : Jobs(x)' = Jobs(x)
    BY <1>1 DEF Jobs
  <1>13. Traced'
    <2> SUFFICES ASSUME NEW x \in Token, Used(x)', InPool(Owner(x))'
                 PROVE  x \in present' \cup AliasNodes(aliases')
      BY DEF Traced
    <2>1. Used(x) \/ x = new
      BY <1>1, <1>5, <1>12 DEF Used
    <2>2. CASE Used(x)
      <3>1. x \in present \cup AliasNodes(aliases)
        BY <1>8, <2>2 DEF JobsInv, Traced
      <3>2. old \in AliasNodes(aliases')
        BY <1>6 DEF AliasNodes
      <3> QED BY <1>7, <1>10, <3>1, <3>2
    <2> QED BY <1>7, <2>1, <2>2
  <1>14. SoleJobs'
    <2> SUFFICES ASSUME NEW x \in Token, Jobs(x) > 0, InPool(Owner(x))
                 PROVE  \E y \in active' : Owner(y) = Owner(x)
      BY <1>8, <1>12 DEF JobsInv, SoleJobs
    <2>1. PICK y \in active : Owner(y) = Owner(x)
      BY DEF JobsInv, SoleJobs
    <2> QED BY <1>1, <1>3, <1>5, <2>1
  <1>15. PlacesSettled'
    <2>1. active' \cup rerun' \subseteq IssuedTokens'
      BY <1>1, <1>3, <1>4, <1>5
    <2>2. pendingSet' \cap active' = {}
      BY <1>1, <1>3, <1>4, <1>5 DEF JobsInv, PlacesSettled
    <2>3. ASSUME NEW x \in active' \cup rerun' PROVE AliasHop(present', aliases', x) = x
      <3>1. x = new \/ (x # old /\ x \in active \cup rerun)
        BY <1>1, <1>3, <1>4, <1>5
      <3>2. CASE x = new
        BY <1>7, <3>2 DEF AliasHop
      <3>3. CASE x # old /\ x \in active \cup rerun
        <4>1. x \in DOMAIN aliases => x[2] < aliases[x][2] /\ x[2] \in Nat
          BY DEF JobsInv, QInv, Ascending, TypeOK, Token
        <4>2. x \in present \/ x \notin DOMAIN aliases
          BY <3>3, <4>1 DEF JobsInv, PlacesSettled, AliasHop
        <4> QED BY <1>6, <1>7, <3>3, <4>2 DEF AliasHop
      <3> QED BY <3>1, <3>2, <3>3
    <2> QED BY <2>1, <2>2, <2>3 DEF PlacesSettled
  <1>16. Cardinality(active') = Cardinality(active)
    <2>1. IsFiniteSet(active)
      BY TokenFinite, FS_Subset DEF JobsInv, QInv, TypeOK
    <2>2. CASE old \in active
      <3>1. IsFiniteSet(active \ {old}) /\ Cardinality(active \ {old}) = Cardinality(active) - 1
        BY <2>1, <2>2, FS_RemoveElement
      <3>2. new \notin active \ {old}
        BY <1>3, <1>4
      <3>3. Cardinality((active \ {old}) \cup {new}) = Cardinality(active \ {old}) + 1
        BY <3>1, <3>2, FS_AddElement
      <3>4. active' = (active \ {old}) \cup {new}
        BY <1>1, <1>5, <2>2
      <3>5. Cardinality(active) \in Nat
        BY <2>1, FS_CardinalityType
      <3> QED BY <3>1, <3>3, <3>4, <3>5
    <2> QED BY <1>1, <1>5, <2>2
  <1>17. PlacesCounted'
    <2>1. JobCounts' = JobCounts
      BY <1>12 DEF JobCounts
    <2> QED BY <1>16, <2>1 DEF JobsInv, PlacesCounted, TotalOf, Units
  <1>18. ActiveHasJob'
    <2> SUFFICES ASSUME NEW x \in active' PROVE Jobs(x)' > 0 \/ Owner(x) \in disturbed'
      BY DEF ActiveHasJob
    <2>1. CASE x \in active
      BY <1>1, <1>4, <1>12, <2>1 DEF JobsInv, ActiveHasJob
    <2>2. CASE x \notin active
      <3>1. x = new /\ old \in active
        BY <1>1, <1>5, <2>2
      <3> QED BY <1>1, <1>3, <3>1
    <2> QED BY <2>1, <2>2
  <1> QED BY <1>9, <1>11, <1>13, <1>14, <1>15, <1>17, <1>18 DEF JobsInv

LEMMA JobsInitInv == Init => JobsInv
  <1> SUFFICES ASSUME Init PROVE JobsInv
    OBVIOUS
  <1>1. QInv
    BY QInitInv
  <1>2. \A t \in Token : Jobs(t) = 0
    BY DEF Init, NoJobs, Jobs
  <1>3. OneTokenEach
    BY DEF Init, OneTokenEach, Owner
  <1>4. AliasesLead
    BY DEF Init, AliasesLead, AliasNodes
  <1>5. Traced
    BY <1>2 DEF Init, Traced, Used, NoJobs
  <1>6. SoleJobs /\ ActiveHasJob
    BY <1>2 DEF Init, SoleJobs, ActiveHasJob
  <1>7. PlacesSettled
    BY DEF Init, PlacesSettled
  <1>8. Units(JobCounts) = {}
    BY <1>2 DEF Units, JobCounts
  <1>9. PlacesCounted
    <2>1. TotalOf(JobCounts) = 0 /\ Cardinality(active) = 0
      BY <1>8, FS_EmptySet DEF TotalOf, Init
    <2> QED BY <2>1, QueueAssumption DEF PlacesCounted
  <1> QED BY <1>1, <1>3, <1>4, <1>5, <1>6, <1>7, <1>9 DEF JobsInv

LEMMA JobsStepInv == JobsInv /\ [Next]_vars => JobsInv'
  <1> SUFFICES ASSUME JobsInv, [Next]_vars PROVE JobsInv'
    OBVIOUS
  <1>1. QInv'
    BY QStepInv DEF JobsInv
  <1>2. CASE UNCHANGED vars \/ LeaveLoop
    BY <1>1, <1>2, StillJobsInv DEF vars, pool, LeaveLoop
  <1> QED BY <1>1, <1>2, QuietJobsInv, PopJobsInv, DeleteJobsInv, RenewJobsInv
          DEF Next, LoopStep, JobStep

\* The jobs of an account in the pool are one at most.
LEMMA SoleJobsAreOne ==
  ASSUME JobsInv, NEW a \in Account, InPool(a)
  PROVE  JobsOf(a) <= 1
  <1> DEFINE counts == [t \in {x \in Token : Owner(x) = a} |-> Jobs(t)]
             units == Units(counts)
  <1>1. units = UNION {{t} \X (1..Jobs(t)) : t \in {x \in Token : Owner(x) = a}}
    BY DEF Units
  <1>2. \A u \in units : \E t \in Token : Owner(t) = a /\ u = <<t, 1>> /\ Jobs(t) > 0
    <2>1. TAKE u \in units
    <2>2. PICK t \in Token : Owner(t) = a /\ u \in {t} \X (1..Jobs(t))
      BY <1>1
    <2>3. Jobs(t) \in Nat
      BY JobsTyped DEF JobsInv
    <2>4. Jobs(t) > 0
      BY <2>2, <2>3
    <2>5. Jobs(t) = 1
      BY <2>2, <2>4 DEF JobsInv, SoleJobs
    <2> QED BY <2>2, <2>4, <2>5
  <1>3. \A u, v \in units : u = v
    BY <1>2 DEF JobsInv, SoleJobs
  <1> HIDE DEF units
  <1>4. units = {} \/ \E u : units = {u}
    BY <1>3
  <1>5. Cardinality(units) = 0 \/ Cardinality(units) = 1
    BY <1>4, FS_EmptySet, FS_Singleton
  <1> QED BY <1>5 DEF JobsOf, TotalOf, units

\* The places for verifications are neither exceeded, nor given twice to an account that
\* is in the pool, nor lost unless its token is renewed meanwhile
\* (_start_pending_image_failure_refreshes and the finally block of refresh).
THEOREM JobsAreSound == Spec => []JobsSound
  <1>1. JobsInv => JobsSound
    <2> SUFFICES ASSUME JobsInv PROVE ConcurrencyBound /\ OneJobPerAccount
      BY DEF JobsInv, JobsSound
    <2>1. ConcurrencyBound
      <3>1. TotalOf(JobCounts) <= Cardinality(active) /\ Cardinality(active) <= MaxConcurrent
        BY DEF JobsInv, PlacesCounted
      <3>2. TotalOf(JobCounts) \in Nat
        BY JobsTyped DEF JobsInv
      <3>3. IsFiniteSet(active)
        BY TokenFinite, FS_Subset DEF JobsInv, QInv, TypeOK
      <3>4. Cardinality(active) \in Nat
        BY <3>3, FS_CardinalityType
      <3>5. TotalOf(JobCounts) <= MaxConcurrent
        BY <3>1, <3>2, <3>4, QueueAssumption
      <3> QED BY <3>5 DEF ConcurrencyBound, JobCounts
    <2>2. OneJobPerAccount
      BY SoleJobsAreOne DEF OneJobPerAccount
    <2> QED BY <2>1, <2>2
  <1> QED BY <1>1, JobsInitInv, JobsStepInv, PTL DEF Spec
=============================================================================
