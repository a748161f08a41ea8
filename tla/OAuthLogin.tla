------------------------------ MODULE OAuthLogin ------------------------------
(***************************************************************************)
(* Accounts that an administrator logs in by hand                          *)
(* (services/oauth_login_service.py and its two routes in                  *)
(* api/accounts.py).  A session holds the secret that belongs to one       *)
(* authorisation page; the code that the page ends with is pasted back,    *)
(* alone or in the address with its state, and exchanged for tokens        *)
(* outside the lock.  Several pages may be open, several codes be pasted   *)
(* at once, and sessions grow old meanwhile.                               *)
(***************************************************************************)
EXTENDS Naturals, FiniteSets

CONSTANTS
  LoginThread,  \* requests that finish a login
  MaxSessions,  \* _MAX_SESSIONS
  SessionTtl,   \* _SESSION_TTL_SECONDS, in ticks
  MaxStarted,   \* bound: sessions
  MaxPages,     \* bound: logins at one page
  MaxTime       \* bound: ticks

ASSUME OAuthLoginAssumption ==
  {MaxSessions, SessionTtl, MaxStarted, MaxPages, MaxTime} \subseteq Nat

Session == 1..MaxStarted
NoSession == 0
\* A code was issued at the page of a session, the how-many-th there.
Code == [page : Session, visit : 1..MaxPages]
NoCode == [page |-> NoSession, visit |-> 0]

VARIABLES
  sessions, \* _sessions
  created,  \* created_at, by session
  pages,    \* authorisation pages so far
  issued,   \* codes that browsers came back with
  spent,    \* codes that were exchanged, for upstream
  finish,   \* where a request that finishes a login is
  code,     \* the code it was given
  stated,   \* it came in an address, with its state
  picked,   \* the session whose secret it uses
  added,    \* accounts added, by the code they came from
  time

loginVars == <<sessions, created, pages, issued, spent, finish, code, stated, picked, added, time>>

LoginTypeOK ==
  /\ sessions \subseteq Session /\ created \in [Session -> 0..MaxTime] /\ pages \in 0..MaxStarted
  /\ issued \subseteq Code /\ spent \subseteq issued /\ added \subseteq spent
  /\ finish \in [LoginThread -> {"idle", "exchange", "consume", "add", "refresh"}]
  /\ code \in [LoginThread -> Code \cup {NoCode}] /\ stated \in [LoginThread -> BOOLEAN]
  /\ picked \in [LoginThread -> Session \cup {NoSession}] /\ time \in 0..MaxTime

LoginInit ==
  /\ sessions = {} /\ created = [s \in Session |-> 0] /\ pages = 0
  /\ issued = {} /\ spent = {} /\ added = {} /\ time = 0
  /\ finish = [f \in LoginThread |-> "idle"] /\ code = [f \in LoginThread |-> NoCode]
  /\ stated = [f \in LoginThread |-> FALSE] /\ picked = [f \in LoginThread |-> NoSession]

threadVars == <<finish, code, stated, picked>>

\* The request is answered.
Answer(f) ==
  /\ finish' = [finish EXCEPT ![f] = "idle"] /\ code' = [code EXCEPT ![f] = NoCode]
  /\ stated' = [stated EXCEPT ![f] = FALSE] /\ picked' = [picked EXCEPT ![f] = NoSession]

\* _purge_expired_locked: the expired ones, then the oldest of too many.
Fresh == {s \in sessions : time - created[s] <= SessionTtl}
Purged == {s \in Fresh : Cardinality({t \in Fresh : t > s}) < MaxSessions}

\* start
StartLogin ==
  /\ pages < MaxStarted
  /\ pages' = pages + 1
  /\ sessions' = Purged \cup {pages + 1} /\ created' = [created EXCEPT ![pages + 1] = time]
  /\ UNCHANGED <<issued, spent, added, time, threadVars>>

\* The page of a session that may be long forgotten is visited, and returns a code.
Visit(s) ==
  /\ s <= pages
  /\ \E v \in 1..MaxPages :
       LET c == [page |-> s, visit |-> v] IN c \notin issued /\ issued' = issued \cup {c}
  /\ UNCHANGED <<sessions, created, pages, spent, added, time, threadVars>>

\* finish tries the session that the state names, then the one the page of the
\* console knows.
Candidate(c, withState, body) ==
  IF withState /\ c.page \in Purged THEN c.page
  ELSE IF body \in Purged THEN body ELSE NoSession

\* A faulty variant, for the mutation runs: any session that is found will do.
AcceptsAny(c, withState, s) == s # NoSession

\* The state of an address is compared with that of the session.
Accepts(c, withState, s) == s # NoSession /\ (withState => s = c.page)

Paste(f) ==
  /\ finish[f] = "idle" /\ sessions' = Purged
  /\ \E c \in issued, withState \in BOOLEAN, body \in 0..pages :
       LET s == Candidate(c, withState, body) IN
       /\ withState \/ body # NoSession
       /\ IF Accepts(c, withState, s)
          THEN /\ finish' = [finish EXCEPT ![f] = "exchange"] /\ code' = [code EXCEPT ![f] = c]
               /\ stated' = [stated EXCEPT ![f] = withState] /\ picked' = [picked EXCEPT ![f] = s]
          ELSE UNCHANGED threadVars
  /\ UNCHANGED <<created, pages, issued, spent, added, time>>

\* _exchange_code: tokens; or the answer is lost, or lacks the refresh token;
\* or the code is not for this secret, or was exchanged before.
Exchange(f) ==
  /\ finish[f] = "exchange"
  /\ IF code[f].page = picked[f] /\ code[f] \notin spent
     THEN \/ spent' = spent \cup {code[f]} /\ finish' = [finish EXCEPT ![f] = "consume"]
             /\ UNCHANGED <<code, stated, picked>>
          \/ spent' \in {spent, spent \cup {code[f]}} /\ Answer(f)
     ELSE Answer(f) /\ UNCHANGED spent
  /\ UNCHANGED <<sessions, created, pages, issued, added, time>>

\* Only after that the session is used up.
Consume(f) ==
  /\ finish[f] = "consume" /\ sessions' = sessions \ {picked[f]}
  /\ finish' = [finish EXCEPT ![f] = "add"]
  /\ UNCHANGED <<created, pages, issued, spent, code, stated, picked, added, time>>

\* The route adds the account, then has it refreshed.
AddAccount(f) ==
  /\ finish[f] = "add" /\ added' = added \cup {code[f]}
  /\ finish' = [finish EXCEPT ![f] = "refresh"]
  /\ UNCHANGED <<sessions, created, pages, issued, spent, code, stated, picked, time>>

AnswerLogin(f) ==
  /\ finish[f] = "refresh" /\ Answer(f)
  /\ UNCHANGED <<sessions, created, pages, issued, spent, added, time>>

LoginTick ==
  /\ time < MaxTime /\ time' = time + 1
  /\ UNCHANGED <<sessions, created, pages, issued, spent, added, threadVars>>

LoginNext ==
  \/ StartLogin \/ LoginTick
  \/ \E s \in Session : Visit(s)
  \/ \E f \in LoginThread : Paste(f) \/ Exchange(f) \/ Consume(f) \/ AddAccount(f) \/ AnswerLogin(f)

LoginSpec == LoginInit /\ [][LoginNext]_loginVars

------------------------------------------------------------------------------
(* Correctness *)

\* A code that was pasted with its address is sent with the secret of its own
\* page, whatever other pages were opened since, whatever session the console
\* names and however old either is; what is added as an account was exchanged
\* just for it, by one request only.
LoginsMeetTheirSession ==
  /\ \A f \in LoginThread : finish[f] # "idle" /\ stated[f] => picked[f] = code[f].page
  /\ \A f, g \in LoginThread :
       {finish[f], finish[g]} \subseteq {"consume", "add", "refresh"} /\ code[f] = code[g] => f = g
  /\ \A f \in LoginThread : finish[f] \in {"consume", "add"} => code[f] \in spent \ added

\* Not so: sessions are purged before one is added, so there may be one more.
SessionsWithinCap == Cardinality(sessions) <= MaxSessions

\* Not so: a code is lost with an answer that is lost or lacks a refresh token,
\* although the session is kept for another try with it.
LostCodesAreNotSpent ==
  \A c \in spent \ added : \E f \in LoginThread : code[f] = c /\ finish[f] \in {"consume", "add"}
=============================================================================
