---------------------------- MODULE Calls_proofs -----------------------------
(***************************************************************************)
(* Proofs about three of the parts of MCCalls: the renewal of credentials, *)
(* the cache of text completions, and the calls for images.                *)
(***************************************************************************)
EXTENDS OAuthRefresh, ChatCache, ImageCall, SequenceTheorems, FiniteSetTheorems, TLAPS

------------------------------------------------------------------------------
(* The renewal of credentials (OAuthRefresh)                               *)
(*                                                                         *)
(* Proofs about the renewal of credentials: for any number of callers,     *)
(* calls and issued credentials, no flight is orphaned and the account     *)
(* keeps a credential the provider knows.                                  *)
(*                                                                         *)
(* Two facts carry both: whoever is between TakeLock and its release is    *)
(* the holder of the lock, so one caller at a time spends a refresh        *)
(* token; and an owner's credential names the flight it owns, so no two    *)
(* owners publish to the same future.                                      *)

USE OAuthAssumption

------------------------------------------------------------------------------
(* Types *)

LEMMA InitTypes == Init => TypeOK
  BY DEF Init, TypeOK, Credential, Outcome, Step, Nothing

LEMMA StepTypes == TypeOK /\ [Next]_vars => TypeOK'
  <1> SUFFICES ASSUME TypeOK, [Next]_vars PROVE TypeOK'
    OBVIOUS
  <1> USE DEF TypeOK, Goto, Note, provider, Step, Owning, Holding, Outcome
  <1>1. CASE UNCHANGED vars
    BY <1>1 DEF vars
  <1>2. CASE Login
    BY <1>2 DEF Login, Credential
  <1>3. CASE ApplyRelogin
    BY <1>3 DEF ApplyRelogin, Credential
  <1>4. CASE Revoke
    BY <1>4 DEF Revoke
  <1>5. ASSUME NEW w \in Caller, Call(w) PROVE TypeOK'
    BY <1>5 DEF Call, Snapshot
  <1>6. ASSUME NEW w \in Caller, Enter(w) PROVE TypeOK'
    <2>1. CASE mine[w] \in DOMAIN flights
      BY <1>6, <2>1 DEF Enter, Flight
    <2>2. CASE mine[w] \notin DOMAIN flights
      <3>1. DOMAIN flights' = DOMAIN flights \cup {mine[w]} /\ UNCHANGED outcome
        BY <1>6, <2>2 DEF Enter
      <3>2. ASSUME NEW c \in DOMAIN flights' PROVE flights'[c] \in Flight
        BY <1>6, <2>2, <3>1, <3>2 DEF Enter, Flight
      <3>3. DOMAIN flights' \subseteq Credential
        BY <3>1
      <3>4. pc' \in [Caller -> Step]
        BY <1>6, <2>2 DEF Enter
      <3>5. UNCHANGED <<stored, status, issued, live, spoiled, relogin, lock, mine,
                        attempt, outcome, answer, calls>>
        BY <1>6, <3>1 DEF Enter
      <3>6. \A c \in DOMAIN flights' : flights'[c] \in Flight
        BY <3>2
      <3> QED
        BY <3>3, <3>4, <3>5, <3>6 DEF Credential
    <2> QED
      BY <2>1, <2>2
  <1>7. ASSUME NEW w \in Caller, TakeLock(w) \/ AskFailed(w) \/ AskRefused(w) PROVE TypeOK'
    BY <1>7 DEF TakeLock, AskFailed, AskRefused
  <1>8. ASSUME NEW w \in Caller, AskGranted(w) PROVE TypeOK'
    <2>1. /\ issued + 1 \in Credential /\ issued + 1 \in 0..(issued + 1)
          /\ 0..issued \subseteq 0..(issued + 1)
      BY <1>8 DEF AskGranted, Exchange, Credential
    <2>2. mine[w] \in 0..issued /\ live' \subseteq live \cup {issued + 1}
      BY <1>8 DEF AskGranted, Exchange
    <2>3. live' \subseteq 0..issued' /\ spoiled' \subseteq 0..issued'
      BY <1>8, <2>1, <2>2 DEF AskGranted, Exchange
    <2> QED
      BY <1>8, <2>1, <2>3 DEF AskGranted, Exchange
  <1>9. ASSUME NEW w \in Caller, AskLost(w) PROVE TypeOK'
    <2>1. /\ issued + 1 \in Credential /\ issued + 1 \in 0..(issued + 1)
          /\ 0..issued \subseteq 0..(issued + 1)
      BY <1>9 DEF AskLost, Exchange, Credential
    <2>2. mine[w] \in 0..issued /\ live' \subseteq live \cup {issued + 1}
      BY <1>9 DEF AskLost, Exchange
    <2>3. live' \subseteq 0..issued' /\ spoiled' \subseteq 0..issued'
      BY <1>9, <2>1, <2>2 DEF AskLost, Exchange
    <2> QED
      BY <1>9, <2>1, <2>3 DEF AskLost, Exchange
  <1>10. ASSUME NEW w \in Caller, Apply(w) PROVE TypeOK'
    BY <1>10 DEF Apply, Credential
  <1>11. ASSUME NEW w \in Caller, Fail(w) \/ Condemn(w) \/ RemoveAccount(w) PROVE TypeOK'
    BY <1>11 DEF Fail, Condemn, RemoveAccount
  <1>12. ASSUME NEW w \in Caller, Publish(w) PROVE TypeOK'
    BY <1>12 DEF Publish, Flight
  <1>13. ASSUME NEW w \in Caller, Pop(w) PROVE TypeOK'
    BY <1>13 DEF Pop
  <1>14. ASSUME NEW w \in Caller, Return(w) PROVE TypeOK'
    BY <1>14 DEF Return, Snapshot, Credential
  <1> QED
    BY <1>1, <1>2, <1>3, <1>4, <1>5, <1>6, <1>7, <1>8, <1>9, <1>10, <1>11, <1>12,
       <1>13, <1>14 DEF Next, Proceed

\* Every variable keeps to its values, for all callers and bounds: TypeOK.
THEOREM TypeCorrect == Spec => []TypeOK
  BY InitTypes, StepTypes, PTL DEF Spec
------------------------------------------------------------------------------
(* Flights *)

\* A caller that owns a flight finds it under its own credential.
FlightOfOwner == \A w \in Caller : pc[w] \in Owning =>
  mine[w] \in DOMAIN flights /\ flights[mine[w]].owner = w

\* What is published is a result.
ResultKnown == \A w \in Caller : pc[w] = "publish" => outcome[w] # "pending"

FlightInv == TypeOK /\ NobodyWaitsInVain /\ FlightOfOwner /\ ResultKnown

LEMMA InitFlights == Init => FlightInv
  BY InitTypes DEF Init, FlightInv, NobodyWaitsInVain, FlightOfOwner, ResultKnown,
     Owning, Holding

LEMMA StepFlights == FlightInv /\ [Next]_vars => FlightInv'
  <1> SUFFICES ASSUME FlightInv, [Next]_vars PROVE FlightInv'
    OBVIOUS
  <1>t. TypeOK /\ TypeOK'
    BY StepTypes DEF FlightInv
  <1> USE DEF FlightInv, NobodyWaitsInVain, FlightOfOwner, ResultKnown, Goto, Note,
              Owning, Holding
  <1>1. CASE UNCHANGED vars
    BY <1>t, <1>1 DEF vars
  <1>2. CASE Login \/ ApplyRelogin \/ Revoke
    BY <1>t, <1>2 DEF Login, ApplyRelogin, Revoke
  <1>3. ASSUME NEW w \in Caller, Call(w) \/ Return(w) PROVE FlightInv'
    BY <1>t, <1>3 DEF Call, Return, Snapshot, TypeOK, Flight
  <1>4. ASSUME NEW w \in Caller, Enter(w) PROVE FlightInv'
    BY <1>t, <1>4 DEF Enter, TypeOK, Flight
  <1>5. ASSUME NEW w \in Caller,
               TakeLock(w) \/ AskGranted(w) \/ AskLost(w) \/ AskFailed(w) \/ AskRefused(w)
        PROVE FlightInv'
    BY <1>t, <1>5 DEF TakeLock, AskGranted, AskLost, AskFailed, AskRefused, TypeOK, Flight
  <1>6. ASSUME NEW w \in Caller, Apply(w) \/ Fail(w) \/ Condemn(w) \/ RemoveAccount(w)
        PROVE FlightInv'
    BY <1>t, <1>6 DEF Apply, Fail, Condemn, RemoveAccount, TypeOK, Flight
  <1>7. ASSUME NEW w \in Caller, Publish(w) PROVE FlightInv'
    BY <1>t, <1>7 DEF Publish, TypeOK, Flight, Outcome
  <1>8. ASSUME NEW w \in Caller, Pop(w) PROVE FlightInv'
    BY <1>t, <1>8 DEF Pop, TypeOK, Flight
  <1> QED
    BY <1>1, <1>2, <1>3, <1>4, <1>5, <1>6, <1>7, <1>8 DEF Next, Proceed

\* No flight is orphaned and whoever waits will be told, however the callers
\* interleave and however their requests fail: NobodyWaitsInVain.
THEOREM NoOrphanedFlight == Spec => []NobodyWaitsInVain
  <1>1. FlightInv => NobodyWaitsInVain
    BY DEF FlightInv
  <1> QED
    BY <1>1, InitFlights, StepFlights, PTL DEF Spec
------------------------------------------------------------------------------
(* Credentials *)

\* The lock is held exactly by the caller that is between TakeLock and its release.
LockHeld == \A w \in Caller : pc[w] \in Holding <=> lock = w

\* Every credential in use was issued.
OnlyIssued ==
  /\ stored \in 0..issued \cup {Gone}
  /\ \A w \in Caller : mine[w] \in 0..issued /\ answer[w] \in 0..issued

\* A fresh login's credential is nobody's yet, so no request can spend it.
ReloginFresh == relogin # Nothing =>
  /\ relogin \in live \cup spoiled
  /\ relogin # 0 /\ relogin # stored
  /\ \A w \in Caller : relogin # mine[w] /\ relogin # answer[w]

\* An answer that will be written is good, or a login supersedes it.
AnswerGood == \A w \in Caller : pc[w] = "apply" =>
  answer[w] \in live \cup spoiled \/ relogin # Nothing \/ stored # mine[w]

KeptInv ==
  TypeOK /\ LockHeld /\ OnlyIssued /\ ReloginFresh /\ AnswerGood /\ CredentialKept

LEMMA InitKept == Init => KeptInv
  BY InitTypes DEF Init, KeptInv, LockHeld, OnlyIssued, ReloginFresh, AnswerGood,
     CredentialKept, Holding

LEMMA StepKept == KeptInv /\ [Next]_vars => KeptInv'
  <1> SUFFICES ASSUME KeptInv, [Next]_vars PROVE KeptInv'
    OBVIOUS
  <1>t. TypeOK /\ TypeOK'
    BY StepTypes DEF KeptInv
  <1> USE DEF KeptInv, LockHeld, OnlyIssued, ReloginFresh, AnswerGood, CredentialKept,
              Goto, Note, provider, Holding
  <1>1. CASE UNCHANGED vars
    BY <1>t, <1>1 DEF vars
  <1>2. CASE Login
    BY <1>t, <1>2 DEF Login, TypeOK, Nothing, Gone, Credential
  <1>3. CASE ApplyRelogin
    BY <1>t, <1>3 DEF ApplyRelogin, TypeOK, Nothing, Gone, Credential
  <1>4. CASE Revoke
    BY <1>t, <1>4 DEF Revoke, TypeOK, Nothing, Gone, Credential
  <1>5. ASSUME NEW w \in Caller, Call(w) \/ Return(w) PROVE KeptInv'
    BY <1>t, <1>5 DEF Call, Return, Snapshot, TypeOK, Nothing, Gone, Credential
  <1>6. ASSUME NEW w \in Caller, Enter(w) PROVE KeptInv'
    BY <1>t, <1>6 DEF Enter, TypeOK
  <1>7. ASSUME NEW w \in Caller, TakeLock(w) \/ AskFailed(w) \/ AskRefused(w)
        PROVE KeptInv'
    BY <1>t, <1>7 DEF TakeLock, AskFailed, AskRefused, TypeOK
  <1>8. ASSUME NEW w \in Caller, AskGranted(w) PROVE KeptInv'
    BY <1>t, <1>8 DEF AskGranted, Exchange, TypeOK, Nothing, Gone, Credential
  <1>9. ASSUME NEW w \in Caller, AskLost(w) PROVE KeptInv'
    BY <1>t, <1>9 DEF AskLost, Exchange, TypeOK, Nothing, Gone, Credential
  <1>10. ASSUME NEW w \in Caller, Apply(w) PROVE KeptInv'
    BY <1>t, <1>10 DEF Apply, TypeOK, Nothing, Gone, Credential
  <1>11. ASSUME NEW w \in Caller, Fail(w) \/ Condemn(w) \/ RemoveAccount(w) PROVE KeptInv'
    BY <1>t, <1>11 DEF Fail, Condemn, RemoveAccount, TypeOK, Nothing, Gone, Credential
  <1>12. ASSUME NEW w \in Caller, Publish(w) \/ Pop(w) PROVE KeptInv'
    BY <1>t, <1>12 DEF Publish, Pop, TypeOK
  <1> QED
    BY <1>1, <1>2, <1>3, <1>4, <1>5, <1>6, <1>7, <1>8, <1>9, <1>10, <1>11, <1>12
       DEF Next, Proceed

\* Refreshes, relogins and removals in any order leave the account with a
\* credential that was not used up by this program: CredentialKept.
THEOREM KeepsCredential == Spec => []CredentialKept
  <1>1. KeptInv => CredentialKept
    BY DEF KeptInv
  <1> QED
    BY <1>1, InitKept, StepKept, PTL DEF Spec

------------------------------------------------------------------------------
(* The cache of text completions (ChatCache)                               *)
(*                                                                         *)
(* Proofs about the cache of text completions: for any number of callers,  *)
(* threads and chunks, one caller at a time computes, and whoever is       *)
(* answered has the whole answer.                                          *)
(*                                                                         *)
(* The call in flight belongs to the caller that computes until the step   *)
(* that removes it, so that removing whatever is registered under the key  *)
(* never removes another's.  What is stored or told is whole because only  *)
(* Store makes it, and only of a stream that came to its end.              *)

USE ChatCacheAssumption

\* A caller whose call is in flight.
OwnsFlight(c) == ccStep[c] \in {"computing", "closing"}

OwnerInv == \A c \in CcCaller : OwnsFlight(c) => chatInflight = c

\* A whole answer.
Whole(v) == v \in [by : CcCaller, chunks : {Chunks}]

\* What those who wait may be told, in a whole answer and in any.
WholeReplies == {Pending, Failed} \cup {Replied(v) : v \in [by : CcCaller, chunks : {Chunks}]}
Replies == {Pending, Failed} \cup {Replied(v) : v \in Answer}

WholeInv ==
  /\ entry # NoAnswer => Whole(entry)
  /\ \A c \in CcCaller :
       /\ reply[c] \in WholeReplies
       /\ ccStep[c] \in {"telling", "answered"} => Whole(received[c])

\* What a caller has received tells whom it follows or is served from, and an idle
\* one has nothing.
ReceivedInv ==
  \A c \in CcCaller :
    /\ ccStep[c] = "idle" => received[c] = NoAnswer
    /\ ccStep[c] \in {"following", "serving", "sharing"} => received[c].by \in CcCaller

\* Whoever has a lock has it once at least.
LockInv ==
  /\ lockOwner # NoOne => lockDepth > 0
  /\ \A c \in CcCaller : condOwner[c] # NoOne => condDepth[c] > 0

CacheInv == ChatCacheTypeOK /\ OwnerInv /\ WholeInv /\ ReceivedInv /\ LockInv

LEMMA CacheInitInv == ChatCacheInit => CacheInv
  BY DEF ChatCacheInit, CacheInv, ChatCacheTypeOK, OwnerInv, OwnsFlight, WholeInv,
         ReceivedInv, LockInv, WholeReplies, NoAnswer, Pending

------------------------------------------------------------------------------
(* One computes *)

LEMMA FlightStep == ChatCacheTypeOK /\ OwnerInv /\ [ChatCacheNext]_ccVars => OwnerInv'
  <1> SUFFICES ASSUME ChatCacheTypeOK, OwnerInv, [ChatCacheNext]_ccVars PROVE OwnerInv'
    OBVIOUS
  <1> USE DEF ChatCacheTypeOK, OwnerInv, OwnsFlight, CcGo, EndServed, ccLock, ccConditions, ccLocks
  <1>1. CASE UNCHANGED ccVars
    BY <1>1 DEF ccVars
  <1>2. ASSUME NEW c \in CcCaller, LookUp(c) PROVE OwnerInv'
    <2>1. PICK t \in CcThread, stream \in BOOLEAN : Hit(c, t, stream) \/ Join(c) \/ Own(c)
      BY <1>2 DEF LookUp
    <2>2. CASE Hit(c, t, stream)
      BY <2>2 DEF Hit
    <2>3. CASE Join(c)
      BY <2>3 DEF Join
    <2>4. CASE Own(c)
      BY <2>4 DEF Own
    <2> QED
      BY <2>1, <2>2, <2>3, <2>4
  <1>3. ASSUME NEW c \in CcCaller, Chunk(c) \/ ComputeFails(c) PROVE OwnerInv'
    BY <1>3 DEF Chunk, ComputeFails
  <1>4. ASSUME NEW c \in CcCaller, GiveUpComputing(c) \/ Store(c) PROVE OwnerInv'
    BY <1>4 DEF GiveUpComputing, Store
  <1>5. ASSUME NEW c \in CcCaller, Tell(c) \/ Wake(c) PROVE OwnerInv'
    BY <1>5 DEF Tell, Wake
  <1>6. ASSUME NEW c \in CcCaller, ServeChunk(c) \/ ServeEnds(c) \/ ShareEnds(c) PROVE OwnerInv'
    BY <1>6 DEF ServeChunk, ServeEnds, ShareEnds
  <1>7. CASE Expire
    BY <1>7 DEF Expire
  <1> QED
    BY <1>1, <1>2, <1>3, <1>4, <1>5, <1>6, <1>7 DEF ChatCacheNext

------------------------------------------------------------------------------
(* Whole answers *)

\* One step of a caller changes nobody else's.
LEMMA AnswerStep ==
  CacheInv /\ [ChatCacheNext]_ccVars => ChatCacheTypeOK' /\ WholeInv' /\ ReceivedInv' /\ LockInv'
  <1> SUFFICES ASSUME CacheInv, [ChatCacheNext]_ccVars
               PROVE  ChatCacheTypeOK' /\ WholeInv' /\ ReceivedInv' /\ LockInv'
    OBVIOUS
  <1> USE DEF CacheInv, ChatCacheTypeOK, WholeInv, ReceivedInv, LockInv, Whole, CcGo, EndServed,
              ccLock, ccConditions, ccLocks, Answer
  <1>1. CASE UNCHANGED ccVars
    BY <1>1 DEF ccVars
  <1>2. ASSUME NEW c \in CcCaller, LookUp(c)
        PROVE  ChatCacheTypeOK' /\ WholeInv' /\ ReceivedInv' /\ LockInv'
    <2>1. PICK t \in CcThread, stream \in BOOLEAN : Hit(c, t, stream) \/ Join(c) \/ Own(c)
      BY <1>2 DEF LookUp
    <2>2. UNCHANGED entry /\ streams' \subseteq CcCaller /\ received[c] = NoAnswer
      BY <1>2 DEF LookUp
    <2>3. CASE Hit(c, t, stream)
      <3>1. CASE stream
        BY <2>2, <2>3, <3>1 DEF Hit, OneMore, NoAnswer
      <3>2. CASE ~stream
        BY <2>2, <2>3, <3>2 DEF Hit
      <3> QED
        BY <3>1, <3>2
    <2>4. CASE Join(c)
      BY <2>2, <2>4 DEF Join
    <2>5. CASE Own(c)
      BY <2>2, <2>5 DEF Own
    <2> QED
      BY <2>1, <2>3, <2>4, <2>5
  <1>3. ASSUME NEW c \in CcCaller, Chunk(c)
        PROVE  ChatCacheTypeOK' /\ WholeInv' /\ ReceivedInv' /\ LockInv'
    <2>1. received[c] \in [by : CcCaller \cup {NoOne}, chunks : 0..Chunks]
      BY DEF NoAnswer
    <2>2. received[c].chunks + 1 \in 0..Chunks
      BY <1>3, <2>1 DEF Chunk
    <2>3. received' = [received EXCEPT ![c] = [by |-> c, chunks |-> received[c].chunks + 1]]
      BY <1>3 DEF Chunk, OneMore
    <2>4. received' \in [CcCaller -> Answer \cup {NoAnswer}]
      BY <2>2, <2>3
    <2>5. UNCHANGED <<ccStep, streams, reply, entry, chatInflight, ccLocks>>
      BY <1>3 DEF Chunk
    <2>6. ccStep[c] = "computing"
      BY <1>3 DEF Chunk
    <2>7. ChatCacheTypeOK'
      BY <2>4, <2>5
    <2>8. \A d \in CcCaller \ {c} : received'[d] = received[d]
      BY <2>3
    <2> QED
      BY <2>5, <2>6, <2>7, <2>8
  <1>4. ASSUME NEW c \in CcCaller, ComputeFails(c) \/ GiveUpComputing(c)
        PROVE  ChatCacheTypeOK' /\ WholeInv' /\ ReceivedInv' /\ LockInv'
    BY <1>4 DEF ComputeFails, GiveUpComputing
  <1>5. ASSUME NEW c \in CcCaller, Store(c)
        PROVE  ChatCacheTypeOK' /\ WholeInv' /\ ReceivedInv' /\ LockInv'
    BY <1>5 DEF Store
  <1>6. ASSUME NEW c \in CcCaller, Tell(c)
        PROVE  ChatCacheTypeOK' /\ WholeInv' /\ ReceivedInv' /\ LockInv'
    <2> DEFINE r == IF ccStep[c] = "telling" THEN Replied(received[c]) ELSE Failed
    <2>1. reply' = [d \in DOMAIN reply |-> IF d = c THEN r ELSE reply[d]]
      BY <1>6 DEF Tell
    <2>2. r \in WholeReplies /\ r \in Replies
      BY <1>6 DEF Tell, WholeReplies, Replies
    <2> HIDE DEF r
    <2>3. \A d \in CcCaller : reply[d] \in WholeReplies /\ reply[d] \in Replies
      BY DEF Replies
    <2>4. DOMAIN reply = CcCaller
      OBVIOUS
    <2>5. \A d \in CcCaller : reply'[d] \in WholeReplies /\ reply'[d] \in Replies
      BY <2>1, <2>2, <2>3
    <2>6. UNCHANGED <<streams, received, entry, chatInflight, ccLocks>>
      BY <1>6 DEF Tell
    <2>7. \/ ccStep[c] = "telling" /\ CcGo(c, "answered")
          \/ ccStep[c] = "excusing" /\ CcGo(c, "failed")
      BY <1>6 DEF Tell
    <2>8. ChatCacheTypeOK'
      <3>1. reply' \in [CcCaller -> Replies]
        BY <2>1, <2>4, <2>5
      <3>2. ccStep' \in [CcCaller -> {"idle", "computing", "closing", "telling", "excusing",
                                     "following", "serving", "sharing", "answered", "failed", "left"}]
        BY <2>7
      <3> QED
        BY <2>6, <3>1, <3>2 DEF Replies
    <2>9. \A d \in CcCaller : ccStep'[d] \in {"telling", "answered"} => Whole(received[d])
      BY <2>7
    <2>10. ReceivedInv'
      BY <2>6, <2>7
    <2> QED
      BY <2>5, <2>6, <2>8, <2>9, <2>10
  <1>7. ASSUME NEW c \in CcCaller, Wake(c)
        PROVE  ChatCacheTypeOK' /\ WholeInv' /\ ReceivedInv' /\ LockInv'
    <2> DEFINE call == received[c].by
    <2>1. call \in CcCaller /\ ccStep[c] = "following"
      BY <1>7 DEF Wake
    <2>2. UNCHANGED <<streams, reply, entry, chatInflight, ccLock>>
      BY <1>7 DEF Wake
    <2>3. PICK t \in CcThread :
            /\ reply[call].done
            /\ \/ /\ reply[call].failed
                  /\ CcGo(c, "failed") /\ UNCHANGED <<received, ccConditions>>
               \/ /\ ~reply[call].failed /\ c \notin streams
                  /\ CcGo(c, "answered")
                  /\ received' = [received EXCEPT ![c] = reply[call].value]
                  /\ UNCHANGED ccConditions
               \/ /\ ~reply[call].failed /\ c \in streams
                  /\ CcGo(c, "sharing")
                  /\ received' = [received EXCEPT ![c] = [by |-> call, chunks |-> 1]]
                  /\ condOwner' = [condOwner EXCEPT ![call] = t]
                  /\ condDepth' = [condDepth EXCEPT ![call] = @ + 1]
      BY <1>7 DEF Wake
    <2> HIDE DEF call
    <2>4. CASE CcGo(c, "failed") /\ UNCHANGED <<received, ccConditions>>
      BY <2>1, <2>2, <2>4
    <2>5. CASE /\ reply[call].done /\ ~reply[call].failed
               /\ CcGo(c, "answered")
               /\ received' = [received EXCEPT ![c] = reply[call].value]
               /\ UNCHANGED ccConditions
      <3>1. Whole(reply[call].value)
        BY <2>1, <2>5 DEF WholeReplies, Pending, Failed, Replied
      <3> QED
        BY <2>1, <2>2, <2>5, <3>1
    <2>6. CASE /\ CcGo(c, "sharing")
               /\ received' = [received EXCEPT ![c] = [by |-> call, chunks |-> 1]]
               /\ condOwner' = [condOwner EXCEPT ![call] = t]
               /\ condDepth' = [condDepth EXCEPT ![call] = @ + 1]
      <3>1. received' \in [CcCaller -> Answer \cup {NoAnswer}] /\ received'[c].by \in CcCaller
        BY <2>1, <2>6
      <3>2. /\ condOwner' \in [CcCaller -> CcThread \cup {NoOne}] /\ condDepth' \in [CcCaller -> Nat]
            /\ LockInv'
        BY <2>1, <2>2, <2>6
      <3> QED
        BY <2>1, <2>2, <2>6, <3>1, <3>2
    <2> QED
      BY <2>3, <2>4, <2>5, <2>6
  <1>8. ASSUME NEW c \in CcCaller, ServeChunk(c)
        PROVE  ChatCacheTypeOK' /\ WholeInv' /\ ReceivedInv' /\ LockInv'
    <2>1. received[c].by \in CcCaller /\ received[c] \in Answer
      BY <1>8 DEF ServeChunk, NoAnswer
    <2>2. received[c].chunks + 1 \in 0..Chunks
      BY <1>8, <2>1 DEF ServeChunk
    <2>3. received' = [received EXCEPT ![c] = [by |-> received[c].by,
                                               chunks |-> received[c].chunks + 1]]
      BY <1>8 DEF ServeChunk, OneMore
    <2>4. received' \in [CcCaller -> Answer \cup {NoAnswer}]
      BY <2>1, <2>2, <2>3
    <2>5. UNCHANGED <<ccStep, streams, reply, entry, chatInflight, ccLocks>>
      BY <1>8 DEF ServeChunk
    <2>6. ccStep[c] \in {"serving", "sharing"}
      BY <1>8 DEF ServeChunk
    <2>7. ChatCacheTypeOK'
      BY <2>4, <2>5
    <2>8. \A d \in CcCaller \ {c} : received'[d] = received[d]
      BY <2>3
    <2>9. received'[c].by \in CcCaller
      BY <2>1, <2>3
    <2> QED
      BY <2>5, <2>6, <2>7, <2>8, <2>9
  <1>9. ASSUME NEW c \in CcCaller, ServeEnds(c)
        PROVE  ChatCacheTypeOK' /\ WholeInv' /\ ReceivedInv' /\ LockInv'
    <2>1. PICK t \in CcThread :
            IF t = lockOwner
            THEN /\ lockDepth' = lockDepth - 1
                 /\ lockOwner' = IF lockDepth = 1 THEN NoOne ELSE lockOwner
                 /\ EndServed(c)
            ELSE UNCHANGED ccLock /\ CcGo(c, "failed")
      BY <1>9 DEF ServeEnds
    <2>2. UNCHANGED <<streams, received, reply, entry, chatInflight, ccConditions>> /\ ccStep[c] = "serving"
      BY <1>9 DEF ServeEnds
    <2>3. received[c].by \in CcCaller /\ received[c] \in Answer
      BY <2>2 DEF NoAnswer
    <2>4. CASE t = lockOwner
      <3>1. lockDepth \in Nat /\ lockDepth > 0
        BY <2>1, <2>4
      <3>2. lockDepth' \in Nat /\ lockOwner' \in CcThread \cup {NoOne} /\ LockInv'
        BY <2>1, <2>2, <2>4, <3>1
      <3>3. \/ CcGo(c, "answered") /\ Whole(received[c])
            \/ CcGo(c, "left")
        BY <2>1, <2>3, <2>4
      <3> QED
        BY <2>2, <3>2, <3>3
    <2>5. CASE t # lockOwner
      BY <2>1, <2>2, <2>5
    <2> QED
      BY <2>4, <2>5
  <1>10. ASSUME NEW c \in CcCaller, ShareEnds(c)
         PROVE  ChatCacheTypeOK' /\ WholeInv' /\ ReceivedInv' /\ LockInv'
    <2> DEFINE call == received[c].by
    <2>1. PICK t \in CcThread :
            IF t = condOwner[call]
            THEN /\ condDepth' = [condDepth EXCEPT ![call] = @ - 1]
                 /\ condOwner' = [condOwner EXCEPT ![call] = IF condDepth[call] = 1 THEN NoOne ELSE @]
                 /\ EndServed(c)
            ELSE UNCHANGED ccConditions /\ CcGo(c, "failed")
      BY <1>10 DEF ShareEnds
    <2>2. UNCHANGED <<streams, received, reply, entry, chatInflight, ccLock>> /\ ccStep[c] = "sharing"
      BY <1>10 DEF ShareEnds
    <2>3. call \in CcCaller /\ received[c] \in Answer
      BY <2>2 DEF NoAnswer
    <2>4. CASE t = condOwner[call]
      <3>1. condDepth[call] \in Nat /\ condDepth[call] > 0
        BY <2>1, <2>3, <2>4
      <3>2. /\ condDepth' \in [CcCaller -> Nat] /\ condOwner' \in [CcCaller -> CcThread \cup {NoOne}]
            /\ LockInv'
        <4> HIDE DEF call
        <4> QED
          BY <2>1, <2>2, <2>3, <2>4, <3>1
      <3>3. \/ CcGo(c, "answered") /\ Whole(received[c])
            \/ CcGo(c, "left")
        BY <2>1, <2>3, <2>4
      <3> QED
        BY <2>2, <3>2, <3>3
    <2>5. CASE t # condOwner[call]
      BY <2>1, <2>2, <2>5
    <2> QED
      BY <2>4, <2>5
  <1>11. CASE Expire
    BY <1>11 DEF Expire
  <1> QED
    BY <1>1, <1>2, <1>3, <1>4, <1>5, <1>6, <1>7, <1>8, <1>9, <1>10, <1>11 DEF ChatCacheNext

LEMMA CacheInvariance == ChatCacheSpec => []CacheInv
  <1>1. CacheInv /\ [ChatCacheNext]_ccVars => CacheInv'
    BY FlightStep, AnswerStep DEF CacheInv
  <1> QED
    BY <1>1, CacheInitInv, PTL DEF ChatCacheSpec

\* The upstream is asked once for requests that come together.
THEOREM CacheOneComputes == ChatCacheSpec => []OneComputes
  <1>1. ASSUME CacheInv PROVE OneComputes
    <2> DEFINE computing == {c \in CcCaller : ccStep[c] = "computing"}
    <2>1. computing \subseteq {chatInflight}
      BY <1>1 DEF CacheInv, OwnerInv, OwnsFlight
    <2>2. IsFiniteSet({chatInflight}) /\ Cardinality({chatInflight}) = 1
      BY FS_Singleton
    <2>3. Cardinality(computing) <= 1
      BY <2>1, <2>2, FS_Subset
    <2> QED
      BY <2>3 DEF OneComputes
  <1> QED
    BY <1>1, CacheInvariance, PTL

\* Nobody is handed a part of an answer, whatever clients leave and streams break.
THEOREM CacheAnswersWhole == ChatCacheSpec => []AnswersWhole
  <1>1. CacheInv => AnswersWhole
    BY DEF CacheInv, WholeInv, Whole, AnswersWhole
  <1> QED
    BY <1>1, CacheInvariance, PTL

------------------------------------------------------------------------------
(* The calls for images (ImageCall)                                        *)
(*                                                                         *)
(* Proofs about the calls of the API for images: for any number of calls,  *)
(* of any kind and for any number of images, what the client is told is    *)
(* what it was sent and what is logged, once.                              *)
(*                                                                         *)
(* The argument is one about each call.  What was sent, with what is held, *)
(* is what the generator has yielded; and a generator that ends has all    *)
(* its images settled, because an image is taken only when it is made and, *)
(* without threads, begun only when those before it were taken.  So no     *)
(* thread of a call that is over enters it anew among the running ones.    *)

CallKindInv ==
  /\ asked \in Asks
  /\ at \in [ImCall -> Places] /\ held \in [ImCall -> Item \cup {"none"}]
  /\ {begun, opened, left} \subseteq [ImCall -> BOOLEAN]
  /\ verdict \in [ImCall -> Statuses \cup {"none"}]
  /\ got \in [ImCall -> Seq(Item \cup {"error", "end"})]
  /\ booked \in [ImCall -> Seq(Statuses)]
  /\ DOMAIN image = ImCall /\ DOMAIN taken = ImCall

\* No image of the call is being made, none will be.
Quiet(c) ==
  \A i \in Images(c) : /\ image[c][i] # "running"
                       /\ Parallel(c) /\ begun[c] => image[c][i] # "todo"

\* Images are taken when they are made and, without threads, made in turn.
TurnInv(c) ==
  /\ image[c] \in [Images(c) -> {"todo", "running", "made", "failed"}]
  /\ taken[c] \subseteq Images(c)
  /\ \A i \in taken[c] : image[c][i] = "made"
  /\ ~begun[c] => \A i \in Images(c) : image[c][i] = "todo"
  /\ ~Parallel(c) => \A i \in Images(c) : image[c][i] # "todo" => 1..(i - 1) \subseteq taken[c]

Over(c) == at[c] \in {"closing", "ended"}

\* What is known of a call by where it is.
PlaceInv(c) ==
  /\ at[c] = "new" => ~begun[c] /\ ~opened[c] /\ c \notin active
  /\ at[c] \in {"new", "handling", "fetching"} => held[c] = "none"
  /\ at[c] = "holding" => held[c] # "none"
  /\ at[c] \in {"fetching", "holding"} => asked[c].stream
  /\ at[c] = "booking" => /\ verdict[c] \in Statuses
                          /\ held[c] # "none" => left[c]
                          /\ ~left[c] /\ verdict[c] = "success" => taken[c] = Images(c)
  /\ at[c] \in {"booking", "ended"} /\ ~left[c] => Quiet(c)
  /\ at[c] = "closing" => left[c]

\* The log has a call when it is over, and once.
BookInv(c) ==
  /\ ~Over(c) => booked[c] = <<>>
  /\ Len(booked[c]) <= 1
  /\ Over(c) /\ opened[c] => booked[c] # <<>>
  /\ at[c] = "ended" /\ ~left[c] =>
       /\ c \notin active
       /\ \/ booked[c] = <<IF Last(got[c]) = "end" THEN "success" ELSE "failed">>
          \/ booked[c] = <<>> /\ got[c] = <<"error">> /\ asked[c].front = "edits"

\* What was sent and what is held was taken; nothing is sent of a call that is
\* not a stream before its end.
SentInv(c) ==
  /\ ~Over(c) =>
       /\ ~asked[c].stream => got[c] = <<>>
       /\ got[c] \in Seq(Item)
       /\ ~Yields(c) => Sent(c) = 0 /\ held[c] # "image"
       /\ Yields(c) => Cardinality(taken[c]) = Sent(c) + (IF held[c] = "image" THEN 1 ELSE 0)
  /\ Over(c) /\ got[c] # <<>> /\ Last(got[c]) = "end" =>
       Sent(c) = IF asked[c].stream /\ asked[c].url THEN 0 ELSE asked[c].n

CallInv(c) == TurnInv(c) /\ PlaceInv(c) /\ BookInv(c) /\ SentInv(c)

ImCallInv == CallKindInv /\ \A c \in ImCall : CallInv(c)

LEMMA AskTypes ==
  ASSUME CallKindInv, NEW c \in ImCall
  PROVE  /\ asked[c] \in ImageAsk /\ asked[c].n \in Nat \ {0}
         /\ asked[c].stream \in BOOLEAN /\ asked[c].url \in BOOLEAN
         /\ asked[c].parallel \in BOOLEAN
         /\ asked[c].front = "responses" => asked[c].n = 1
  <1>1. asked[c] \in ImageAsk /\ (asked[c].front = "responses" => asked[c].n = 1)
    BY ImageCallAssumption DEF CallKindInv
  <1> QED
    BY <1>1 DEF ImageAsk

------------------------------------------------------------------------------
(* What a step does not disturb *)

LEMMA SameTurn ==
  ASSUME NEW c \in ImCall, TurnInv(c), asked' = asked, image'[c] = image[c],
         begun'[c] = begun[c], taken'[c] = taken[c]
  PROVE  TurnInv(c)'
  BY DEF TurnInv, Parallel, Images

LEMMA SameQuiet ==
  ASSUME NEW c \in ImCall, asked' = asked, image'[c] = image[c], begun'[c] = begun[c]
  PROVE  Quiet(c)' <=> Quiet(c)
  BY DEF Quiet, Parallel, Images

LEMMA SameSent ==
  ASSUME NEW c \in ImCall, SentInv(c), asked' = asked, Over(c)' <=> Over(c),
         got'[c] = got[c], held'[c] = held[c], taken'[c] = taken[c]
  PROVE  SentInv(c)'
  <1>1. Sent(c)' = Sent(c)
    BY DEF Sent
  <1>2. (Yields(c)' <=> Yields(c)) /\ Last(got[c])' = Last(got[c])
    BY DEF Yields, Last
  <1> QED
    BY <1>1, <1>2 DEF SentInv

LEMMA SameBook ==
  ASSUME NEW c \in ImCall, BookInv(c), asked' = asked, at'[c] = at[c], got'[c] = got[c],
         booked'[c] = booked[c], opened'[c] = opened[c], left[c] => left'[c],
         c \in active' => c \in active \/ at[c] # "ended" \/ left[c]
  PROVE  BookInv(c)'
  <1>1. (Over(c)' <=> Over(c)) /\ Last(got[c])' = Last(got[c])
    BY DEF Over, Last
  <1> QED
    BY <1>1 DEF BookInv

\* A call that has not ended and is not logged.
LEMMA OpenBook ==
  ASSUME NEW c \in ImCall, BookInv(c), ~Over(c), ~Over(c)', booked'[c] = booked[c]
  PROVE  BookInv(c)'
  BY DEF BookInv, Over

LEMMA TakenFinite ==
  ASSUME CallKindInv, NEW c \in ImCall, TurnInv(c)
  PROVE  IsFiniteSet(taken[c]) /\ Cardinality(taken[c]) \in Nat
  <1>1. asked[c].n \in Nat
    BY AskTypes
  <1>2. IsFiniteSet(1..asked[c].n) /\ taken[c] \subseteq 1..asked[c].n
    <2>1. IsFiniteSet(1..asked[c].n)
      BY <1>1, FS_Interval
    <2> QED
      BY <2>1 DEF TurnInv, Images
  <1>3. IsFiniteSet(taken[c])
    BY <1>2, FS_Subset
  <1> QED
    BY <1>3, FS_CardinalityType

LEMMA SentNat ==
  ASSUME CallKindInv, NEW c \in ImCall
  PROVE  Sent(c) \in Nat
  <1>1. Len(got[c]) \in Nat
    BY DEF CallKindInv
  <1>2. IsFiniteSet(1..Len(got[c]))
    BY <1>1, FS_Interval
  <1>3. IsFiniteSet({k \in 1..Len(got[c]) : got[c][k] = "image"})
    BY <1>2, FS_Subset
  <1> QED
    BY <1>3, FS_CardinalityType DEF Sent

\* All that a step of one call leaves as it is of another one.
Untouched(c) ==
  /\ asked' = asked /\ at'[c] = at[c] /\ image'[c] = image[c] /\ begun'[c] = begun[c]
  /\ taken'[c] = taken[c] /\ opened'[c] = opened[c] /\ held'[c] = held[c] /\ got'[c] = got[c]
  /\ left'[c] = left[c] /\ verdict'[c] = verdict[c] /\ booked'[c] = booked[c]
  /\ c \in active' <=> c \in active

LEMMA UntouchedKeeps ==
  ASSUME NEW c \in ImCall, CallInv(c), Untouched(c)
  PROVE  CallInv(c)'
  <1> USE DEF CallInv, Untouched
  <1>1. TurnInv(c)'
    BY SameTurn
  <1>2. SentInv(c)'
    BY SameSent DEF Over
  <1>3. BookInv(c)'
    BY SameBook
  <1>4. PlaceInv(c)'
    BY SameQuiet DEF PlaceInv, Images
  <1> QED
    BY <1>1, <1>2, <1>3, <1>4

\* So a step of a call is about that call.
LEMMA OneCall ==
  ASSUME ImCallInv, NEW c \in ImCall, CallKindInv', CallInv(c)',
         \A d \in ImCall \ {c} : Untouched(d)
  PROVE  ImCallInv'
  <1>1. ASSUME NEW d \in ImCall, d # c PROVE CallInv(d)'
    BY <1>1, UntouchedKeeps DEF ImCallInv
  <1> QED
    BY <1>1 DEF ImCallInv

------------------------------------------------------------------------------
(* What a client is sent *)

ImagesIn(s) == Cardinality({k \in 1..Len(s) : s[k] = "image"})

LEMMA SentAppend ==
  ASSUME NEW T, NEW s \in Seq(T), NEW x \in T
  PROVE  ImagesIn(Append(s, x)) = ImagesIn(s) + (IF x = "image" THEN 1 ELSE 0)
  <1> USE DEF ImagesIn
  <1> DEFINE old == {k \in 1..Len(s) : s[k] = "image"}
             new == {k \in 1..Len(Append(s, x)) : Append(s, x)[k] = "image"}
  <1>1. /\ Len(s) \in Nat /\ Len(Append(s, x)) = Len(s) + 1
        /\ \A k \in 1..Len(s) : Append(s, x)[k] = s[k]
        /\ Append(s, x)[Len(s) + 1] = x
    BY AppendProperties, LenProperties
  <1>2. IsFiniteSet(old) /\ Len(s) + 1 \notin old
    <2>1. IsFiniteSet(1..Len(s)) /\ old \subseteq 1..Len(s)
      BY <1>1, FS_Interval
    <2> QED
      BY <1>1, <2>1, FS_Subset
  <1>3. CASE x = "image"
    <2>1. new = old \cup {Len(s) + 1}
      BY <1>1, <1>3
    <2>2. Cardinality(old \cup {Len(s) + 1}) = Cardinality(old) + 1
      BY <1>2, FS_AddElement
    <2> QED
      BY <1>3, <2>1, <2>2
  <1>4. CASE x # "image"
    <2>1. new = old
      BY <1>1, <1>4
    <2>2. Cardinality(old) \in Nat
      BY <1>2, FS_CardinalityType
    <2>3. Cardinality(old) = Cardinality(old) + 0
      BY <2>2
    <2> QED
      BY <1>4, <2>1, <2>3
  <1> QED
    BY <1>3, <1>4

\* The answer of a call that is not a stream.
LEMMA AnswerSent ==
  ASSUME NEW n \in Nat, NEW s, s = <<>> \o ([k \in 1..n |-> "image"] \o <<"end">>)
  PROVE  /\ s \in Seq({"image", "end"}) /\ Len(s) = n + 1 /\ s[n + 1] = "end" /\ s # <<>>
         /\ ImagesIn(s) = n
  <1> USE DEF ImagesIn
  <1> DEFINE all == [k \in 1..n |-> "image"]
             T == {"image", "end"}
  <1>1. all \in Seq(T) /\ Len(all) = n
    OBVIOUS
  <1>2. <<"end">> \in Seq(T) /\ Len(<<"end">>) = 1
    OBVIOUS
  <1>3. /\ all \o <<"end">> \in Seq(T) /\ Len(all \o <<"end">>) = n + 1
        /\ \A k \in 1..(n + 1) : (all \o <<"end">>)[k] = IF k <= n THEN all[k] ELSE "end"
    BY <1>1, <1>2, ConcatProperties
  <1>4. s = all \o <<"end">>
    BY <1>3, ConcatEmptySeq
  <1>5. {k \in 1..Len(s) : s[k] = "image"} = 1..n
    BY <1>3, <1>4
  <1>6. Cardinality(1..n) = n
    BY FS_Interval
  <1>7. Cardinality({k \in 1..Len(s) : s[k] = "image"}) = n
    BY <1>5, <1>6
  <1>8. s \in Seq(T) /\ Len(s) = n + 1 /\ s[n + 1] = "end"
    BY <1>3, <1>4
  <1>9. s # <<>>
    BY <1>8
  <1> QED
    BY <1>7, <1>8, <1>9

------------------------------------------------------------------------------
(* The steps of a call *)

\* Nothing is sent while the generator works, and it holds nothing new that counts.
LEMMA HeldSent ==
  ASSUME NEW c \in ImCall, SentInv(c), asked' = asked, ~Over(c), ~Over(c)', got'[c] = got[c],
         taken'[c] = taken[c], held[c] # "image", held'[c] # "image"
  PROVE  SentInv(c)'
  <1>1. Sent(c)' = Sent(c) /\ (Yields(c)' <=> Yields(c))
    BY DEF Sent, Yields
  <1> QED
    BY <1>1 DEF SentInv

LEMMA ArriveKeeps ==
  ASSUME ImCallInv, NEW c \in ImCall, Arrive(c)
  PROVE  ImCallInv'
  <1> USE DEF ImCallInv, CallKindInv, CallInv
  <1>1. CallKindInv'
    BY DEF Arrive, Started, FirstTrace, Places
  <1>2. \A d \in ImCall \ {c} : Untouched(d)
    BY DEF Arrive, Started, FirstTrace, Untouched
  <1>3. TurnInv(c)'
    BY SameTurn DEF Arrive, Started, FirstTrace
  <1>4. PlaceInv(c)'
    BY DEF Arrive, Started, FirstTrace, PlaceInv, Quiet, Images, Parallel
  <1>5. BookInv(c)'
    BY OpenBook DEF Arrive, Started, FirstTrace, Over
  <1>6. SentInv(c)'
    BY SameSent DEF Arrive, Started, FirstTrace, Over
  <1> QED
    BY <1>1, <1>2, <1>3, <1>4, <1>5, <1>6, OneCall

LEMMA RefuseTextKeeps ==
  ASSUME ImCallInv, NEW c \in ImCall, RefuseText(c)
  PROVE  ImCallInv'
  <1> USE DEF ImCallInv, CallKindInv, CallInv
  <1>1. CallKindInv'
    BY DEF RefuseText, LogBegins, Places, Statuses
  <1>2. \A d \in ImCall \ {c} : Untouched(d)
    BY DEF RefuseText, LogBegins, Untouched
  <1>3. TurnInv(c)'
    BY SameTurn DEF RefuseText, LogBegins
  <1>4. PlaceInv(c)'
    BY DEF RefuseText, LogBegins, PlaceInv, Quiet, TurnInv, Images, Parallel, Statuses
  <1>5. BookInv(c)'
    BY OpenBook DEF RefuseText, LogBegins, Over
  <1>6. SentInv(c)'
    BY SameSent DEF RefuseText, LogBegins, Over
  <1> QED
    BY <1>1, <1>2, <1>3, <1>4, <1>5, <1>6, OneCall

LEMMA RefuseSourceKeeps ==
  ASSUME ImCallInv, NEW c \in ImCall, RefuseSource(c)
  PROVE  ImCallInv'
  <1> USE DEF ImCallInv, CallKindInv, CallInv
  <1>1. CallKindInv'
    <2>1. <<"error">> \in Seq(Item \cup {"error", "end"})
      OBVIOUS
    <2> QED
      BY <2>1 DEF RefuseSource, Places
  <1>2. \A d \in ImCall \ {c} : Untouched(d)
    BY DEF RefuseSource, Untouched
  <1>3. TurnInv(c)'
    BY SameTurn DEF RefuseSource
  <1>4. PlaceInv(c)'
    <2>1. Quiet(c)
      BY DEF RefuseSource, PlaceInv, Quiet, TurnInv
    <2>2. Quiet(c)' /\ at'[c] = "ended" /\ left'[c] = left[c]
      BY <2>1, SameQuiet DEF RefuseSource
    <2> QED
      BY <2>2 DEF PlaceInv
  <1>5. BookInv(c)'
    BY DEF RefuseSource, BookInv, PlaceInv, Over
  <1>6. SentInv(c)'
    BY DEF RefuseSource, SentInv, Over, Last
  <1> QED
    BY <1>1, <1>2, <1>3, <1>4, <1>5, <1>6, OneCall

LEMMA ReturnGeneratorKeeps ==
  ASSUME ImCallInv, NEW c \in ImCall, ReturnGenerator(c)
  PROVE  ImCallInv'
  <1> USE DEF ImCallInv, CallKindInv, CallInv
  <1>1. CallKindInv'
    BY DEF ReturnGenerator, Stage, Places
  <1>2. \A d \in ImCall \ {c} : Untouched(d)
    BY DEF ReturnGenerator, Stage, Untouched
  <1>3. TurnInv(c)'
    BY SameTurn DEF ReturnGenerator, Stage
  <1>4. PlaceInv(c)'
    BY DEF ReturnGenerator, Stage, PlaceInv, Quiet, Images, Parallel
  <1>5. BookInv(c)'
    BY OpenBook DEF ReturnGenerator, Stage, Over
  <1>6. SentInv(c)'
    BY SameSent DEF ReturnGenerator, Stage, Over
  <1> QED
    BY <1>1, <1>2, <1>3, <1>4, <1>5, <1>6, OneCall

LEMMA AnnounceKeeps ==
  ASSUME ImCallInv, NEW c \in ImCall, Announce(c)
  PROVE  ImCallInv'
  <1> USE DEF ImCallInv, CallKindInv, CallInv
  <1>1. CallKindInv'
    BY DEF Announce, Hold, Places, Item
  <1>2. \A d \in ImCall \ {c} : Untouched(d)
    BY DEF Announce, Hold, Computing, Announces, Untouched
  <1>3. TurnInv(c)'
    BY SameTurn DEF Announce, Hold, Computing, Announces
  <1>4. PlaceInv(c)'
    BY DEF Announce, Hold, Computing, Announces, PlaceInv, Quiet, Images, Parallel
  <1>5. BookInv(c)'
    BY OpenBook DEF Announce, Hold, Computing, Announces, Over
  <1>6. SentInv(c)'
    BY HeldSent DEF Announce, Hold, Computing, Over, PlaceInv
  <1> QED
    BY <1>1, <1>2, <1>3, <1>4, <1>5, <1>6, OneCall

LEMMA BeginImagesKeeps ==
  ASSUME ImCallInv, NEW c \in ImCall, BeginImages(c)
  PROVE  ImCallInv'
  <1> USE DEF ImCallInv, CallKindInv, CallInv
  <1>1. CallKindInv'
    BY DEF BeginImages, Computing, Places
  <1>2. \A d \in ImCall \ {c} : Untouched(d)
    BY DEF BeginImages, Computing, Untouched
  <1>3. TurnInv(c)'
    BY DEF BeginImages, TurnInv, Images, Parallel
  <1>4. PlaceInv(c)'
    BY DEF BeginImages, Computing, PlaceInv, Quiet, Images, Parallel
  <1>5. BookInv(c)'
    BY OpenBook DEF BeginImages, Computing, Over
  <1>6. SentInv(c)'
    BY SameSent DEF BeginImages, Computing, Over
  <1> QED
    BY <1>1, <1>2, <1>3, <1>4, <1>5, <1>6, OneCall

LEMMA TakeImageKeeps ==
  ASSUME ImCallInv, NEW c \in ImCall, TakeImage(c)
  PROVE  ImCallInv'
  <1> USE DEF ImCallInv, CallKindInv, CallInv
  <1>1. CallKindInv'
    BY DEF TakeImage, Hold, Places, Item
  <1>2. \A d \in ImCall \ {c} : Untouched(d)
    BY DEF TakeImage, Hold, Computing, Untouched
  <1>3. TurnInv(c)'
    BY DEF TakeImage, TurnInv, Images, Parallel
  <1>4. PlaceInv(c)'
    BY DEF TakeImage, Hold, Computing, Yields, PlaceInv
  <1>5. BookInv(c)'
    BY OpenBook DEF TakeImage, Hold, Computing, Over
  <1>6. SentInv(c)'
    <2>1. PICK i \in Images(c) \ taken[c] : taken'[c] = taken[c] \cup {i}
      BY DEF TakeImage
    <2>2. IsFiniteSet(taken[c]) /\ Cardinality(taken'[c]) = Cardinality(taken[c]) + 1
      BY <2>1, TakenFinite, FS_AddElement
    <2>3. /\ Sent(c)' = Sent(c) /\ (Yields(c)' <=> Yields(c)) /\ held[c] = "none"
          /\ ~Over(c) /\ ~Over(c)' /\ asked' = asked /\ got' = got
          /\ held'[c] = IF Yields(c) THEN "image" ELSE "none"
      BY DEF TakeImage, Hold, Computing, Over, PlaceInv, Sent, Yields
    <2>4. Sent(c) \in Nat
      BY SentNat
    <2> QED
      BY <2>2, <2>3, <2>4 DEF SentInv
  <1> QED
    BY <1>1, <1>2, <1>3, <1>4, <1>5, <1>6, OneCall

LEMMA StartImageKeeps ==
  ASSUME ImCallInv, NEW c \in ImCall, NEW i \in Images(c), StartImage(c, i)
  PROVE  ImCallInv'
  <1> USE DEF ImCallInv, CallKindInv, CallInv
  <1>1. CallKindInv'
    BY DEF StartImage, Cancelled, Stage, Places
  <1>2. \A d \in ImCall \ {c} : Untouched(d)
    BY DEF StartImage, Cancelled, Stage, Untouched
  <1>3. TurnInv(c)'
    <2>1. begun[c] /\ image[c][i] = "todo" /\ IsTurnOf(c, i)
          /\ UNCHANGED <<asked, begun, taken>>
      BY DEF StartImage
    <2>2. PICK r \in {"running", "failed"} : image' = [image EXCEPT ![c][i] = r]
      BY DEF StartImage
    <2>3. image'[c] = [image[c] EXCEPT ![i] = r]
      BY <2>2
    <2>4. \A j \in taken[c] : image'[c][j] = "made"
      BY <2>1, <2>3 DEF TurnInv
    <2>5. image'[c] \in [Images(c)' -> {"todo", "running", "made", "failed"}]
      BY <2>1, <2>3 DEF TurnInv, Images
    <2>6. ~Parallel(c) => 1..(i - 1) \subseteq taken[c]
      BY <2>1 DEF IsTurnOf
    <2>7. \A j \in Images(c) : j # i => image'[c][j] = image[c][j]
      BY <2>3 DEF TurnInv
    <2> QED
      BY <2>1, <2>4, <2>5, <2>6, <2>7 DEF TurnInv, Images, Parallel
  <1>4. PlaceInv(c)'
    <2>1. Quiet(c) => (at[c] \notin {"booking", "ended"})
      BY DEF StartImage, IsTurnOf, Quiet, Computing, Images, Over
    <2> QED
      BY <2>1 DEF StartImage, IsTurnOf, PlaceInv, Images
  <1>5. BookInv(c)'
    <2>1. left[c] \/ at[c] # "ended"
      BY DEF StartImage, IsTurnOf, Computing, PlaceInv, Quiet
    <2> QED
      BY <2>1, SameBook DEF StartImage
  <1>6. SentInv(c)'
    BY SameSent DEF StartImage, Cancelled, Stage, Over
  <1> QED
    BY <1>1, <1>2, <1>3, <1>4, <1>5, <1>6, OneCall

LEMMA EndImageKeeps ==
  ASSUME ImCallInv, NEW c \in ImCall, NEW i \in Images(c), EndImage(c, i)
  PROVE  ImCallInv'
  <1> USE DEF ImCallInv, CallKindInv, CallInv
  <1>1. CallKindInv'
    BY DEF EndImage, Stage, Places
  <1>2. \A d \in ImCall \ {c} : Untouched(d)
    BY DEF EndImage, Stage, Untouched
  <1>3. TurnInv(c)'
    BY DEF EndImage, TurnInv, Images, Parallel
  <1>4. PlaceInv(c)'
    <2>1. ~Quiet(c)
      BY DEF EndImage, Quiet
    <2>2. UNCHANGED <<asked, at, begun, taken, opened, held, left, verdict>>
      BY DEF EndImage
    <2>3. at[c] \in {"booking", "ended"} => left[c]
      BY <2>1 DEF PlaceInv
    <2>4. at[c] # "new"
      BY DEF EndImage, PlaceInv, TurnInv
    <2> QED
      BY <2>2, <2>3, <2>4 DEF PlaceInv
  <1>5. BookInv(c)'
    <2>1. left[c] \/ at[c] # "ended"
      BY DEF EndImage, PlaceInv, Quiet
    <2> QED
      BY <2>1, SameBook DEF EndImage
  <1>6. SentInv(c)'
    BY SameSent DEF EndImage, Stage, Over
  <1> QED
    BY <1>1, <1>2, <1>3, <1>4, <1>5, <1>6, OneCall

LEMMA EndAnswerKeeps ==
  ASSUME ImCallInv, NEW c \in ImCall, EndAnswer(c)
  PROVE  ImCallInv'
  <1> USE DEF ImCallInv, CallKindInv, CallInv
  <1>1. CallKindInv'
    BY DEF EndAnswer, Hold, Places, Item
  <1>2. \A d \in ImCall \ {c} : Untouched(d)
    BY DEF EndAnswer, Hold, Computing, Closes, Untouched
  <1>3. TurnInv(c)'
    BY SameTurn DEF EndAnswer, Hold, Computing, Closes
  <1>4. PlaceInv(c)'
    BY DEF EndAnswer, Hold, Computing, Closes, PlaceInv, Quiet, Images, Parallel
  <1>5. BookInv(c)'
    BY OpenBook DEF EndAnswer, Hold, Computing, Closes, Over
  <1>6. SentInv(c)'
    BY HeldSent DEF EndAnswer, Hold, Computing, Over, PlaceInv
  <1> QED
    BY <1>1, <1>2, <1>3, <1>4, <1>5, <1>6, OneCall

LEMMA OpenStreamKeeps ==
  ASSUME ImCallInv, NEW c \in ImCall, OpenStream(c)
  PROVE  ImCallInv'
  <1> USE DEF ImCallInv, CallKindInv, CallInv
  <1>1. CallKindInv'
    BY DEF OpenStream, Places
  <1>2. \A d \in ImCall \ {c} : Untouched(d)
    BY DEF OpenStream, Untouched
  <1>3. TurnInv(c)'
    BY SameTurn DEF OpenStream
  <1>4. PlaceInv(c)'
    BY DEF OpenStream, PlaceInv, Quiet, Images, Parallel
  <1>5. BookInv(c)'
    BY OpenBook DEF OpenStream, Over
  <1>6. SentInv(c)'
    BY SameSent DEF OpenStream, Over
  <1> QED
    BY <1>1, <1>2, <1>3, <1>4, <1>5, <1>6, OneCall

LEMMA CloseStreamKeeps ==
  ASSUME ImCallInv, NEW c \in ImCall, CloseStream(c)
  PROVE  ImCallInv'
  <1> USE DEF ImCallInv, CallKindInv, CallInv
  <1>1. CallKindInv'
    BY DEF CloseStream, LogBegins, Places, Statuses
  <1>2. \A d \in ImCall \ {c} : Untouched(d)
    BY DEF CloseStream, LogBegins, Untouched
  <1>3. TurnInv(c)'
    BY SameTurn DEF CloseStream, LogBegins
  <1>4. PlaceInv(c)'
    BY DEF CloseStream, LogBegins, PlaceInv, Statuses
  <1>5. BookInv(c)'
    BY OpenBook DEF CloseStream, LogBegins, Over
  <1>6. SentInv(c)'
    BY SameSent DEF CloseStream, LogBegins, Over
  <1> QED
    BY <1>1, <1>2, <1>3, <1>4, <1>5, <1>6, OneCall

LEMMA DropStreamKeeps ==
  ASSUME ImCallInv, NEW c \in ImCall, DropStream(c)
  PROVE  ImCallInv'
  <1> USE DEF ImCallInv, CallKindInv, CallInv
  <1>1. CallKindInv'
    BY DEF DropStream, Places
  <1>2. \A d \in ImCall \ {c} : Untouched(d)
    BY DEF DropStream, Untouched
  <1>3. TurnInv(c)'
    BY SameTurn DEF DropStream
  <1>4. PlaceInv(c)'
    BY DEF DropStream, PlaceInv, Quiet, Images, Parallel
  <1>5. BookInv(c)'
    BY DEF DropStream, BookInv, Over
  <1>6. SentInv(c)'
    <2>1. got'[c] = got[c] /\ got[c] \in Seq(Item)
      BY DEF DropStream, SentInv, Over
    <2>2. got[c] # <<>> => Last(got[c])' \in Item
      BY <2>1 DEF Last
    <2> QED
      BY <2>1, <2>2 DEF DropStream, SentInv, Over, Item
  <1> QED
    BY <1>1, <1>2, <1>3, <1>4, <1>5, <1>6, OneCall

LEMMA LoopFreedKeeps ==
  ASSUME ImCallInv, NEW c \in ImCall, LoopFreed(c)
  PROVE  ImCallInv'
  <1> USE DEF ImCallInv, CallKindInv, CallInv
  <1>1. CallKindInv'
    BY DEF LoopFreed, Places
  <1>2. \A d \in ImCall \ {c} : Untouched(d)
    BY DEF LoopFreed, Untouched
  <1>3. TurnInv(c)'
    BY SameTurn DEF LoopFreed
  <1>4. PlaceInv(c)'
    BY DEF LoopFreed, PlaceInv, Quiet, Images, Parallel
  <1>5. BookInv(c)'
    <2>1. left'[c] /\ Over(c)' /\ Over(c)
      BY DEF LoopFreed, PlaceInv, Over
    <2> QED
      BY <2>1 DEF LoopFreed, BookInv
  <1>6. SentInv(c)'
    BY SameSent DEF LoopFreed, Over
  <1> QED
    BY <1>1, <1>2, <1>3, <1>4, <1>5, <1>6, OneCall

LEMMA LeaveKeeps ==
  ASSUME ImCallInv, NEW c \in ImCall, Leave(c)
  PROVE  ImCallInv'
  <1> USE DEF ImCallInv, CallKindInv, CallInv
  <1>1. CallKindInv'
    BY DEF Leave, Places
  <1>2. \A d \in ImCall \ {c} : Untouched(d)
    BY DEF Leave, Untouched
  <1>3. TurnInv(c)'
    BY SameTurn DEF Leave
  <1>4. PlaceInv(c)'
    <2>1. at[c] # "new" /\ at' = at /\ left'[c]
      BY DEF Leave
    <2> QED
      BY <2>1 DEF Leave, PlaceInv
  <1>5. BookInv(c)'
    BY SameBook DEF Leave
  <1>6. SentInv(c)'
    BY SameSent DEF Leave, Over
  <1> QED
    BY <1>1, <1>2, <1>3, <1>4, <1>5, <1>6, OneCall

LEMMA SendKeeps ==
  ASSUME ImCallInv, NEW c \in ImCall, Send(c)
  PROVE  ImCallInv'
  <1> USE DEF ImCallInv, CallKindInv, CallInv
  <1>1. CallKindInv'
    <2>1. held[c] \in Item
      BY DEF Send, PlaceInv
    <2>2. got'[c] \in Seq(Item \cup {"error", "end"})
      BY <2>1 DEF Send
    <2>3. got' \in [ImCall -> Seq(Item \cup {"error", "end"})]
      BY <2>2 DEF Send
    <2> QED
      BY <2>3 DEF Send, Places
  <1>2. \A d \in ImCall \ {c} : Untouched(d)
    BY DEF Send, Untouched
  <1>3. TurnInv(c)'
    BY SameTurn DEF Send
  <1>4. PlaceInv(c)'
    BY DEF Send, PlaceInv, Quiet, Images, Parallel
  <1>5. BookInv(c)'
    BY OpenBook DEF Send, Over
  <1>6. SentInv(c)'
    <2>1. held[c] \in Item /\ got[c] \in Seq(Item) /\ asked[c].stream
      BY DEF Send, PlaceInv, SentInv, Over
    <2>2. got'[c] = Append(got[c], held[c]) /\ held'[c] = "none" /\ taken' = taken /\ asked' = asked
      BY DEF Send
    <2>3. ImagesIn(Append(got[c], held[c])) = ImagesIn(got[c]) + (IF held[c] = "image" THEN 1 ELSE 0)
      BY <2>1, SentAppend
    <2>4. Sent(c)' = Sent(c) + (IF held[c] = "image" THEN 1 ELSE 0)
      BY <2>2, <2>3 DEF Sent, ImagesIn
    <2>5. ~Over(c) /\ ~Over(c)' /\ (Yields(c)' <=> Yields(c)) /\ got'[c] \in Seq(Item)
      BY <2>1, <2>2 DEF Send, Over, Yields
    <2>6. Yields(c) => Sent(c)' = Cardinality(taken[c])
      BY <2>4, <2>5 DEF SentInv
    <2>7. ~Yields(c) => Sent(c)' = 0
      BY <2>4, <2>5 DEF SentInv
    <2>8. Yields(c) => Cardinality(taken[c]) = Sent(c)' + 0
      BY <2>6, TakenFinite
    <2> QED
      BY <2>1, <2>2, <2>5, <2>7, <2>8 DEF SentInv
  <1> QED
    BY <1>1, <1>2, <1>3, <1>4, <1>5, <1>6, OneCall

------------------------------------------------------------------------------
(* The end of a call *)

\* A generator that raises has no image under way: its threads were joined, or
\* the image that failed was the last one begun.
LEMMA FailedQuiet ==
  ASSUME NEW c \in ImCall, TurnInv(c), ~begun[c] \/ Raises(c)
  PROVE  Quiet(c)
  <1>1. CASE ~begun[c]
    BY <1>1 DEF TurnInv, Quiet
  <1>2. CASE Raises(c) /\ Parallel(c)
    BY <1>2 DEF Raises, Settled, TurnInv, Quiet
  <1>3. CASE Raises(c) /\ ~Parallel(c)
    <2>1. PICK k \in Images(c) : image[c][k] = "failed"
      BY <1>3 DEF Raises, SomeFailed
    <2>2. ASSUME NEW i \in Images(c), image[c][i] = "running" PROVE FALSE
      <3>1. i \notin taken[c] /\ k \notin taken[c]
        BY <2>1, <2>2 DEF TurnInv
      <3>2. ~(i < k) /\ ~(k < i)
        BY <1>3, <2>1, <2>2, <3>1 DEF TurnInv, Images
      <3>3. i = k
        BY <3>2 DEF Images
      <3> QED
        BY <2>1, <2>2, <3>3
    <2> QED
      BY <1>3, <2>2 DEF Quiet
  <1> QED
    BY <1>1, <1>2, <1>3

\* A generator that ends has yielded all images.
LEMMA FinishedWhole ==
  ASSUME NEW c \in ImCall, TurnInv(c), Exhausted(c)
  PROVE  taken[c] = Images(c) /\ Quiet(c)
  <1>1. ~SomeFailed(c) /\ Settled(c)
    BY DEF Exhausted, Raises
  <1>2. taken[c] = Images(c)
    BY <1>1 DEF SomeFailed, Settled, TurnInv
  <1> QED
    BY <1>2 DEF TurnInv, Quiet

LEMMA CountTo ==
  ASSUME NEW n \in Nat
  PROVE  Cardinality(1..n) = n
  BY FS_Interval

\* What a client that is still there has got when its call ends.
LEMMA EndingSent ==
  ASSUME ImCallInv, NEW c \in ImCall, at[c] = "booking", ~left[c],
         NEW s, s = got[c] \o Ending(c)
  PROVE  /\ s \in Seq(Item \cup {"error", "end"}) /\ s # <<>>
         /\ Last(s) = IF verdict[c] = "failed" THEN "error" ELSE "end"
         /\ verdict[c] # "failed" =>
              ImagesIn(s) = IF asked[c].stream /\ asked[c].url THEN 0 ELSE asked[c].n
  <1> DEFINE T == Item \cup {"error", "end"}
  <1>1. /\ got[c] \in Seq(T) /\ verdict[c] \in Statuses
        /\ held[c] = "none" /\ (verdict[c] = "success" => taken[c] = Images(c))
        /\ ~asked[c].stream => got[c] = <<>>
        /\ asked[c].stream => Sent(c) = IF asked[c].url THEN 0 ELSE Cardinality(taken[c])
    <2>1. PlaceInv(c) /\ SentInv(c) /\ got[c] \in Seq(T) /\ ~Over(c) /\ TurnInv(c)
      BY DEF ImCallInv, CallKindInv, CallInv, Over
    <2>2. Sent(c) \in Nat /\ asked[c].stream \in BOOLEAN /\ asked[c].url \in BOOLEAN
      BY SentNat, AskTypes DEF ImCallInv
    <2>3. held[c] = "none"
      BY <2>1 DEF PlaceInv, ImCallInv, CallKindInv
    <2> QED
      BY <2>1, <2>2, <2>3 DEF PlaceInv, SentInv, Yields
  <1>2. asked[c].n \in Nat
    BY AskTypes DEF ImCallInv
  <1>3. ASSUME NEW e \in {"error", "end"}, s = got[c] \o <<e>>
        PROVE  s \in Seq(T) /\ s # <<>> /\ Last(s) = e /\ ImagesIn(s) = ImagesIn(got[c])
    <2>1. s = Append(got[c], e)
      BY <1>1, <1>3, AppendIsConcat
    <2>2. s \in Seq(T) /\ s # <<>> /\ Last(s) = e
      BY <1>1, <2>1, AppendProperties DEF Last
    <2>3. ImagesIn(s) = ImagesIn(got[c]) + 0
      BY <1>1, <2>1, SentAppend
    <2>4. ImagesIn(got[c]) \in Nat
      BY SentNat DEF ImCallInv, Sent, ImagesIn
    <2> QED
      BY <2>2, <2>3, <2>4
  <1>4. CASE verdict[c] = "failed"
    BY <1>3, <1>4 DEF Ending
  <1>5. CASE verdict[c] # "failed" /\ asked[c].stream
    <2>1. Ending(c) = <<"end">>
      BY <1>5 DEF Ending
    <2>2. ImagesIn(got[c]) = IF asked[c].url THEN 0 ELSE asked[c].n
      <3>1. taken[c] = 1..asked[c].n
        BY <1>1, <1>5 DEF Images, Statuses
      <3>2. Cardinality(1..asked[c].n) = asked[c].n
        BY <1>2, CountTo
      <3> QED
        BY <1>1, <1>5, <3>1, <3>2 DEF Sent, ImagesIn
    <2> QED
      BY <1>3, <1>5, <2>1, <2>2
  <1>6. CASE verdict[c] # "failed" /\ ~asked[c].stream
    <2>1. s = <<>> \o ([k \in 1..asked[c].n |-> "image"] \o <<"end">>)
      BY <1>1, <1>6 DEF Ending, Images
    <2>2. /\ s \in Seq({"image", "end"}) /\ Len(s) = asked[c].n + 1
          /\ s[asked[c].n + 1] = "end" /\ s # <<>> /\ ImagesIn(s) = asked[c].n
      BY <1>2, <2>1, AnswerSent
    <2>3. s \in Seq(T)
      BY <2>2, SeqMonotonic DEF Item
    <2> QED
      BY <1>6, <2>2, <2>3 DEF Last
  <1> QED
    BY <1>4, <1>5, <1>6

LEMMA FailCallKeeps ==
  ASSUME ImCallInv, NEW c \in ImCall, FailCall(c)
  PROVE  ImCallInv'
  <1> USE DEF ImCallInv, CallKindInv, CallInv
  <1>1. CallKindInv'
    BY DEF FailCall, EndCall, LogBegins, Places, Statuses
  <1>2. \A d \in ImCall \ {c} : Untouched(d)
    BY DEF FailCall, EndCall, LogBegins, Untouched
  <1>3. TurnInv(c)'
    BY SameTurn DEF FailCall, EndCall, LogBegins
  <1>4. PlaceInv(c)'
    <2>1. Quiet(c)'
      BY FailedQuiet, SameQuiet DEF FailCall, EndCall, LogBegins
    <2>2. held[c] = "none"
      BY DEF FailCall, EndCall, Computing, PlaceInv
    <2> QED
      BY <2>1, <2>2 DEF FailCall, EndCall, LogBegins, PlaceInv, Statuses
  <1>5. BookInv(c)'
    BY OpenBook DEF FailCall, EndCall, LogBegins, Computing, Over
  <1>6. SentInv(c)'
    BY SameSent DEF FailCall, EndCall, LogBegins, Computing, Over
  <1> QED
    BY <1>1, <1>2, <1>3, <1>4, <1>5, <1>6, OneCall

LEMMA FinishCallKeeps ==
  ASSUME ImCallInv, NEW c \in ImCall, FinishCall(c)
  PROVE  ImCallInv'
  <1> USE DEF ImCallInv, CallKindInv, CallInv
  <1>1. CallKindInv'
    BY DEF FinishCall, EndCall, LogBegins, Places, Statuses
  <1>2. \A d \in ImCall \ {c} : Untouched(d)
    BY DEF FinishCall, EndCall, LogBegins, Untouched
  <1>3. TurnInv(c)'
    BY SameTurn DEF FinishCall, EndCall, LogBegins
  <1>4. PlaceInv(c)'
    <2>1. Quiet(c)' /\ taken[c] = Images(c)
      BY FinishedWhole, SameQuiet DEF FinishCall, EndCall, LogBegins
    <2>2. held[c] = "none"
      BY DEF FinishCall, EndCall, Computing, PlaceInv
    <2> QED
      BY <2>1, <2>2 DEF FinishCall, EndCall, LogBegins, PlaceInv, Statuses, Images
  <1>5. BookInv(c)'
    BY OpenBook DEF FinishCall, EndCall, LogBegins, Computing, Over
  <1>6. SentInv(c)'
    BY SameSent DEF FinishCall, EndCall, LogBegins, Computing, Over
  <1> QED
    BY <1>1, <1>2, <1>3, <1>4, <1>5, <1>6, OneCall

LEMMA BookKeeps ==
  ASSUME ImCallInv, NEW c \in ImCall, Book(c)
  PROVE  ImCallInv'
  <1> USE DEF ImCallInv, CallKindInv, CallInv
  <1> DEFINE s == got[c] \o Ending(c)
  <1>a. /\ ~left[c] => got' = [got EXCEPT ![c] = s]
        /\ left[c] => got' = got
    BY DEF Book
  <1>b. ~left[c] => /\ s \in Seq(Item \cup {"error", "end"}) /\ s # <<>>
                    /\ Last(s) = IF verdict[c] = "failed" THEN "error" ELSE "end"
                    /\ verdict[c] # "failed" =>
                         ImagesIn(s) = IF asked[c].stream /\ asked[c].url THEN 0 ELSE asked[c].n
    BY EndingSent DEF Book
  <1>c. /\ verdict[c] \in Statuses /\ booked[c] = <<>> /\ booked' = [booked EXCEPT ![c] = <<verdict[c]>>]
        /\ ~left[c] => held[c] = "none"
    <2>1. /\ verdict[c] \in Statuses /\ booked[c] = <<>>
          /\ ~left[c] => held[c] = "none"
      BY DEF Book, PlaceInv, BookInv, Over
    <2>2. Append(booked[c], verdict[c]) = <<verdict[c]>>
      BY <2>1
    <2> QED
      BY <2>1, <2>2 DEF Book
  <1> HIDE DEF s
  <1>1. CallKindInv'
    <2>1. got' \in [ImCall -> Seq(Item \cup {"error", "end"})]
      BY <1>a, <1>b
    <2>2. booked' \in [ImCall -> Seq(Statuses)]
      BY <1>c
    <2> QED
      BY <2>1, <2>2 DEF Book, Places
  <1>2. \A d \in ImCall \ {c} : Untouched(d)
    BY DEF Book, Untouched
  <1>3. TurnInv(c)'
    BY SameTurn DEF Book
  <1>4. PlaceInv(c)'
    <2>1. ~left[c] => Quiet(c)'
      BY SameQuiet DEF Book, PlaceInv
    <2>2. /\ at'[c] = IF held[c] = "none" THEN "ended" ELSE "closing"
          /\ UNCHANGED <<left, held, asked>>
      BY DEF Book
    <2> QED
      BY <2>1, <2>2, <1>c DEF PlaceInv
  <1>5. BookInv(c)'
    <2>1. booked'[c] = <<verdict[c]>> /\ c \notin active' /\ left' = left
      BY <1>c DEF Book
    <2>2. ~left[c] => booked'[c] = <<IF Last(got[c])' = "end" THEN "success" ELSE "failed">>
      <3>1. ~left[c] => Last(got[c])' = IF verdict[c] = "failed" THEN "error" ELSE "end"
        BY <1>a, <1>b DEF Last
      <3> QED
        BY <2>1, <3>1, <1>c DEF Statuses
    <2>3. Over(c)'
      BY DEF Book, Over
    <2> QED
      BY <2>1, <2>2, <2>3 DEF BookInv
  <1>6. SentInv(c)'
    <2>1. Over(c)' /\ ~Over(c) /\ asked' = asked
      BY DEF Book, Over
    <2>2. CASE left[c]
      <3>1. got'[c] = got[c] /\ got[c] \in Seq(Item)
        BY <1>a, <2>1, <2>2 DEF SentInv
      <3>2. got[c] # <<>> => Last(got[c])' \in Item
        BY <3>1 DEF Last
      <3> QED
        BY <2>1, <3>1, <3>2 DEF SentInv, Item
    <2>3. CASE ~left[c]
      <3>1. got'[c] = s
        BY <1>a, <2>3
      <3>2. Sent(c)' = ImagesIn(s) /\ Last(got[c])' = Last(s)
        BY <3>1 DEF Sent, ImagesIn, Last
      <3> QED
        BY <1>b, <2>1, <2>3, <3>1, <3>2 DEF SentInv
    <2> QED
      BY <2>2, <2>3
  <1> QED
    BY <1>1, <1>2, <1>3, <1>4, <1>5, <1>6, OneCall

LEMMA CancelKeeps ==
  ASSUME ImCallInv, NEW c \in ImCall, Cancel(c)
  PROVE  ImCallInv'
  <1>1. CallKindInv'
    BY DEF ImCallInv, CallKindInv, Cancel
  <1>2. \A d \in ImCall : Untouched(d)
    BY DEF Cancel, Untouched
  <1> QED
    BY <1>1, <1>2, UntouchedKeeps DEF ImCallInv

LEMMA ImCallInitInv == ImageCallInit => ImCallInv
  <1> SUFFICES ASSUME ImageCallInit PROVE ImCallInv
    OBVIOUS
  <1> USE DEF ImageCallInit
  <1>1. CallKindInv
    BY DEF CallKindInv, Places
  <1>2. ASSUME NEW c \in ImCall PROVE CallInv(c)
    <2>1. TurnInv(c)
      BY DEF TurnInv, Images
    <2>2. PlaceInv(c) /\ BookInv(c)
      BY DEF PlaceInv, BookInv, Over
    <2>3. SentInv(c)
      <3>1. {k \in 1..Len(got[c]) : got[c][k] = "image"} = {}
        OBVIOUS
      <3>2. Sent(c) = 0 /\ Cardinality(taken[c]) = 0
        BY <3>1, FS_EmptySet DEF Sent
      <3> QED
        BY <3>2 DEF SentInv, Over
    <2> QED
      BY <2>1, <2>2, <2>3 DEF CallInv
  <1> QED
    BY <1>1, <1>2 DEF ImCallInv

LEMMA ImCallStepInv == ImCallInv /\ [ImageCallNext]_callVars => ImCallInv'
  <1> SUFFICES ASSUME ImCallInv, [ImageCallNext]_callVars PROVE ImCallInv'
    OBVIOUS
  <1>1. CASE UNCHANGED callVars
    <2>1. CallKindInv' /\ \A d \in ImCall : Untouched(d)
      BY <1>1 DEF callVars, ImCallInv, CallKindInv, Untouched
    <2> QED
      BY <2>1, UntouchedKeeps DEF ImCallInv
  <1>2. CASE ImageCallNext
    BY <1>2, ArriveKeeps, RefuseTextKeeps, RefuseSourceKeeps, ReturnGeneratorKeeps, AnnounceKeeps,
       BeginImagesKeeps, TakeImageKeeps, EndAnswerKeeps, StartImageKeeps, EndImageKeeps,
       FailCallKeeps, FinishCallKeeps, BookKeeps, OpenStreamKeeps, SendKeeps, LeaveKeeps,
       CloseStreamKeeps, DropStreamKeeps, LoopFreedKeeps, CancelKeeps DEF ImageCallNext
  <1> QED
    BY <1>1, <1>2

LEMMA ImCallInvariance == ImageCallSpec => []ImCallInv
  BY ImCallInitInv, ImCallStepInv, PTL DEF ImageCallSpec

\* Whoever is told that his call succeeded has all the images he asked for, for
\* any number of them, however their threads, failures and cancellations fall.
THEOREM ImagesAreAlwaysWhole == ImageCallSpec => []ImagesAreWhole
  <1>1. ImCallInv => ImagesAreWhole
    <2> SUFFICES ASSUME ImCallInv, NEW c \in ImCall, got[c] # <<>>, Last(got[c]) = "end"
                 PROVE  Sent(c) = IF asked[c].stream /\ asked[c].url THEN 0 ELSE asked[c].n
      BY DEF ImagesAreWhole
    <2>1. SentInv(c)
      BY DEF ImCallInv, CallInv
    <2>2. got[c] \in Seq(Item) => Last(got[c]) \in Item
      BY DEF Last
    <2> QED
      BY <2>1, <2>2 DEF SentInv, Item
  <1> QED
    BY <1>1, ImCallInvariance, PTL

\* A call is logged once and as what its client was told, and leaves the running
\* ones when it is over: no thread of its images enters it there again.
THEOREM CallsAreBookedOnce == ImageCallSpec => []CallsAreBooked
  <1>1. ImCallInv => CallsAreBooked
    BY DEF ImCallInv, CallInv, BookInv, Over, CallsAreBooked
  <1> QED
    BY <1>1, ImCallInvariance, PTL

==============================================================================
