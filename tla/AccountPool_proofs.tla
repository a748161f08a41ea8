-------------------------- MODULE AccountPool_proofs --------------------------
(***************************************************************************)
(* What holds of the account pool for any number of requests, accounts and *)
(* renewals and any limit: type correctness, no count without an account,  *)
(* no count above the limit, every slot given back exactly once, and no    *)
(* request that loses its account to a renewal.                            *)
(*                                                                         *)
(* The invariant is proved operator by operator.  PoolInv speaks of the    *)
(* pool's own variables only; a lemma for each operation of the pool       *)
(* (release, drop, update, rotation) shows that the operation keeps it,    *)
(* and every action of the specification is one of these operations beside *)
(* changes of the request's own state.                                     *)
(*                                                                         *)
(* The second half counts slots.  An operation either leaves the tokens of *)
(* requests where they lead (Calm), frees one slot, or renames an account  *)
(* (Renamed, from TokenAlias_proofs); SlotInv follows a request's token    *)
(* through all of them.                                                    *)
(***************************************************************************)
EXTENDS AccountPool, TokenAlias_proofs, FiniteSetTheorems, TLAPS

\* Types of the pool's variables.
PoolType ==
  /\ accounts \in [Token -> Record]
  /\ DOMAIN aliases \subseteq Token
  /\ \A t \in DOMAIN aliases : aliases[t] \in Token
  /\ inflight \in [Token -> Nat]
  /\ issued \subseteq Token

\* Tokens are issued in order: a renewal is always a token nobody has seen.
IssuedInOrder ==
  /\ IsFiniteSet(issued)
  /\ Present \subseteq issued
  /\ \A t \in issued : t[2] <= Renewals

PoolInv == PoolType /\ IssuedInOrder /\ NoOrphanCount /\ CountWithinCap

RequestType ==
  /\ pc \in [Worker -> Step]
  /\ token \in [Worker -> Token \cup {NoToken}]
  /\ active \in [Worker -> Token \cup {NoToken}]
  /\ tried \in [Worker -> SUBSET Token]
  /\ saw \in [Worker -> SUBSET {"exhausted", "failure"}]
  /\ fellBack \in [Worker -> BOOLEAN]

\* A request that has reached one of these steps holds the token it works with.
HasToken == {"preflight", "remote", "retried", "invalid", "release", "stream",
             "retry", "releaseAgain", "recover", "recoverInvalid"}
HasActive == {"preflight", "remote", "retried", "invalid"}

TokensKnown ==
  /\ \A w \in Worker : pc[w] \in HasToken => token[w] \in Token
  /\ \A w \in Worker : pc[w] \in HasActive => active[w] \in Token

IInv == PoolInv /\ RequestType /\ TokensKnown

------------------------------------------------------------------------------
(* Resolving a token gives a token. *)

\* The resolved form of a token is a token of the model.
LEMMA CurrentInToken ==
  ASSUME PoolType, NEW t \in Token
  PROVE  Current(t) \in Token
BY ResolveInNodes DEF Current, PoolType, AliasNodes

------------------------------------------------------------------------------
(* The operations of the pool keep PoolInv. *)

LEMMA RenewalsInNat ==
  ASSUME IsFiniteSet(issued)
  PROVE  Renewals \in Nat
<1> {t \in issued : t[2] # 0} \subseteq issued
  OBVIOUS
<1> IsFiniteSet({t \in issued : t[2] # 0})
  BY FS_Subset
<1> QED
  BY FS_CardinalityType DEF Renewals

\* The next token is a token, and not one that has been issued.
LEMMA NextTokenIsFresh ==
  ASSUME PoolInv, NEW t \in Token, Renewals < MaxRenewals
  PROVE  NextToken(t) \in Token \ issued
<1>1. Renewals \in Nat
  BY RenewalsInNat DEF PoolInv, IssuedInOrder
<1>2. NextToken(t) \in Token
  BY <1>1, PoolAssumption DEF NextToken, Token, Owner
<1>3. NextToken(t)[2] = Renewals + 1
  BY DEF NextToken
<1> QED
  BY <1>1, <1>2, <1>3 DEF PoolInv, IssuedInOrder

\* Nothing depends on issued but Renewals and Present \subseteq issued.
LEMMA IssuedUnchanged ==
  ASSUME PoolInv, UNCHANGED issued, Present' \subseteq Present
  PROVE  IssuedInOrder'
BY DEF PoolInv, IssuedInOrder, Renewals

\* Giving a slot back (_release_image_slot_locked).
LEMMA FreeSlotKeepsPoolInv ==
  ASSUME PoolInv, NEW t \in Token, FreeSlot(t), UNCHANGED <<aliases, issued>>,
         accounts' \in [Token -> Record], Present' = Present
  PROVE  PoolInv'
<1>1. IssuedInOrder'
  BY IssuedUnchanged
<1>2. inflight' \in [Token -> Nat]
  BY DEF FreeSlot, PoolInv, PoolType
<1>3. \A u \in Token : inflight'[u] <= inflight[u]
  BY DEF FreeSlot, PoolInv, PoolType
<1>4. CountWithinCap'
  BY <1>2, <1>3, PoolAssumption DEF PoolInv, PoolType, CountWithinCap
<1>5. NoOrphanCount'
  BY <1>2, <1>3 DEF PoolInv, PoolType, NoOrphanCount
<1> QED
  BY <1>1, <1>2, <1>4, <1>5 DEF PoolInv, PoolType

\* Only the records change, of tokens that stay in the pool or come back to it.
LEMMA RecordsKeepPoolInv ==
  ASSUME PoolInv, UNCHANGED <<aliases, inflight, issued>>,
         accounts' \in [Token -> Record],
         Present \subseteq Present', Present' \subseteq issued
  PROVE  PoolInv'
<1>1. IssuedInOrder'
  BY DEF PoolInv, IssuedInOrder, Renewals
<1> QED
  BY <1>1 DEF PoolInv, PoolType, CountWithinCap, NoOrphanCount

\* An account is removed (delete_accounts, update_account).
LEMMA DropKeepsPoolInv ==
  ASSUME PoolInv, NEW t \in Token, Drop(t), UNCHANGED issued
  PROVE  PoolInv'
<1>1. /\ accounts' = [accounts EXCEPT ![t] = "absent"]
      /\ inflight' = [inflight EXCEPT ![t] = 0]
      /\ aliases' = ForgetAliases(aliases, {t})
  BY DEF Drop
<1>2. /\ accounts' \in [Token -> Record]
      /\ Present' = Present \ {t}
  BY <1>1 DEF PoolInv, PoolType, Record, Present
<1>3. /\ inflight' \in [Token -> Nat]
      /\ inflight'[t] = 0
      /\ \A u \in Token \ {t} : inflight'[u] = inflight[u]
  BY <1>1 DEF PoolInv, PoolType
<1>4. /\ DOMAIN aliases' \subseteq Token
      /\ \A u \in DOMAIN aliases' : aliases'[u] \in Token
  BY <1>1 DEF PoolInv, PoolType, ForgetAliases
<1>5. IssuedInOrder'
  BY <1>2, IssuedUnchanged
<1>6. NoOrphanCount'
  BY <1>2, <1>3 DEF PoolInv, NoOrphanCount
<1>7. CountWithinCap'
  BY <1>3, PoolAssumption DEF PoolInv, CountWithinCap
<1> QED
  BY <1>2, <1>3, <1>4, <1>5, <1>6, <1>7 DEF PoolInv, PoolType

LEMMA UpdateAccountKeepsPoolInv ==
  ASSUME PoolInv, NEW t \in Token, NEW status \in Status,
         UpdateAccount(t, status), UNCHANGED issued
  PROVE  PoolInv'
<1> DEFINE c == Current(t)
<1>1. c \in Token
  BY CurrentInToken DEF PoolInv
<1>2. CASE c \notin Present
  BY <1>2, RecordsKeepPoolInv DEF UpdateAccount, pool, PoolInv, PoolType, IssuedInOrder, Present
<1>3. CASE c \in Present /\ status = "limited" /\ AutoRemoveLimited
  BY <1>1, <1>3, DropKeepsPoolInv DEF UpdateAccount
<1>4. CASE c \in Present /\ ~(status = "limited" /\ AutoRemoveLimited)
  <2>1. /\ accounts' = [accounts EXCEPT ![c] = status]
        /\ UNCHANGED <<aliases, inflight>>
    BY <1>4 DEF UpdateAccount
  <2>2. accounts' \in [Token -> Record] /\ Present' = Present
    BY <1>1, <1>4, <2>1 DEF PoolInv, PoolType, Record, Status, Present
  <2> QED
    BY <2>1, <2>2, RecordsKeepPoolInv DEF PoolInv, IssuedInOrder
<1> QED
  BY <1>2, <1>3, <1>4

LEMMA RecordInvalidKeepsPoolInv ==
  ASSUME PoolInv, NEW t \in Token, RecordInvalid(t), UNCHANGED issued
  PROVE  PoolInv'
<1>1. Current(t) \in Token
  BY CurrentInToken DEF PoolInv
<1>2. accounts' \in [Token -> Record] /\ Present' = Present
  BY <1>1 DEF RecordInvalid, PoolInv, PoolType, Record, Status, Present
<1> QED
  BY <1>2, RecordsKeepPoolInv DEF RecordInvalid, PoolInv, IssuedInOrder

LEMMA DeleteAccountKeepsPoolInv ==
  ASSUME PoolInv, NEW t \in Token, DeleteAccount(t), UNCHANGED issued
  PROVE  PoolInv'
<1>1. Current(t) \in Token
  BY CurrentInToken DEF PoolInv
<1> QED
  BY <1>1, DropKeepsPoolInv DEF DeleteAccount

LEMMA MarkResultKeepsPoolInv ==
  ASSUME PoolInv, NEW t \in Token, NEW consumed \in BOOLEAN,
         MarkResult(t, consumed), UNCHANGED issued
  PROVE  PoolInv'
<1>1. Current(t) \in Token
  BY CurrentInToken DEF PoolInv
<1>2. accounts' \in [Token -> Record] /\ Present' = Present
  BY <1>1 DEF MarkResult, Charged, PoolInv, PoolType, Record, Status, Present
<1> QED
  BY <1>1, <1>2, FreeSlotKeepsPoolInv DEF MarkResult

\* A renewal moves the account and its slots (_apply_refreshed_tokens).  The new
\* token has no count of its own, because it was never in the pool.
LEMMA RotateKeepsPoolInv ==
  ASSUME PoolInv, NEW old \in Token, NEW status \in Status,
         CanRenew(old), RotateTo(old, status)
  PROVE  PoolInv'
<1> DEFINE new == NextToken(old)
<1>1. /\ accounts' = [accounts EXCEPT ![old] = "absent", ![new] = status]
      /\ aliases' = AliasTo(aliases, old, new)
      /\ inflight' = [inflight EXCEPT ![old] = 0, ![new] = inflight[new] + inflight[old]]
      /\ issued' = issued \cup {new}
  BY DEF RotateTo
<1>2. new \in Token /\ new \notin issued /\ old \in Present
  BY NextTokenIsFresh DEF CanRenew
<1>3. new # old /\ inflight[new] = 0
  BY <1>2 DEF PoolInv, PoolType, IssuedInOrder, NoOrphanCount
<1> HIDE DEF new
<1>4. /\ accounts' \in [Token -> Record]
      /\ Present' = (Present \ {old}) \cup {new}
  BY <1>1, <1>2, <1>3 DEF PoolInv, PoolType, Record, Status, Present
<1>5. /\ inflight' \in [Token -> Nat]
      /\ inflight'[new] = inflight[old] /\ inflight'[old] = 0
      /\ \A u \in Token \ {old, new} : inflight'[u] = inflight[u]
  BY <1>1, <1>2, <1>3 DEF PoolInv, PoolType
<1>6. /\ DOMAIN aliases' \subseteq Token
      /\ \A u \in DOMAIN aliases' : aliases'[u] \in Token
  BY <1>1, <1>2 DEF PoolInv, PoolType, AliasTo
<1>7. IssuedInOrder'
  <2>1. IsFiniteSet(issued') /\ Renewals \in Nat
    BY <1>1, FS_AddElement, RenewalsInNat DEF PoolInv, IssuedInOrder
  <2>2. new[2] = Renewals + 1
    BY DEF new, NextToken
  <2>3. Renewals' = Renewals + 1
    <3> DEFINE R == {t \in issued : t[2] # 0}
    <3>1. {t \in issued' : t[2] # 0} = R \cup {new}
      BY <1>1, <2>1, <2>2
    <3>2. IsFiniteSet(R)
      BY FS_Subset DEF PoolInv, IssuedInOrder
    <3>3. Cardinality(R \cup {new}) = Cardinality(R) + 1
      BY <1>2, <3>2, FS_AddElement
    <3> QED
      BY <3>1, <3>3 DEF Renewals
  <2>4. \A t \in issued' : t[2] <= Renewals'
    <3> TAKE t \in issued'
    <3>1. CASE t = new
      BY <2>1, <2>2, <2>3, <3>1
    <3>2. CASE t \in issued
      <4>1. t[2] \in Nat
        BY <3>2, PoolAssumption DEF PoolInv, PoolType, Token
      <4> QED
        BY <2>1, <2>3, <3>2, <4>1 DEF PoolInv, IssuedInOrder
    <3> QED
      BY <1>1, <3>1, <3>2
  <2> QED
    BY <1>1, <1>4, <2>1, <2>4 DEF IssuedInOrder, PoolInv
<1>8. NoOrphanCount'
  BY <1>2, <1>4, <1>5 DEF PoolInv, NoOrphanCount
<1>9. CountWithinCap'
  BY <1>2, <1>5, PoolAssumption DEF PoolInv, CountWithinCap, PoolType, Present
<1>10. issued' \subseteq Token
  BY <1>1, <1>2 DEF PoolInv, PoolType
<1> QED
  BY <1>4, <1>5, <1>6, <1>7, <1>8, <1>9, <1>10 DEF PoolInv, PoolType

------------------------------------------------------------------------------
(* Every step keeps the invariant. *)

LEMMA InitIInv == Init => IInv
<1> SUFFICES ASSUME Init PROVE IInv
  OBVIOUS
<1>1. IsFiniteSet(issued)
  <2>1. IsFiniteSet({0}) /\ IsFiniteSet(Account)
    BY FS_Singleton, PoolAssumption
  <2> QED
    BY <2>1, FS_Product DEF Init
<1>2. {t \in issued : t[2] # 0} = {}
  BY DEF Init
<1>3. Renewals = 0
  BY <1>2, FS_EmptySet DEF Renewals
<1>4. PoolType
  BY PoolAssumption DEF Init, PoolType, Token, Record, Status
<1>5. IssuedInOrder
  BY <1>1, <1>3, PoolAssumption DEF Init, IssuedInOrder, Present, Token
<1>6. NoOrphanCount /\ CountWithinCap
  BY PoolAssumption DEF Init, NoOrphanCount, CountWithinCap
<1>7. RequestType /\ TokensKnown
  BY DEF Init, RequestType, TokensKnown, Step, Finished, InFlight, HasToken, HasActive
<1> QED
  BY <1>4, <1>5, <1>6, <1>7 DEF IInv, PoolInv

LEMMA RequestStepIInv ==
  ASSUME IInv, NEW w \in Worker, Request(w)
  PROVE  IInv'
<1> USE DEF IInv
<1> DEFINE Requests == RequestType' /\ TokensKnown'
<1>p. UNCHANGED <<pool, issued>> => PoolInv'
  BY RecordsKeepPoolInv DEF pool, PoolInv, PoolType, IssuedInOrder, Present
<1>f. ASSUME NEW outcome \in Finished, Finish(w, outcome)
      PROVE  Requests
  BY <1>f DEF Finish, Goto, RequestType, TokensKnown, Step, Finished, HasToken, HasActive, InFlight
<1>r. ASSUME Reselect(w), fellBack' = fellBack
      PROVE  Requests
  BY <1>r DEF Reselect, Goto, RequestType, TokensKnown, Step, Finished, HasToken, HasActive
<1>g. ASSUME GiveUp(w), UNCHANGED <<token, fellBack>>, pc[w] \in HasActive,
             tried' \in [Worker -> SUBSET Token],
             saw' \in [Worker -> SUBSET {"exhausted", "failure"}]
      PROVE  Requests
  BY <1>g DEF GiveUp, Goto, RequestType, TokensKnown, Step, InFlight, HasToken, HasActive
<1>t. pc[w] \in HasToken => token[w] \in Token
  BY DEF TokensKnown
<1>a. pc[w] \in HasActive => active[w] \in Token
  BY DEF TokensKnown
<1>1. CASE Start(w)
  BY <1>1, <1>p, <1>r DEF Start
<1>2. CASE Acquire(w)
  <2>1. PICK t \in OpenTokens(tried[w]) :
          /\ inflight' = [inflight EXCEPT ![t] = @ + 1]
          /\ token' = [token EXCEPT ![w] = t]
          /\ active' = [active EXCEPT ![w] = t]
          /\ tried' = [tried EXCEPT ![w] = @ \cup {t}]
    BY <1>2 DEF Acquire
  <2>2. /\ t \in Token /\ t \in Present /\ inflight[t] < Cap
        /\ Goto(w, "preflight")
        /\ UNCHANGED <<accounts, aliases, issued, saw, fellBack>>
    BY <1>2 DEF Acquire, OpenTokens, ReadyTokens, Present
  <2>3. Requests
    BY <2>1, <2>2 DEF Goto, RequestType, TokensKnown, Step, InFlight, HasToken, HasActive
  <2>4. PoolInv'
    <3>1. Present' = Present /\ IssuedInOrder'
      BY <2>2, IssuedUnchanged DEF Present
    <3>2. /\ inflight' \in [Token -> Nat]
          /\ inflight'[t] = inflight[t] + 1
          /\ \A u \in Token \ {t} : inflight'[u] = inflight[u]
      BY <2>1, <2>2 DEF PoolInv, PoolType
    <3>3. NoOrphanCount'
      BY <2>2, <3>1, <3>2 DEF PoolInv, NoOrphanCount
    <3>4. CountWithinCap'
      BY <2>2, <3>2, PoolAssumption DEF PoolInv, PoolType, CountWithinCap
    <3> QED
      BY <2>2, <3>1, <3>2, <3>3, <3>4 DEF PoolInv, PoolType
  <2> QED
    BY <2>3, <2>4
<1>3. CASE NoReady(w)
  BY <1>3, <1>p, <1>f DEF NoReady, Finished
<1>4. CASE SelectCancelled(w)
  BY <1>4, <1>p, <1>f DEF SelectCancelled, Finished
<1>5. CASE Preflight(w)
  <2> DEFINE c == Current(token[w])
  <2>1. c \in Token
    BY <1>5, <1>t, CurrentInToken DEF Preflight, HasToken, PoolInv
  <2>2. CASE UNCHANGED <<pool, issued>> /\ active' \in {active, [active EXCEPT ![w] = c]}
    <3>1. Requests
      BY <1>5, <2>1, <2>2 DEF Preflight, Goto, RequestType, TokensKnown, Step, InFlight, HasToken, HasActive
    <3> QED
      BY <2>2, <3>1, <1>p
  <2>3. CASE CanRenew(c) /\ RotateTo(c, accounts[c]) /\ active' = [active EXCEPT ![w] = NextToken(c)]
    <3>1. accounts[c] \in Status
      BY <2>1, <2>3 DEF CanRenew, Present, PoolInv, PoolType, Record
    <3>2. PoolInv'
      BY <2>1, <2>3, <3>1, RotateKeepsPoolInv
    <3>3. NextToken(c) \in Token
      BY <2>1, <2>3, NextTokenIsFresh DEF CanRenew
    <3>4. Requests
      BY <1>5, <2>3, <3>3 DEF Preflight, Goto, RequestType, TokensKnown, Step, InFlight, HasToken, HasActive
    <3> QED
      BY <3>2, <3>4
  <2> QED
    BY <1>5, <2>2, <2>3 DEF Preflight
<1>6. CASE RemoteOk(w)
  <2>1. active[w] \in Token
    BY <1>6, <1>a DEF RemoteOk, HasActive
  <2>2. PICK info \in RemoteStatus :
          LET c == Current(active[w])
              found == IF c \in Present /\ ~(info = "limited" /\ AutoRemoveLimited)
                         THEN c ELSE active[w]
          IN  /\ UpdateAccount(active[w], info)
              /\ IF Available(info)
                   THEN /\ Goto(w, "stream")
                        /\ token' = [token EXCEPT ![w] = found]
                        /\ active' = [active EXCEPT ![w] = NoToken]
                        /\ tried' = [tried EXCEPT ![w] = {}]
                        /\ saw' = [saw EXCEPT ![w] = {}]
                   ELSE /\ GiveUp(w)
                        /\ tried' = [tried EXCEPT ![w] = @ \cup {found}]
                        /\ saw' = [saw EXCEPT ![w] = @ \cup {"exhausted"}]
                        /\ UNCHANGED token
    BY <1>6 DEF RemoteOk
  <2> DEFINE c == Current(active[w])
             found == IF c \in Present /\ ~(info = "limited" /\ AutoRemoveLimited)
                        THEN c ELSE active[w]
  <2>3. found \in Token
    BY <2>1, CurrentInToken DEF PoolInv
  <2> HIDE DEF found
  <2>4. PoolInv'
    BY <1>6, <2>1, <2>2, UpdateAccountKeepsPoolInv DEF RemoteOk, RemoteStatus, Status
  <2>5. CASE Available(info)
    <3>1. /\ Goto(w, "stream")
          /\ token' = [token EXCEPT ![w] = found]
          /\ active' = [active EXCEPT ![w] = NoToken]
          /\ tried' = [tried EXCEPT ![w] = {}]
          /\ saw' = [saw EXCEPT ![w] = {}]
          /\ UNCHANGED fellBack
      BY <1>6, <2>2, <2>5 DEF RemoteOk, found
    <3> QED
      BY <2>3, <2>4, <3>1 DEF Goto, RequestType, TokensKnown, Step, InFlight, HasToken, HasActive
  <2>6. CASE ~Available(info)
    <3>1. /\ GiveUp(w)
          /\ tried' = [tried EXCEPT ![w] = @ \cup {found}]
          /\ saw' = [saw EXCEPT ![w] = @ \cup {"exhausted"}]
          /\ UNCHANGED <<token, fellBack>>
      BY <1>6, <2>2, <2>6 DEF RemoteOk, found
    <3>2. /\ tried' \in [Worker -> SUBSET Token]
          /\ saw' \in [Worker -> SUBSET {"exhausted", "failure"}]
      BY <2>3, <3>1 DEF RequestType
    <3>3. pc[w] \in HasActive
      BY <1>6 DEF RemoteOk, HasActive
    <3> QED
      BY <1>g, <2>4, <3>1, <3>2, <3>3
  <2> QED
    BY <2>5, <2>6
<1>7. CASE RemoteError(w)
  <2>1. saw' \in [Worker -> SUBSET {"exhausted", "failure"}]
    BY <1>7 DEF RemoteError, RequestType
  <2> QED
    BY <1>7, <1>p, <1>g, <2>1 DEF RemoteError, HasActive, RequestType
<1>8. CASE RemoteRenewed(w)
  <2> DEFINE c == Current(active[w])
  <2>1. c \in Token
    BY <1>8, <1>a, CurrentInToken DEF RemoteRenewed, HasActive, PoolInv
  <2>2. CASE CanRenew(c) /\ RotateTo(c, accounts[c]) /\ active' = [active EXCEPT ![w] = NextToken(c)]
    <3>1. accounts[c] \in Status
      BY <2>1, <2>2 DEF CanRenew, Present, PoolInv, PoolType, Record
    <3>2. PoolInv'
      BY <2>1, <2>2, <3>1, RotateKeepsPoolInv
    <3>3. NextToken(c) \in Token
      BY <2>1, <2>2, NextTokenIsFresh DEF CanRenew
    <3>4. Requests
      BY <1>8, <2>2, <3>3 DEF RemoteRenewed, Goto, RequestType, TokensKnown, Step, InFlight, HasToken, HasActive
    <3> QED
      BY <3>2, <3>4
  <2>3. CASE active' = [active EXCEPT ![w] = c] /\ UNCHANGED <<pool, issued>>
    <3>1. Requests
      BY <1>8, <2>1, <2>3 DEF RemoteRenewed, Goto, RequestType, TokensKnown, Step, InFlight, HasToken, HasActive
    <3> QED
      BY <2>3, <3>1, <1>p
  <2> QED
    BY <1>8, <2>2, <2>3 DEF RemoteRenewed
<1>9. CASE RemoteInvalid(w)
  <2>1. PoolInv'
    BY <1>9, <1>a, RecordInvalidKeepsPoolInv DEF RemoteInvalid, HasActive
  <2>2. saw' \in [Worker -> SUBSET {"exhausted", "failure"}]
    BY <1>9 DEF RemoteInvalid, RequestType
  <2>3. CASE AutoRemoveInvalid
    BY <1>9, <2>1, <2>2, <2>3 DEF RemoteInvalid, Goto, RequestType, TokensKnown, Step, InFlight, HasToken, HasActive
  <2>4. CASE ~AutoRemoveInvalid
    BY <1>9, <1>g, <2>1, <2>2, <2>4 DEF RemoteInvalid, HasActive, RequestType
  <2> QED
    BY <2>3, <2>4
<1>10. CASE RemoveInvalid(w)
  <2>1. PoolInv'
    BY <1>10, <1>a, DeleteAccountKeepsPoolInv DEF RemoveInvalid, HasActive
  <2> QED
    BY <1>10, <1>g, <2>1 DEF RemoveInvalid, HasActive, RequestType
<1>11. CASE ReleaseTried(w)
  <2>1. PoolInv'
    <3>1. Current(token[w]) \in Token
      BY <1>11, <1>t, CurrentInToken DEF ReleaseTried, HasToken, PoolInv
    <3> QED
      BY <1>11, <3>1, FreeSlotKeepsPoolInv DEF ReleaseTried, PoolInv, PoolType, Present
  <2> QED
    BY <1>11, <2>1 DEF ReleaseTried, Goto, RequestType, TokensKnown, Step, HasToken, HasActive
<1>12. CASE StreamDone(w)
  <2>1. PoolInv'
    BY <1>12, <1>t, MarkResultKeepsPoolInv DEF StreamDone, HasToken
  <2> QED
    BY <1>12, <1>f, <2>1 DEF StreamDone, Finished
<1>13. CASE StreamDoneSaveFails(w)
  <2>1. PoolInv'
    BY <1>13, <1>t, MarkResultKeepsPoolInv DEF StreamDoneSaveFails, HasToken
  <2> QED
    BY <1>13, <2>1 DEF StreamDoneSaveFails, Goto, RequestType, TokensKnown, Step, InFlight, HasToken, HasActive
<1>14. CASE ReleaseAgain(w)
  <2>1. Current(token[w]) \in Token
    BY <1>14, <1>t, CurrentInToken DEF ReleaseAgain, HasToken, PoolInv
  <2>2. PoolInv'
    BY <1>14, <2>1, FreeSlotKeepsPoolInv DEF ReleaseAgain, PoolInv, PoolType, Present
  <2> QED
    BY <1>14, <1>f, <2>2 DEF ReleaseAgain, Finished
<1>15. CASE StreamTokenInvalid(w)
  <2>1. PoolInv'
    BY <1>15, <1>t, MarkResultKeepsPoolInv DEF StreamTokenInvalid, HasToken
  <2> QED
    BY <1>15, <2>1 DEF StreamTokenInvalid, Goto, RequestType, TokensKnown, Step, HasToken, HasActive
<1>16. CASE RecoverRenewed(w)
  <2> DEFINE c == Current(token[w])
  <2>1. c \in Token
    BY <1>16, <1>t, CurrentInToken DEF RecoverRenewed, HasToken, PoolInv
  <2>2. CASE CanRenew(c) /\ RotateTo(c, accounts[c])
    <3>1. accounts[c] \in Status
      BY <2>1, <2>2 DEF CanRenew, Present, PoolInv, PoolType, Record
    <3> QED
      BY <1>16, <1>r, <2>1, <2>2, <3>1, RotateKeepsPoolInv DEF RecoverRenewed
  <2>3. CASE UNCHANGED <<pool, issued>>
    BY <1>16, <1>p, <1>r, <2>3 DEF RecoverRenewed
  <2> QED
    BY <1>16, <2>2, <2>3 DEF RecoverRenewed
<1>17. CASE RecoverInvalid(w)
  <2>1. PoolInv'
    BY <1>17, <1>t, RecordInvalidKeepsPoolInv DEF RecoverInvalid, HasToken
  <2>2. CASE AutoRemoveInvalid
    BY <1>17, <2>1, <2>2 DEF RecoverInvalid, Goto, RequestType, TokensKnown, Step, HasToken, HasActive
  <2>3. CASE ~AutoRemoveInvalid
    BY <1>17, <1>r, <2>1, <2>3 DEF RecoverInvalid
  <2> QED
    BY <2>2, <2>3
<1>18. CASE RecoverRemove(w)
  <2>1. PoolInv'
    BY <1>18, <1>t, DeleteAccountKeepsPoolInv DEF RecoverRemove, HasToken
  <2> QED
    BY <1>18, <1>r, <2>1 DEF RecoverRemove
<1>19. CASE StreamFallback(w)
  BY <1>19, <1>p DEF StreamFallback, Goto, RequestType, TokensKnown, Step, InFlight, HasToken, HasActive
<1>20. CASE RetryStream(w)
  BY <1>20, <1>p DEF RetryStream, Goto, RequestType, TokensKnown, Step, InFlight, HasToken, HasActive
<1>21. CASE RetryCancelled(w)
  BY <1>21, <1>p, <1>f DEF RetryCancelled, Finished
<1> QED
  BY <1>1, <1>2, <1>3, <1>4, <1>5, <1>6, <1>7, <1>8, <1>9, <1>10, <1>11, <1>12, <1>13,
     <1>14, <1>15, <1>16, <1>17, <1>18, <1>19, <1>20, <1>21 DEF Request

LEMMA EnvironmentStepIInv ==
  ASSUME IInv,
         Rotate \/ BackgroundProbe \/ SetStatus \/ Delete \/ Import \/ Restart
  PROVE  IInv'
<1> USE DEF IInv
<1>q. UNCHANGED request => RequestType' /\ TokensKnown'
  BY DEF request, RequestType, TokensKnown
<1>1. CASE Rotate
  <2>1. PICK t \in Present : CanRenew(t) /\ (RotateTo(t, accounts[t]) \/ RotateTo(t, "normal"))
    BY <1>1 DEF Rotate
  <2>2. t \in Token /\ accounts[t] \in Status /\ "normal" \in Status
    BY DEF Present, PoolInv, PoolType, Record, Status
  <2>3. PoolInv'
    BY <2>1, <2>2, RotateKeepsPoolInv
  <2> QED
    BY <1>1, <1>q, <2>3 DEF Rotate
<1>2. CASE BackgroundProbe
  <2>1. PICK t \in Present : (\E info \in RemoteStatus : UpdateAccount(t, info)) \/ RecordInvalid(t)
    BY <1>2 DEF BackgroundProbe
  <2>2. t \in Token /\ RemoteStatus \subseteq Status
    BY DEF Present, RemoteStatus, Status
  <2>3. PoolInv'
    BY <1>2, <2>1, <2>2, UpdateAccountKeepsPoolInv, RecordInvalidKeepsPoolInv DEF BackgroundProbe
  <2> QED
    BY <1>2, <1>q, <2>3 DEF BackgroundProbe
<1>3. CASE SetStatus
  <2>1. PICK t \in Present, status \in {"normal", "disabled"} : UpdateAccount(t, status)
    BY <1>3 DEF SetStatus
  <2>2. PoolInv'
    BY <1>3, <2>1, UpdateAccountKeepsPoolInv DEF SetStatus, Present, Status
  <2> QED
    BY <1>3, <1>q, <2>2 DEF SetStatus
<1>4. CASE Delete
  <2>1. PoolInv'
    BY <1>4, DeleteAccountKeepsPoolInv DEF Delete, Present
  <2> QED
    BY <1>4, <1>q, <2>1 DEF Delete
<1>5. CASE Import
  <2>1. PICK t \in issued \ Present : accounts' = [accounts EXCEPT ![t] = "normal"]
    BY <1>5 DEF Import
  <2>2. t \in Token
    BY DEF PoolInv, PoolType
  <2>3. accounts' \in [Token -> Record] /\ Present' = Present \cup {t}
    BY <2>1, <2>2 DEF PoolInv, PoolType, Record, Status, Present
  <2>4. PoolInv'
    BY <1>5, <2>3, RecordsKeepPoolInv DEF Import, PoolInv, IssuedInOrder
  <2> QED
    BY <1>5, <1>q, <2>4 DEF Import
<1>6. CASE Restart
  <2>1. PoolInv'
    <3>1. IssuedInOrder'
      BY <1>6, IssuedUnchanged DEF Restart, Present
    <3> QED
      BY <1>6, <3>1, PoolAssumption
      DEF Restart, PoolInv, PoolType, NoOrphanCount, CountWithinCap, Present
  <2>2. RequestType' /\ TokensKnown'
    BY <1>6 DEF Restart, RequestType, TokensKnown, Step, Finished, HasToken, HasActive, InFlight
  <2> QED
    BY <2>1, <2>2
<1> QED
  BY <1>1, <1>2, <1>3, <1>4, <1>5, <1>6

\* Only an import is remembered, and only a restart forgets it.
LEMMA RequestKeepsReimported ==
  ASSUME NEW w \in Worker, Request(w)
  PROVE  UNCHANGED reimported
BY DEF Request, Start, Acquire, NoReady, SelectCancelled, Preflight, RemoteOk, RemoteError,
       RemoteRenewed, RemoteInvalid, RemoveInvalid, ReleaseTried, StreamDone,
       StreamDoneSaveFails, ReleaseAgain, StreamTokenInvalid, RecoverRenewed,
       RecoverInvalid, RecoverRemove, StreamFallback, RetryStream, RetryCancelled

LEMMA OthersKeepReimported ==
  ASSUME Rotate \/ BackgroundProbe \/ SetStatus \/ Delete
  PROVE  UNCHANGED reimported
BY DEF Rotate, BackgroundProbe, SetStatus, Delete

LEMMA StutterIInv ==
  ASSUME IInv, UNCHANGED vars
  PROVE  IInv'
BY DEF IInv, PoolInv, PoolType, IssuedInOrder, Renewals, NoOrphanCount, CountWithinCap,
       Present, RequestType, TokensKnown, vars

LEMMA Invariance == Spec => []IInv
<1>1. IInv /\ [Next]_vars => IInv'
  BY RequestStepIInv, EnvironmentStepIInv, StutterIInv DEF Next
<1> QED
  BY <1>1, InitIInv, PTL DEF Spec

------------------------------------------------------------------------------
(* The results. *)

\* Every variable keeps its type: in particular a resolved token is a token.
THEOREM TypeCorrect == Spec => []TypeOK
<1> DEFINE Known == reimported \subseteq Account
<1>1. IInv /\ Known => TypeOK
  BY DEF IInv, PoolInv, PoolType, RequestType, TypeOK
<1>2. Init => Known
  BY DEF Init
<1>3. IInv /\ Known /\ [Next]_vars => Known'
  <2> SUFFICES ASSUME IInv, Known, [Next]_vars PROVE Known'
    OBVIOUS
  <2>1. CASE Import
    <3>1. PICK t \in issued : reimported' = IF InUse(Owner(t)) THEN reimported \cup {Owner(t)} ELSE reimported
      BY <2>1 DEF Import
    <3>2. Owner(t) \in Account
      BY <3>1 DEF IInv, PoolInv, PoolType, Token, Owner
    <3> QED
      BY <3>1, <3>2
  <2>2. CASE UNCHANGED reimported
    BY <2>2
  <2>3. CASE Restart
    BY <2>3 DEF Restart
  <2> QED
    BY <2>1, <2>2, <2>3, RequestKeepsReimported, OthersKeepReimported DEF Next, vars
<1> QED
  BY <1>1, <1>2, <1>3, Invariance, PTL DEF Spec

\* No count outlives its account: an account imported again under a known token
\* starts with all its slots, whatever requests of the past do
\* (delete_accounts, update_account, _apply_refreshed_tokens).
THEOREM CountsHaveAccounts == Spec => []NoOrphanCount
<1>1. IInv => NoOrphanCount
  BY DEF IInv, PoolInv
<1> QED
  BY <1>1, Invariance, PTL

\* The in-flight count of a token never exceeds image_account_concurrency, even
\* where a rotation merges two counts and looks at no limit: the new token's
\* count is 0, because it was no key of the pool.
THEOREM CountsWithinCap == Spec => []CountWithinCap
<1>1. IInv => CountWithinCap
  BY DEF IInv, PoolInv
<1> QED
  BY <1>1, Invariance, PTL

------------------------------------------------------------------------------
(* Slots and the requests that hold them.                                  *)
(*                                                                         *)
(* A request holds its slot under whatever key its token leads to now.     *)
(* That is a fact about a request, the alias table and the pool at once:   *)
(* tokens and aliases were issued, so a rotation's new token is none of    *)
(* theirs; aliases stay with one upstream account; and the two tokens of a *)
(* request that probes lead to the same account, if they lead to one.      *)

\* The aliases' tokens were issued, and no alias leads to another account.
AliasesIssued ==
  /\ AliasNodes(aliases) \subseteq issued
  /\ \A x \in DOMAIN aliases : Owner(aliases[x]) = Owner(x)

\* What holds of one request: its tokens were issued, and where the probe's token
\* has been renewed, the slot's token leads there too, unless the account was
\* imported again meanwhile.  The retry with a kept slot and the second release
\* only occur where they may.
RequestSound(w) ==
  /\ pc[w] \in HasToken => token[w] \in issued
  /\ pc[w] \in HasActive => active[w] \in issued /\ Owner(active[w]) = Owner(token[w])
  /\ /\ pc[w] \in HasActive /\ Owner(token[w]) \notin reimported
     /\ Current(token[w]) \in Present \/ Current(active[w]) \in Present
     => Current(token[w]) = Current(active[w])
  /\ pc[w] = "retry" => FallbackProxy
  /\ pc[w] = "releaseAgain" => SaveMayFail

\* The accounts that were not imported under a running request.
Settled == {t \in Present : Owner(t) \notin reimported}

\* Every slot held of a settled account is counted; and without the retry of the
\* fallback proxy, which a cancellation may end, every slot counted is held.
Slots ==
  ~SaveMayFail =>
    \A t \in Settled : /\ Cardinality(Holders(t)) <= inflight[t]
                       /\ ~FallbackProxy => Cardinality(Holders(t)) = inflight[t]

SlotInv == IInv /\ AliasesIssued /\ (\A w \in Worker : RequestSound(w)) /\ Slots

\* What RotationKeepsRequest says of one request.
Kept(w) ==
  (/\ Holds(w) /\ Holds(w)' /\ Current(token[w]) \in Present
   /\ Owner(token[w]) \notin reimported')
    => \/ Current(token[w])' \in Present'
       \/ \A t \in Present' : Owner(t) # Owner(token[w])
       \/ \E t \in Present : Owner(t) = Owner(token[w]) /\ t # Current(token[w])

------------------------------------------------------------------------------
(* What an operation of the pool does to the tokens of a set X: it leaves  *)
(* them where they lead, or it renames an account.                         *)

Steady(X) ==
  \A x \in X :
    /\ Current(x) \in Present /\ Current(x) \in Present' => Current(x)' = Current(x)
    /\ Current(x)' \in Present' => Current(x)' = Current(x) /\ Current(x) \in Present

Renamed(old, new) ==
  \A x \in issued :
    /\ Current(x) = old => Current(x)' = new
    /\ Current(x) \in Present \ {old} => Current(x)' = Current(x)
    /\ Current(x)' \in Present' => Current(x) \in Present

\* No alias is added or changed.
AliasesKept ==
  /\ DOMAIN aliases' \subseteq DOMAIN aliases
  /\ \A x \in DOMAIN aliases' : aliases'[x] = aliases[x]

\* The operations that touch no slot of an account that stays.
Calm ==
  /\ Steady(Token) /\ AliasesKept /\ Present' \subseteq Present
  /\ \A t \in Present' : inflight'[t] = inflight[t]

LEMMA SamePoolIsSteady ==
  ASSUME Present' = Present, UNCHANGED aliases
  PROVE  Steady(Token) /\ AliasesKept
  BY DEF Steady, AliasesKept, Current

LEMMA NodesAreTokens ==
  ASSUME PoolType
  PROVE  AliasNodes(aliases) \subseteq Token /\ Present \subseteq Token
  BY DEF PoolType, AliasNodes, Present

LEMMA DropIsCalm ==
  ASSUME PoolInv, NEW t \in Token, Current(t) = t, Drop(t)
  PROVE  Calm /\ Present' = Present \ {t}
<1>1. /\ accounts' = [accounts EXCEPT ![t] = "absent"]
      /\ inflight' = [inflight EXCEPT ![t] = 0]
      /\ aliases' = ForgetAliases(aliases, {t})
  BY DEF Drop
<1>2. Present' = Present \ {t}
  BY <1>1 DEF PoolInv, PoolType, Present
<1>3. \A u \in Present' : inflight'[u] = inflight[u]
  BY <1>1, <1>2 DEF PoolInv, PoolType, Present
<1>4. Steady(Token)
  <2> SUFFICES ASSUME NEW x \in Token
               PROVE  /\ Current(x) \in Present' => Current(x)' = Current(x)
                      /\ Current(x)' \in Present' => Current(x)' = Current(x)
    BY <1>2 DEF Steady
  <2> QED
    BY <1>1, <1>2, AliasDropped, NodesAreTokens DEF PoolInv, Current
<1>5. AliasesKept
  BY <1>1 DEF AliasesKept, ForgetAliases
<1> QED
  BY <1>2, <1>3, <1>4, <1>5 DEF Calm

LEMMA UpdateAccountIsCalm ==
  ASSUME PoolInv, NEW t \in Token, NEW status \in Status, UpdateAccount(t, status)
  PROVE  /\ Calm
         /\ Current(t) \in Present /\ ~(status = "limited" /\ AutoRemoveLimited)
              => Present' = Present /\ UNCHANGED aliases
         /\ status = "limited" /\ AutoRemoveLimited => Present' = Present \ {Current(t)}
<1> DEFINE c == Current(t)
<1>1. c \in Token /\ Current(c) = c
  BY CurrentInToken, ResolveTwice DEF PoolInv, Current
<1>2. CASE c \notin Present
  BY <1>2, SamePoolIsSteady DEF UpdateAccount, pool, Calm, Present
<1>3. CASE c \in Present /\ status = "limited" /\ AutoRemoveLimited
  BY <1>1, <1>3, DropIsCalm DEF UpdateAccount
<1>4. CASE c \in Present /\ ~(status = "limited" /\ AutoRemoveLimited)
  <2>1. accounts' = [accounts EXCEPT ![c] = status] /\ UNCHANGED <<aliases, inflight>>
    BY <1>4 DEF UpdateAccount
  <2>2. Present' = Present
    BY <1>1, <1>4, <2>1 DEF PoolInv, PoolType, Status, Present
  <2> QED
    BY <1>4, <2>1, <2>2, SamePoolIsSteady DEF Calm
<1> QED
  BY <1>2, <1>3, <1>4

LEMMA RecordInvalidIsCalm ==
  ASSUME PoolInv, NEW t \in Token, RecordInvalid(t)
  PROVE  Calm
<1>1. Present' = Present
  BY DEF RecordInvalid, PoolInv, PoolType, Present
<1> QED
  BY <1>1, SamePoolIsSteady DEF Calm, RecordInvalid

LEMMA DeleteAccountIsCalm ==
  ASSUME PoolInv, NEW t \in Token, DeleteAccount(t)
  PROVE  Calm
<1>1. Current(t) \in Token /\ Current(Current(t)) = Current(t)
  BY CurrentInToken, ResolveTwice DEF PoolInv, Current
<1> QED
  BY <1>1, DropIsCalm DEF DeleteAccount

\* A renewal renames the account, for every token that led to it.
LEMMA RotateRenames ==
  ASSUME PoolInv, AliasesIssued, NEW old \in Token, NEW status \in Status,
         CanRenew(old), RotateTo(old, status)
  PROVE  LET new == NextToken(old)
         IN  /\ Renamed(old, new)
             /\ new \in Token /\ new \notin issued /\ old \in Present
             /\ Present' = (Present \ {old}) \cup {new}
             /\ inflight'[new] = inflight[old]
             /\ \A t \in Present \ {old} : inflight'[t] = inflight[t]
             /\ issued' = issued \cup {new}
             /\ Owner(new) = Owner(old)
             /\ AliasesIssued'
<1> DEFINE new == NextToken(old)
<1>1. /\ accounts' = [accounts EXCEPT ![old] = "absent", ![new] = status]
      /\ aliases' = AliasTo(aliases, old, new)
      /\ inflight' = [inflight EXCEPT ![old] = 0, ![new] = inflight[new] + inflight[old]]
      /\ issued' = issued \cup {new}
  BY DEF RotateTo
<1>2. new \in Token /\ new \notin issued /\ old \in Present
  BY NextTokenIsFresh DEF CanRenew
<1>3. new # old /\ inflight[new] = 0 /\ Present \subseteq issued
  BY <1>2 DEF PoolInv, PoolType, IssuedInOrder, NoOrphanCount
<1>4. Owner(new) = Owner(old)
  BY DEF NextToken, Owner
<1> HIDE DEF new
<1>5. Present' = (Present \ {old}) \cup {new}
  BY <1>1, <1>2, <1>3 DEF PoolInv, PoolType, Status, Present
<1>6. inflight'[new] = inflight[old] /\ \A t \in Present \ {old} : inflight'[t] = inflight[t]
  BY <1>1, <1>2, <1>3 DEF PoolInv, PoolType, Present
<1>7. Renamed(old, new)
  <2> SUFFICES ASSUME NEW x \in issued
               PROVE  /\ Current(x) = old => Current(x)' = new
                      /\ Current(x) \in Present \ {old} => Current(x)' = Current(x)
                      /\ Current(x)' \in Present' => Current(x) \in Present
    BY DEF Renamed
  <2>1. AliasNodes(aliases) \subseteq issued
    BY DEF AliasesIssued
  <2> QED
    BY <1>1, <1>2, <1>3, <1>5, <2>1, AliasRotated DEF Current
<1>8. AliasesIssued'
  <2>1. AliasNodes(aliases') \subseteq AliasNodes(aliases) \cup {old, new}
    BY <1>1 DEF AliasNodes, AliasTo
  <2>2. \A x \in DOMAIN aliases' : Owner(aliases'[x]) = Owner(x)
    BY <1>1, <1>4 DEF AliasTo, AliasesIssued
  <2> QED
    BY <1>1, <1>2, <1>3, <2>1, <2>2 DEF AliasesIssued
<1> QED
  BY <1>1, <1>2, <1>4, <1>5, <1>6, <1>7, <1>8 DEF new

\* An imported token is none that a token of another account leads to.
LEMMA ImportIsSteady ==
  ASSUME PoolInv, AliasesIssued, NEW t \in Token,
         Present' = Present \cup {t}, UNCHANGED aliases
  PROVE  Steady({x \in Token : Owner(x) # Owner(t)}) /\ AliasesKept
<1> SUFFICES ASSUME NEW x \in Token, Owner(x) # Owner(t)
             PROVE  /\ Current(x) \in Present => Current(x)' = Current(x)
                    /\ Current(x)' \in Present' => Current(x)' = Current(x) /\ Current(x) \in Present
  BY DEF Steady, AliasesKept
<1> DEFINE Z == {y \in Token : Owner(y) = Owner(x)}
<1>1. \A y \in Z : AliasHop(Present, aliases, y) \in Z
  BY DEF AliasHop, AliasesIssued, PoolInv, PoolType
<1>2. Z \in SUBSET Token /\ x \in Z /\ t \notin Z
  OBVIOUS
<1>3. AliasNodes(aliases) \subseteq Token /\ Present \subseteq Token
  BY NodesAreTokens DEF PoolInv
<1> HIDE DEF Z
<1> QED
  BY <1>1, <1>2, <1>3, AliasImported DEF Current

------------------------------------------------------------------------------
(* What that means for a request that does not move. *)

LEMMA SoundSteady ==
  ASSUME NEW w \in Worker, RequestSound(w), NEW X, Steady(X), issued \subseteq issued',
         reimported \subseteq reimported',
         pc'[w] \in HasToken => pc[w] \in HasToken /\ token'[w] = token[w] /\ token[w] \in X,
         pc'[w] \in HasActive => pc[w] \in HasActive /\ active'[w] = active[w] /\ active[w] \in X,
         pc'[w] = "retry" => FallbackProxy, pc'[w] = "releaseAgain" => SaveMayFail
  PROVE  RequestSound(w)'
<1>1. ASSUME pc'[w] \in HasActive, Owner(token'[w]) \notin reimported',
             Current(token[w])' \in Present' \/ Current(active[w])' \in Present'
      PROVE  Current(token[w])' = Current(active[w])'
  <2>1. /\ token[w] \in X /\ token'[w] = token[w]
        /\ active[w] \in X /\ active'[w] = active[w] /\ pc[w] \in HasActive
    BY <1>1 DEF HasActive, HasToken
  <2>2. /\ Current(token[w])' = Resolve(Present', aliases', token[w])
        /\ Current(active[w])' = Resolve(Present', aliases', active[w])
    BY <2>1 DEF Current
  <2>3. Current(token[w]) = Current(active[w]) /\ Current(token[w]) \in Present \cap Present'
    BY <1>1, <2>1, <2>2 DEF Steady, RequestSound, Current
  <2> QED
    BY <2>1, <2>2, <2>3 DEF Steady, Current
<1>2. /\ pc'[w] \in HasToken => token'[w] \in issued'
      /\ pc'[w] \in HasActive => active'[w] \in issued' /\ Owner(active'[w]) = Owner(token'[w])
  BY DEF RequestSound, HasToken, HasActive
<1> QED
  BY <1>1, <1>2 DEF RequestSound

LEMMA SoundRenamed ==
  ASSUME NEW w \in Worker, RequestSound(w), NEW old, NEW new, Renamed(old, new),
         issued \subseteq issued', reimported' = reimported,
         pc'[w] = pc[w], token'[w] = token[w], active'[w] = active[w]
  PROVE  RequestSound(w)'
<1>1. ASSUME pc[w] \in HasActive, Owner(token[w]) \notin reimported,
             Current(token[w])' \in Present' \/ Current(active[w])' \in Present'
      PROVE  Current(token[w])' = Current(active[w])'
  <2>1. token[w] \in issued /\ active[w] \in issued
    BY <1>1 DEF RequestSound, HasActive, HasToken
  <2>2. Current(token[w]) = Current(active[w]) /\ Current(token[w]) \in Present
    BY <1>1, <2>1 DEF Renamed, RequestSound
  <2> QED
    BY <2>1, <2>2 DEF Renamed
<1> QED
  BY <1>1 DEF RequestSound, Current

LEMMA KeptSteady ==
  ASSUME NEW w \in Worker, NEW X, Steady(X), Present' \subseteq Present \/ Present \subseteq Present',
         Holds(w) => token'[w] = token[w] /\ token[w] \in X
  PROVE  Kept(w)
<1> SUFFICES ASSUME Holds(w), Current(token[w]) \in Present, Current(token[w])' \notin Present'
             PROVE  \/ \A t \in Present' : Owner(t) # Owner(token[w])
                    \/ \E t \in Present : Owner(t) = Owner(token[w]) /\ t # Current(token[w])
  BY DEF Kept
<1>1. Current(token[w])' = Resolve(Present', aliases', token[w])
  BY DEF Current
<1>2. Current(token[w]) \notin Present'
  BY <1>1 DEF Steady, Current
<1> QED
  BY <1>2

LEMMA KeptRenamed ==
  ASSUME NEW w \in Worker, NEW old, NEW new, Renamed(old, new), new \in Present',
         Present \ {old} \subseteq Present',
         Holds(w) => token'[w] = token[w] /\ token[w] \in issued
  PROVE  Kept(w)
<1> SUFFICES ASSUME Holds(w), Current(token[w]) \in Present
             PROVE  Current(token[w])' \in Present'
  BY DEF Kept
<1>1. Current(token[w])' = Resolve(Present', aliases', token[w])
  BY DEF Current
<1> QED
  BY <1>1 DEF Renamed, Current

LEMMA KeptIdle == ASSUME NEW w \in Worker, ~Holds(w) \/ ~Holds(w)' PROVE Kept(w)
BY DEF Kept

\* A token leads to a token of the same account, before a step and after it.
LEMMA CurrentIsIssued ==
  ASSUME PoolInv, AliasesIssued, NEW t \in issued
  PROVE  /\ Current(t) \in issued /\ Owner(Current(t)) = Owner(t)
         /\ Current(Current(t)) = Current(t)
<1> DEFINE Z == {y \in issued : Owner(y) = Owner(t)}
<1>1. \A y \in Z : AliasHop(Present, aliases, y) \in Z
  BY DEF AliasHop, AliasesIssued, AliasNodes
<1>2. Z \in SUBSET issued /\ t \in Z /\ AliasNodes(aliases) \subseteq issued
  BY DEF AliasesIssued
<1>3. Resolve(Present, aliases, t) \in Z
  <2> HIDE DEF Z
  <2> QED BY <1>1, <1>2, ResolveStays
<1> QED
  BY <1>3, ResolveTwice DEF Current

LEMMA CurrentIsIssuedNext ==
  ASSUME PoolInv', AliasesIssued', NEW t \in issued'
  PROVE  Owner(Resolve(Present', aliases', t)) = Owner(t)
<1> DEFINE Z == {y \in issued' : Owner(y) = Owner(t)}
<1>1. \A y \in Z : AliasHop(Present', aliases', y) \in Z
  BY DEF AliasHop, AliasesIssued, AliasNodes, Owner
<1>2. Z \in SUBSET issued' /\ t \in Z /\ AliasNodes(aliases') \subseteq issued'
  BY DEF AliasesIssued, AliasNodes
<1>3. Resolve(Present', aliases', t) \in Z
  <2> HIDE DEF Z
  <2> QED BY <1>1, <1>2, ResolveStays
<1> QED
  BY <1>3

------------------------------------------------------------------------------
(* Counting the holders of a slot. *)

Here(w, t) == IF w \in Holders(t) THEN 1 ELSE 0

\* The count and the request's share in it change by the same amount; where a
\* cancellation may leave a slot behind, the count may be larger.
Balance(w, t) ==
  /\ inflight'[t] + Here(w, t) >= inflight[t] + Here(w, t)'
  /\ ~FallbackProxy => inflight'[t] + Here(w, t) = inflight[t] + Here(w, t)'

LEMMA CardinalitySplit ==
  ASSUME NEW H, IsFiniteSet(H), NEW w
  PROVE  /\ Cardinality(H \ {w}) \in Nat
         /\ Cardinality(H) = Cardinality(H \ {w}) + (IF w \in H THEN 1 ELSE 0)
<1>1. IsFiniteSet(H \ {w})
  BY FS_Subset
<1>2. Cardinality(H \ {w}) \in Nat /\ Cardinality(H) \in Nat
  BY <1>1, FS_CardinalityType
<1>3. CASE w \in H
  BY <1>2, <1>3, FS_RemoveElement
<1>4. CASE w \notin H
  <2>1. H \ {w} = H
    BY <1>4
  <2> QED
    BY <1>2, <1>4, <2>1
<1> QED
  BY <1>3, <1>4

LEMMA HoldersFinite ==
  ASSUME NEW t
  PROVE  IsFiniteSet(Holders(t)) /\ IsFiniteSet(Holders(t)')
<1>1. Holders(t) \subseteq Worker /\ Holders(t)' \subseteq Worker
  BY DEF Holders
<1> QED
  BY <1>1, PoolAssumption, FS_Subset

\* One request moves, the pool is steady for the others: then the counts stay
\* right where the moving request's share is accounted for.
LEMMA SlotsSteady ==
  ASSUME IInv, IInv', AliasesIssued, AliasesIssued', Slots, NEW w, NEW X, Steady(X),
         reimported \subseteq reimported', issued' = issued,
         \A v \in Worker \ {w} :
            /\ pc'[v] = pc[v] /\ token'[v] = token[v]
            /\ Holds(v) => \/ token[v] \in X
                           \/ token[v] \in issued /\ Owner(token[v]) \in reimported',
         ~SaveMayFail => \A t \in Settled' :
            IF t \in Present THEN Balance(w, t) ELSE inflight'[t] = 0 /\ Here(w, t)' = 0
  PROVE  Slots'
<1> SUFFICES ASSUME ~SaveMayFail, NEW t \in Settled'
             PROVE  /\ Cardinality(Holders(t)') <= inflight'[t]
                    /\ ~FallbackProxy => Cardinality(Holders(t)') = inflight'[t]
  BY DEF Slots
<1>n. t \in Present' /\ Owner(t) \notin reimported'
  BY DEF Settled, Owner
<1>1. t \in Token /\ inflight[t] \in Nat /\ inflight'[t] \in Nat
  BY <1>n DEF Present, IInv, PoolInv, PoolType
<1>2. /\ Cardinality(Holders(t) \ {w}) \in Nat
      /\ Cardinality(Holders(t)) = Cardinality(Holders(t) \ {w}) + Here(w, t)
  BY CardinalitySplit, HoldersFinite DEF Here
<1>3. /\ Cardinality(Holders(t)' \ {w}) \in Nat
      /\ Cardinality(Holders(t)') = Cardinality(Holders(t)' \ {w}) + Here(w, t)'
  BY CardinalitySplit, HoldersFinite DEF Here
<1>4. ASSUME NEW v \in Worker \ {w}
      PROVE  v \in Holders(t)' <=> t \in Present /\ v \in Holders(t)
  <2>1. Holds(v)' <=> Holds(v)
    BY <1>4 DEF Holds
  <2>2. Current(token[v])' = Resolve(Present', aliases', token[v])
    BY <1>4 DEF Current
  <2>3. CASE token[v] \in X
    <3>1. Current(token[v])' = t <=> t \in Present /\ Current(token[v]) = t
      BY <1>n, <1>4, <2>2, <2>3 DEF Steady, Current
    <3> QED
      BY <1>4, <2>1, <2>2, <3>1 DEF Holders, Current
  <2>4. CASE token[v] \in issued /\ Owner(token[v]) \in reimported'
    <3>1. Owner(Current(token[v])) = Owner(token[v])
      BY <2>4, CurrentIsIssued DEF IInv
    <3>2. Owner(Current(token[v])') = Owner(token[v])
      BY <2>2, <2>4, CurrentIsIssuedNext DEF IInv
    <3> QED
      BY <1>n, <2>4, <3>1, <3>2 DEF Holders
  <2> QED
    BY <1>4, <2>1, <2>3, <2>4 DEF Holders
<1>5. CASE t \in Present
  <2>1. Holders(t)' \ {w} = Holders(t) \ {w}
    BY <1>4, <1>5 DEF Holders
  <2>2. Here(w, t) \in Nat /\ Here(w, t)' \in Nat
    BY DEF Here
  <2>3. /\ Cardinality(Holders(t)) <= inflight[t]
        /\ ~FallbackProxy => Cardinality(Holders(t)) = inflight[t]
    BY <1>n, <1>5 DEF Slots, Settled
  <2>4. Balance(w, t)
    BY <1>5
  <2> QED
    BY <1>1, <1>2, <1>3, <2>1, <2>2, <2>3, <2>4 DEF Balance
<1>6. CASE t \notin Present
  <2>1. Holders(t)' \ {w} = {}
    BY <1>4, <1>6 DEF Holders
  <2>2. inflight'[t] = 0 /\ Here(w, t)' = 0
    BY <1>6
  <2> QED
    BY <1>3, <2>1, <2>2, FS_EmptySet
<1> QED
  BY <1>5, <1>6

\* A rotation moves the count and its holders together.
LEMMA SlotsRenamed ==
  ASSUME IInv, IInv', Slots, NEW old \in Present, NEW new, new \notin Present, Renamed(old, new),
         Present' = (Present \ {old}) \cup {new}, inflight'[new] = inflight[old],
         Owner(new) = Owner(old), reimported' = reimported,
         \A t \in Present \ {old} : inflight'[t] = inflight[t],
         \A v \in Worker : /\ Holds(v)' <=> Holds(v)
                           /\ Holds(v) => token'[v] = token[v] /\ token[v] \in issued
  PROVE  Slots'
<1> SUFFICES ASSUME ~SaveMayFail, NEW t \in Settled'
             PROVE  /\ Cardinality(Holders(t)') <= inflight'[t]
                    /\ ~FallbackProxy => Cardinality(Holders(t)') = inflight'[t]
  BY DEF Slots
<1> DEFINE u == IF t = new THEN old ELSE t
<1>1. u \in Settled /\ inflight'[t] = inflight[u] /\ t \in Present'
  BY DEF Settled, Owner
<1>2. Holders(t)' = Holders(u)
  <2> SUFFICES ASSUME NEW v \in Worker, Holds(v)
               PROVE  Current(token[v])' = t <=> Current(token[v]) = u
    BY DEF Holders
  <2>1. Current(token[v])' = Resolve(Present', aliases', token[v])
    BY DEF Current
  <2>2. u \in Present /\ token[v] \in issued
    BY <1>1 DEF Settled
  <2> QED
    BY <1>1, <2>1, <2>2 DEF Renamed, Current
<1> QED
  BY <1>1, <1>2 DEF Slots

------------------------------------------------------------------------------
(* The kinds of steps. *)

\* Every request but w stays where it is.
OthersStay(w) ==
  \A v \in Worker \ {w} : pc'[v] = pc[v] /\ token'[v] = token[v] /\ active'[v] = active[v]

StepIsSound == SlotInv' /\ \A v \in Worker : Kept(v)

LEMMA HolderHasToken ==
  ASSUME IInv, \A v \in Worker : RequestSound(v), NEW w \in Worker, Holds(w)
  PROVE  token[w] \in issued /\ token[w] \in Token
BY DEF Holds, InFlight, HasToken, RequestSound, IInv, PoolInv, PoolType

LEMMA SteadyStep ==
  ASSUME SlotInv, IInv', NEW w, OthersStay(w), issued' = issued, reimported' = reimported,
         Steady(Token), AliasesKept, Present' \subseteq Present,
         w \in Worker => RequestSound(w)' /\ Kept(w),
         ~SaveMayFail => \A t \in Settled' : Balance(w, t)
  PROVE  StepIsSound
<1> USE DEF SlotInv
<1>1. AliasesIssued'
  BY DEF AliasesIssued, AliasesKept, AliasNodes
<1>2. ASSUME NEW v \in Worker PROVE RequestSound(v)' /\ Kept(v)
  <2>1. CASE v = w
    BY <2>1
  <2>2. CASE v # w
    <3>1. /\ pc[v] \in HasToken => token[v] \in Token
          /\ pc[v] \in HasActive => active[v] \in Token
      BY DEF IInv, TokensKnown
    <3>2. RequestSound(v)
      BY <1>2
    <3>3. pc'[v] = pc[v] /\ token'[v] = token[v] /\ active'[v] = active[v]
      BY <2>2 DEF OthersStay
    <3>4. (pc'[v] = "retry" => FallbackProxy) /\ (pc'[v] = "releaseAgain" => SaveMayFail)
      BY <3>2, <3>3 DEF RequestSound
    <3>5. RequestSound(v)'
      BY <3>1, <3>2, <3>3, <3>4, SoundSteady
    <3>6. Holds(v) => token[v] \in Token
      BY HolderHasToken
    <3> QED
      BY <3>3, <3>5, <3>6, KeptSteady
  <2> QED
    BY <2>1, <2>2
<1>3. Slots'
  <2>1. Settled' \subseteq Present' /\ Settled' \subseteq Present
    BY DEF Settled
  <2> QED
    BY <1>1, <2>1, SlotsSteady, HolderHasToken DEF OthersStay
<1> QED
  BY <1>1, <1>2, <1>3 DEF StepIsSound

\* No slot is taken or given back, and none of an account that stays is dropped.
LEMMA CalmStep ==
  ASSUME SlotInv, IInv', NEW w, OthersStay(w), issued' = issued, reimported' = reimported, Calm,
         w \in Worker => /\ RequestSound(w)' /\ (Holds(w)' <=> Holds(w))
                         /\ Holds(w) => token'[w] = token[w]
  PROVE  StepIsSound
<1>1. w \in Worker /\ Holds(w) => token[w] \in Token
  BY HolderHasToken DEF SlotInv
<1>2. w \in Worker => Kept(w)
  BY <1>1, KeptSteady DEF Calm
<1>3. ASSUME NEW t \in Present' PROVE Balance(w, t)
  <2>1. t \in Present /\ inflight'[t] = inflight[t] /\ inflight[t] \in Nat
    BY <1>3 DEF Calm, SlotInv, IInv, PoolInv, PoolType, Present
  <2>2. w \in Holders(t)' <=> w \in Holders(t)
    <3>1. w \in Worker /\ Holds(w) => Current(token[w])' = Resolve(Present', aliases', token[w])
      BY DEF Current
    <3>2. w \in Worker /\ Holds(w) => (Current(token[w])' = t <=> Current(token[w]) = t)
      BY <1>1, <2>1, <3>1 DEF Calm, Steady, Current
    <3> QED
      BY <3>2 DEF Holders, Current
  <2>3. Here(w, t)' = Here(w, t) /\ Here(w, t) \in Nat
    BY <2>2 DEF Here
  <2> QED
    BY <2>1, <2>3 DEF Balance
<1> QED
  BY <1>2, <1>3, SteadyStep DEF Calm, Settled

\* A slot is given back by a request that holds it.
LEMMA FreeStep ==
  ASSUME SlotInv, IInv', NEW w \in Worker, OthersStay(w), issued' = issued,
         reimported' = reimported, FreeSlot(Current(token[w])), Present' = Present, UNCHANGED aliases,
         RequestSound(w)', ~Holds(w)', ~SaveMayFail => Holds(w)
  PROVE  StepIsSound
<1>1. ASSUME ~SaveMayFail, NEW t \in Settled' PROVE Balance(w, t)
  <2> DEFINE c == Current(token[w])
  <2>1. t \in Token /\ inflight[t] \in Nat /\ t \in Present /\ t \in Settled
    BY <1>1 DEF Settled, Owner, SlotInv, IInv, PoolInv, PoolType, Present
  <2>2. inflight' = [inflight EXCEPT ![c] = IF inflight[c] <= 1 THEN 0 ELSE inflight[c] - 1]
    BY DEF FreeSlot
  <2>3. Here(w, t)' = 0
    BY DEF Here, Holders
  <2>4. CASE t = c
    <3>1. w \in Holders(t)
      BY <1>1, <2>4 DEF Holders
    <3>2. Cardinality(Holders(t)) >= 1
      <4>1. /\ Cardinality(Holders(t) \ {w}) \in Nat
            /\ Cardinality(Holders(t)) = Cardinality(Holders(t) \ {w}) + 1
        BY <3>1, CardinalitySplit, HoldersFinite
      <4> QED
        BY <4>1
    <3>3. inflight[t] >= 1
      BY <1>1, <2>1, <3>2, HoldersFinite, FS_CardinalityType DEF SlotInv, Slots
    <3>4. inflight'[t] = inflight[t] - 1
      BY <2>1, <2>2, <2>4, <3>3 DEF SlotInv, IInv, PoolInv, PoolType
    <3>5. Here(w, t) = 1
      BY <3>1 DEF Here
    <3> QED
      BY <2>1, <2>3, <3>3, <3>4, <3>5 DEF Balance
  <2>5. CASE t # c
    <3>1. inflight'[t] = inflight[t]
      BY <2>1, <2>2, <2>5 DEF SlotInv, IInv, PoolInv, PoolType
    <3>2. Here(w, t) = 0
      BY <2>5 DEF Here, Holders
    <3> QED
      BY <2>1, <2>3, <3>1, <3>2 DEF Balance
  <2> QED
    BY <2>4, <2>5
<1> QED
  BY <1>1, SamePoolIsSteady, KeptIdle, SteadyStep

\* An account is renewed, by whomever.
LEMMA RotateStep ==
  ASSUME SlotInv, IInv', NEW w, OthersStay(w), NEW old \in Token, NEW status \in Status,
         reimported' = reimported, CanRenew(old), RotateTo(old, status),
         w \in Worker => /\ RequestSound(w)' /\ (Holds(w)' <=> Holds(w))
                         /\ Holds(w) => token'[w] = token[w]
  PROVE  StepIsSound
<1> DEFINE new == NextToken(old)
<1>1. /\ Renamed(old, new)
      /\ new \in Token /\ new \notin issued /\ old \in Present
      /\ Present' = (Present \ {old}) \cup {new}
      /\ inflight'[new] = inflight[old]
      /\ \A t \in Present \ {old} : inflight'[t] = inflight[t]
      /\ issued' = issued \cup {new}
      /\ Owner(new) = Owner(old)
      /\ AliasesIssued'
  BY RotateRenames DEF SlotInv, IInv
<1> HIDE DEF new
<1>2. new \notin Present
  BY <1>1 DEF SlotInv, IInv, PoolInv, IssuedInOrder
<1>3. \A v \in Worker : /\ Holds(v)' <=> Holds(v)
                        /\ Holds(v) => token'[v] = token[v] /\ token[v] \in issued
  BY HolderHasToken DEF SlotInv, OthersStay, Holds
<1>4. Slots'
  BY <1>1, <1>2, <1>3, SlotsRenamed DEF SlotInv
<1>5. ASSUME NEW v \in Worker PROVE RequestSound(v)' /\ Kept(v)
  <2>1. RequestSound(v)
    BY <1>5 DEF SlotInv
  <2>2. RequestSound(v)'
    BY <1>1, <2>1, SoundRenamed DEF OthersStay
  <2>3. Holds(v) => token'[v] = token[v] /\ token[v] \in issued
    BY <1>3
  <2> QED
    BY <1>1, <2>2, <2>3, KeptRenamed
<1> QED
  BY <1>1, <1>4, <1>5 DEF StepIsSound, SlotInv

LEMMA RequestStepSlots ==
  ASSUME SlotInv, NEW w \in Worker, Request(w)
  PROVE  StepIsSound
<1>i. IInv /\ IInv' /\ RequestSound(w) /\ reimported' = reimported
  BY RequestStepIInv, RequestKeepsReimported DEF SlotInv
<1>t. /\ pc[w] \in HasToken => token[w] \in Token /\ Current(token[w]) \in Token
      /\ pc[w] \in HasActive => active[w] \in Token /\ Current(active[w]) \in Token
  BY <1>i, CurrentInToken DEF IInv, PoolInv, TokensKnown
<1>p. UNCHANGED pool => Calm
  BY SamePoolIsSteady DEF pool, Calm, Present
<1>y. RequestType
  BY <1>i DEF IInv
\* A step to a place where the request needs neither token nor slot.
<1>q. ASSUME NEW step \in Finished \cup {"select"}, Goto(w, step)
      PROVE  RequestSound(w)' /\ ~Holds(w)'
  <2>1. pc'[w] = step
    BY <1>q, <1>y DEF Goto, RequestType
  <2> QED
    BY <2>1 DEF RequestSound, Holds, HasToken, HasActive, InFlight, Finished
<1>o. /\ \A outcome : Finish(w, outcome) => OthersStay(w)
      /\ Reselect(w) => OthersStay(w)
      /\ \A step : Goto(w, step) /\ UNCHANGED <<token, active>> => OthersStay(w)
      /\ GiveUp(w) /\ UNCHANGED token => OthersStay(w)
  BY <1>y DEF Finish, Reselect, GiveUp, Goto, OthersStay, RequestType
\* A step of a request that keeps its tokens, or the one it still needs.
<1>k. ASSUME NEW step \in Step, pc'[w] = step, Calm, issued' = issued,
             step \in HasToken => pc[w] \in HasToken /\ token'[w] = token[w],
             step \in HasActive => pc[w] \in HasActive /\ active'[w] = active[w],
             step = "retry" => FallbackProxy, step = "releaseAgain" => SaveMayFail
      PROVE  RequestSound(w)'
  BY <1>i, <1>t, <1>k, SoundSteady DEF Calm
<1>1. CASE Start(w)
  <2>1. ~Holds(w)
    BY <1>1 DEF Start, Holds, Finished, InFlight
  <2>2. Reselect(w) /\ Goto(w, "select") /\ UNCHANGED <<pool, issued>>
    BY <1>1 DEF Start, Reselect
  <2> QED
    BY <1>i, <1>p, <1>q, <1>o, <2>1, <2>2, CalmStep
<1>2. CASE Acquire(w)
  <2>1. PICK t \in OpenTokens(tried[w]) :
          /\ inflight' = [inflight EXCEPT ![t] = @ + 1]
          /\ token' = [token EXCEPT ![w] = t]
          /\ active' = [active EXCEPT ![w] = t]
    BY <1>2 DEF Acquire
  <2>2. /\ t \in Token /\ t \in Present /\ t \in issued
        /\ pc[w] = "select" /\ pc'[w] = "preflight"
        /\ UNCHANGED <<accounts, aliases, issued>>
    BY <1>2, <1>i, <1>y
    DEF Acquire, OpenTokens, ReadyTokens, Present, Goto, RequestType, IInv, PoolInv, IssuedInOrder
  <2>3. token'[w] = t /\ active'[w] = t /\ OthersStay(w)
    BY <1>2, <1>y, <2>1 DEF Acquire, Goto, OthersStay, RequestType
  <2>4. Present' = Present
    BY <2>2 DEF Present
  <2>5. ~Holds(w) /\ Holds(w)'
    BY <2>2 DEF Holds, InFlight
  <2>6. Current(token[w])' = t
    BY <2>2, <2>3, <2>4, PresentIsResolved DEF Current
  <2>7. RequestSound(w)'
    <3>1. Current(active[w])' = Resolve(Present', aliases', t) /\ Current(token[w])' = Resolve(Present', aliases', t)
      BY <2>3 DEF Current
    <3> QED
      BY <2>2, <2>3, <3>1 DEF RequestSound
  <2>8. ASSUME NEW u \in Settled' PROVE Balance(w, u)
    <3>1. u \in Token /\ inflight[u] \in Nat /\ u \in Present
      BY <1>i, <2>4, <2>8 DEF Settled, IInv, PoolInv, PoolType, Present
    <3>2. Here(w, u) = 0 /\ Here(w, u)' = IF u = t THEN 1 ELSE 0
      BY <2>5, <2>6 DEF Here, Holders
    <3>3. inflight'[u] = IF u = t THEN inflight[u] + 1 ELSE inflight[u]
      BY <1>i, <2>1, <3>1 DEF IInv, PoolInv, PoolType
    <3> QED
      BY <3>1, <3>2, <3>3 DEF Balance
  <2> QED
    BY <1>i, <2>2, <2>3, <2>4, <2>5, <2>7, <2>8, SamePoolIsSteady, KeptIdle, SteadyStep
<1>3. CASE NoReady(w)
  <2>1. PICK outcome \in Finished : Finish(w, outcome)
    BY <1>3 DEF NoReady, Finished
  <2>2. ~Holds(w) /\ Goto(w, outcome) /\ UNCHANGED <<pool, issued>>
    BY <1>3, <2>1 DEF NoReady, Holds, InFlight, Finish
  <2> QED
    BY <1>i, <1>p, <1>q, <1>o, <2>1, <2>2, CalmStep
<1>4. CASE SelectCancelled(w)
  <2>1. Finish(w, "idle") /\ Goto(w, "idle") /\ UNCHANGED <<pool, issued>>
    BY <1>4 DEF SelectCancelled, Finish
  <2>2. ~Holds(w) /\ "idle" \in Finished
    BY <1>4 DEF SelectCancelled, Holds, InFlight, Finished
  <2> QED
    BY <1>i, <1>p, <1>q, <1>o, <2>1, <2>2, CalmStep
\* The probe goes on with another of the account's tokens; nothing else changes.
<1>b. ASSUME NEW step \in {"remote", "retried"}, pc'[w] = step, pc[w] \in HasToken,
             UNCHANGED <<pool, issued>>, token'[w] = token[w],
             NEW c \in issued, active'[w] = c, Owner(c) = Owner(token[w]),
             Owner(token[w]) \notin reimported /\ (Current(token[w]) \in Present \/ Current(c) \in Present)
               => Current(token[w]) = Current(c)
      PROVE  RequestSound(w)'
  <2>1. Present' = Present
    BY <1>b DEF pool, Present
  <2>2. Current(token[w])' = Current(token[w]) /\ Current(active[w])' = Current(c)
    BY <1>b, <2>1 DEF pool, Current
  <2> QED
    BY <1>b, <1>i, <2>1, <2>2 DEF RequestSound, HasToken
\* The probe renews the account that the slot's token leads to.
<1>r. ASSUME NEW step \in {"remote", "retried"}, pc'[w] = step, pc[w] \in HasToken,
             token'[w] = token[w], NEW c \in Token, Owner(c) = Owner(token[w]),
             Owner(token[w]) \notin reimported => Current(token[w]) = c,
             CanRenew(c), RotateTo(c, accounts[c]), active'[w] = NextToken(c)
      PROVE  RequestSound(w)'
  <2> DEFINE new == NextToken(c)
  <2>1. accounts[c] \in Status
    BY <1>i, <1>r DEF CanRenew, Present, IInv, PoolInv, PoolType, Record
  <2>2. /\ Renamed(c, new) /\ new \in Present' /\ issued' = issued \cup {new}
        /\ Owner(new) = Owner(c)
    BY <1>i, <1>r, <2>1, RotateRenames DEF SlotInv, IInv
  <2> HIDE DEF new
  <2>3. token[w] \in issued
    BY <1>i, <1>r DEF RequestSound
  <2>4. Current(token[w])' = Resolve(Present', aliases', token[w]) /\ Current(active[w])' = Resolve(Present', aliases', new)
    BY <1>r DEF Current, new
  <2>5. Owner(token[w]) \notin reimported => Current(token[w])' = new
    BY <1>r, <2>2, <2>3, <2>4 DEF Renamed, Current
  <2>6. Current(active[w])' = new
    BY <2>2, <2>4, PresentIsResolved
  <2> QED
    BY <1>i, <1>r, <2>2, <2>3, <2>5, <2>6 DEF RequestSound, new
<1>5. CASE Preflight(w)
  <2> DEFINE c == Current(token[w])
  <2>1. /\ pc[w] = "preflight" /\ Goto(w, "remote") /\ pc'[w] = "remote"
        /\ UNCHANGED token
    BY <1>5, <1>y DEF Preflight, Goto, RequestType
  <2>2. Holds(w) /\ Holds(w)' /\ pc[w] \in HasToken /\ pc[w] \in HasActive
    BY <2>1 DEF Holds, InFlight, HasToken, HasActive
  <2>3. CASE UNCHANGED <<pool, issued, active>>
    <3>1. RequestSound(w)'
      BY <1>k, <1>p, <2>1, <2>2, <2>3 DEF Step, InFlight
    <3> QED
      BY <1>i, <1>o, <1>p, <2>1, <2>2, <2>3, <3>1, CalmStep
  <2>4. CASE active' = [active EXCEPT ![w] = c] /\ UNCHANGED <<pool, issued>>
    <3>1. active'[w] = c /\ OthersStay(w)
      BY <1>y, <2>1, <2>4 DEF RequestType, OthersStay, Goto
    <3>2. c \in issued /\ Owner(c) = Owner(token[w]) /\ Current(c) = c
      BY <1>i, <2>2, CurrentIsIssued DEF RequestSound, SlotInv, IInv
    <3>3. RequestSound(w)'
      BY <1>b, <2>1, <2>2, <2>4, <3>1, <3>2
    <3> QED
      BY <1>i, <1>p, <2>1, <2>2, <2>4, <3>1, <3>3, CalmStep
  <2>5. CASE CanRenew(c) /\ RotateTo(c, accounts[c]) /\ active' = [active EXCEPT ![w] = NextToken(c)]
    <3>1. active'[w] = NextToken(c) /\ OthersStay(w)
      BY <1>y, <2>1, <2>5 DEF RequestType, OthersStay, Goto
    <3>2. c \in Token /\ accounts[c] \in Status
      BY <1>i, <1>t, <2>2, <2>5 DEF CanRenew, Present, IInv, PoolInv, PoolType, Record
    <3>3. Owner(c) = Owner(token[w])
      BY <1>i, <2>2, CurrentIsIssued DEF RequestSound, SlotInv, IInv
    <3>4. RequestSound(w)'
      BY <1>r, <2>1, <2>2, <2>5, <3>1, <3>2, <3>3
    <3> QED
      BY <1>i, <2>1, <2>2, <2>5, <3>1, <3>2, <3>4, RotateStep
  <2> QED
    BY <1>5, <2>3, <2>4, <2>5 DEF Preflight
<1>6. CASE RemoteOk(w)
  <2> DEFINE c == Current(active[w])
             found(info) == IF c \in Present /\ ~(info = "limited" /\ AutoRemoveLimited)
                              THEN c ELSE active[w]
  <2>1. pc[w] \in {"remote", "retried"} /\ Holds(w) /\ pc[w] \in HasToken /\ pc[w] \in HasActive
    BY <1>6 DEF RemoteOk, Holds, InFlight, HasToken, HasActive
  <2>2. PICK info \in RemoteStatus :
          /\ UpdateAccount(active[w], info)
          /\ IF Available(info)
               THEN /\ Goto(w, "stream")
                    /\ token' = [token EXCEPT ![w] = found(info)]
                    /\ active' = [active EXCEPT ![w] = NoToken]
               ELSE GiveUp(w) /\ UNCHANGED token
    BY <1>6 DEF RemoteOk
  <2>3. info \in Status /\ issued' = issued
    BY <1>6 DEF RemoteOk, RemoteStatus, Status
  <2>4. Calm
    BY <1>i, <1>t, <2>1, <2>2, <2>3, UpdateAccountIsCalm DEF IInv
  <2>5. CASE Available(info)
    <3>1. /\ pc'[w] = "stream" /\ token'[w] = found(info) /\ OthersStay(w)
          /\ info = "normal"
      BY <1>y, <2>2, <2>5 DEF Goto, RequestType, OthersStay, Available, RemoteStatus
    <3>2. Holds(w)'
      BY <3>1 DEF Holds, InFlight
    <3>3. found(info) = IF c \in Present THEN c ELSE active[w]
      BY <3>1
    <3>4. active[w] \in issued /\ active[w] \in Token /\ Current(c) = c /\ c \in issued
      BY <1>i, <1>t, <2>1, CurrentIsIssued DEF RequestSound, SlotInv, IInv
    <3>5. Owner(token[w]) \notin reimported /\ (c \in Present \/ Current(token[w]) \in Present)
            => Current(token[w]) = c
      BY <1>i, <2>1 DEF RequestSound
    <3>6. found(info) \in issued /\ found(info) \in Token
      BY <1>i, <3>3, <3>4 DEF IInv, PoolInv, PoolType
    <3>7. RequestSound(w)'
      BY <2>3, <3>1, <3>6 DEF RequestSound, HasActive
    <3>8. Current(token[w])' = Resolve(Present', aliases', found(info))
      BY <3>1 DEF Current
    <3>9. c \in Present => Present' = Present
      BY <1>i, <1>t, <2>1, <2>2, <2>3, <3>1, UpdateAccountIsCalm DEF IInv
    <3> HIDE DEF found, c
    <3>10. c \in Present => Current(token[w])' = c
      BY <3>3, <3>8, <3>9, PresentIsResolved
    <3>11. Current(token[w])' \in Present' => c \in Present
      <4> SUFFICES ASSUME Current(token[w])' \in Present' PROVE c \in Present
        OBVIOUS
      <4>1. Current(found(info)) \in Present
        BY <2>4, <3>6, <3>8 DEF Calm, Steady, Current
      <4> QED
        BY <3>3, <3>4, <4>1 DEF c
    <3>o. /\ token[w] \in issued /\ Owner(Current(token[w])) = Owner(token[w])
          /\ Owner(found(info)) = Owner(token[w])
      BY <1>i, <2>1, <3>3, <3>4, CurrentIsIssued DEF c, RequestSound, SlotInv, IInv
    <3>12. Kept(w)
      BY <1>i, <3>1, <3>5, <3>9, <3>10, <3>o DEF Kept
    <3>13. ASSUME NEW t \in Settled' PROVE Balance(w, t)
      <4>1. /\ t \in Present /\ inflight'[t] = inflight[t] /\ inflight[t] \in Nat
            /\ t \in Present' /\ Owner(t) \notin reimported
        BY <1>i, <2>4, <3>13 DEF Calm, IInv, PoolInv, PoolType, Present, Settled, Owner
      <4>p. Owner(Current(token[w])') = Owner(token[w])
        <5>1. AliasesIssued'
          BY <2>3, <2>4 DEF Calm, SlotInv, AliasesIssued, AliasesKept, AliasNodes
        <5> QED
          BY <1>i, <2>3, <3>6, <3>8, <3>o, <5>1, CurrentIsIssuedNext DEF IInv
      <4>2. Current(token[w])' = t <=> Current(token[w]) = t
        BY <3>5, <3>10, <3>11, <3>o, <4>1, <4>p
      <4>3. Here(w, t)' = Here(w, t) /\ Here(w, t) \in Nat
        BY <2>1, <3>2, <4>2 DEF Here, Holders
      <4> QED
        BY <4>1, <4>3 DEF Balance
    <3> QED
      BY <1>i, <2>3, <2>4, <3>1, <3>7, <3>12, <3>13, SteadyStep DEF Calm
  <2>6. CASE ~Available(info)
    <3>1. GiveUp(w) /\ UNCHANGED token /\ pc'[w] = "release" /\ Holds(w)'
      BY <1>y, <2>2, <2>6 DEF GiveUp, Goto, RequestType, Holds, InFlight
    <3>2. RequestSound(w)'
      BY <1>k, <2>1, <2>3, <2>4, <3>1 DEF Step, InFlight, HasActive
    <3> QED
      BY <1>i, <1>o, <2>1, <2>3, <2>4, <3>1, <3>2, CalmStep
  <2> QED
    BY <2>5, <2>6
\* The request goes on to a step without a probe and keeps its slot.
<1>h. ASSUME NEW step \in {"release", "stream", "retry", "invalid"}, pc'[w] = step,
             pc[w] \in HasToken, Holds(w), Calm, issued' = issued, OthersStay(w),
             token'[w] = token[w], step = "retry" => FallbackProxy,
             step = "invalid" => pc[w] \in HasActive /\ active'[w] = active[w]
      PROVE  StepIsSound
  <2>1. Holds(w)'
    BY <1>h DEF Holds, InFlight
  <2>2. step \in Step /\ (step \in HasActive => step = "invalid") /\ step # "releaseAgain"
    BY <1>h DEF Step, InFlight, HasActive
  <2>3. RequestSound(w)'
    BY <1>h, <1>k, <2>2
  <2> QED
    BY <1>h, <1>i, <2>1, <2>3, CalmStep
\* A request without a slot goes on without one.
<1>n. ASSUME ~Holds(w), ~Holds(w)', RequestSound(w)', Calm, issued' = issued, OthersStay(w)
      PROVE  StepIsSound
  BY <1>i, <1>n, CalmStep
<1>7. CASE RemoteError(w)
  <2>1. /\ pc[w] \in HasToken /\ Holds(w) /\ GiveUp(w) /\ pc'[w] = "release"
        /\ UNCHANGED <<pool, issued, token>>
    BY <1>7, <1>y DEF RemoteError, GiveUp, Goto, RequestType, Holds, InFlight, HasToken
  <2> QED
    BY <1>h, <1>o, <1>p, <2>1
<1>8. CASE RemoteRenewed(w)
  <2> DEFINE c == Current(active[w])
  <2>1. pc[w] = "remote" /\ Goto(w, "retried") /\ pc'[w] = "retried" /\ UNCHANGED token
    BY <1>8, <1>y DEF RemoteRenewed, Goto, RequestType
  <2>2. Holds(w) /\ Holds(w)' /\ pc[w] \in HasToken /\ pc[w] \in HasActive
    BY <2>1 DEF Holds, InFlight, HasToken, HasActive
  <2>3. /\ c \in issued /\ Owner(c) = Owner(token[w]) /\ Current(c) = c
        /\ Owner(token[w]) \notin reimported /\ (c \in Present \/ Current(token[w]) \in Present)
             => Current(token[w]) = c
    BY <1>i, <2>2, CurrentIsIssued DEF RequestSound, SlotInv, IInv
  <2>4. CASE CanRenew(c) /\ RotateTo(c, accounts[c]) /\ active' = [active EXCEPT ![w] = NextToken(c)]
    <3>1. active'[w] = NextToken(c) /\ OthersStay(w)
      BY <1>y, <2>1, <2>4 DEF RequestType, OthersStay, Goto
    <3>2. c \in Token /\ c \in Present /\ accounts[c] \in Status
      BY <1>i, <1>t, <2>2, <2>4 DEF CanRenew, Present, IInv, PoolInv, PoolType, Record
    <3>3. RequestSound(w)'
      BY <1>r, <2>1, <2>2, <2>3, <2>4, <3>1, <3>2
    <3> QED
      BY <1>i, <2>1, <2>2, <2>4, <3>1, <3>2, <3>3, RotateStep
  <2>5. CASE active' = [active EXCEPT ![w] = c] /\ UNCHANGED <<pool, issued>>
    <3>1. active'[w] = c /\ OthersStay(w)
      BY <1>y, <2>1, <2>5 DEF RequestType, OthersStay, Goto
    <3>2. RequestSound(w)'
      BY <1>b, <2>1, <2>2, <2>3, <2>5, <3>1
    <3> QED
      BY <1>i, <1>p, <2>1, <2>2, <2>5, <3>1, <3>2, CalmStep
  <2> QED
    BY <1>8, <2>4, <2>5 DEF RemoteRenewed
<1>9. CASE RemoteInvalid(w)
  <2>1. /\ pc[w] \in HasToken /\ pc[w] \in HasActive /\ Holds(w)
        /\ UNCHANGED <<issued, token>> /\ RecordInvalid(active[w])
    BY <1>9 DEF RemoteInvalid, Holds, InFlight, HasToken, HasActive
  <2>2. Calm
    BY <1>i, <1>t, <2>1, RecordInvalidIsCalm DEF IInv
  <2>3. CASE Goto(w, "invalid") /\ UNCHANGED active
    <3>1. pc'[w] = "invalid" /\ OthersStay(w)
      BY <1>o, <1>y, <2>1, <2>3 DEF Goto, RequestType
    <3> QED
      BY <1>h, <2>1, <2>2, <2>3, <3>1
  <2>4. CASE GiveUp(w)
    <3>1. pc'[w] = "release" /\ OthersStay(w)
      BY <1>o, <1>y, <2>1, <2>4 DEF GiveUp, Goto, RequestType
    <3> QED
      BY <1>h, <2>1, <2>2, <3>1
  <2> QED
    BY <1>9, <2>3, <2>4 DEF RemoteInvalid
<1>10. CASE RemoveInvalid(w)
  <2>1. /\ pc[w] \in HasToken /\ pc[w] \in HasActive /\ Holds(w) /\ GiveUp(w)
        /\ UNCHANGED <<issued, token>> /\ DeleteAccount(active[w])
    BY <1>10 DEF RemoveInvalid, Holds, InFlight, HasToken, HasActive
  <2>2. Calm
    BY <1>i, <1>t, <2>1, DeleteAccountIsCalm DEF IInv
  <2>3. pc'[w] = "release" /\ OthersStay(w)
    BY <1>o, <1>y, <2>1 DEF GiveUp, Goto, RequestType
  <2> QED
    BY <1>h, <2>1, <2>2, <2>3
<1>11. CASE ReleaseTried(w)
  <2>1. /\ Holds(w) /\ Goto(w, "select") /\ FreeSlot(Current(token[w]))
        /\ UNCHANGED <<accounts, aliases, issued, active>>
        /\ token' = [token EXCEPT ![w] = NoToken]
    BY <1>11 DEF ReleaseTried, Holds, InFlight
  <2>2. OthersStay(w) /\ Present' = Present
    BY <1>y, <2>1 DEF OthersStay, Goto, RequestType, Present
  <2> QED
    BY <1>i, <1>q, <2>1, <2>2, FreeStep
\* The slot goes back with the mark on the account's record.
<1>m. ASSUME NEW consumed \in BOOLEAN, MarkResult(token[w], consumed), pc[w] = "stream"
      PROVE  /\ FreeSlot(Current(token[w])) /\ Present' = Present /\ UNCHANGED aliases
             /\ Holds(w)
  BY <1>i, <1>m
  DEF MarkResult, Charged, Present, Holds, InFlight, IInv, PoolInv, PoolType, Record, Status
<1>12. CASE StreamDone(w)
  <2>1. PICK consumed \in BOOLEAN : MarkResult(token[w], consumed)
    BY <1>12 DEF StreamDone
  <2>2. pc[w] = "stream" /\ Finish(w, "idle") /\ Goto(w, "idle") /\ UNCHANGED issued
    BY <1>12 DEF StreamDone, Finish
  <2>3. "idle" \in Finished
    BY DEF Finished
  <2> QED
    BY <1>i, <1>m, <1>o, <1>q, <2>1, <2>2, <2>3, FreeStep
<1>13. CASE StreamDoneSaveFails(w)
  <2>1. PICK consumed \in BOOLEAN : MarkResult(token[w], consumed)
    BY <1>13 DEF StreamDoneSaveFails
  <2>2. /\ pc[w] = "stream" /\ Goto(w, "releaseAgain") /\ pc'[w] = "releaseAgain"
        /\ UNCHANGED <<issued, token, active>> /\ SaveMayFail
    BY <1>13, <1>y DEF StreamDoneSaveFails, Goto, RequestType
  <2>3. token[w] \in issued /\ ~Holds(w)'
    BY <1>i, <2>2 DEF RequestSound, HasToken, Holds, InFlight
  <2>4. RequestSound(w)'
    BY <2>2, <2>3 DEF RequestSound, HasActive
  <2> QED
    BY <1>i, <1>m, <1>o, <2>1, <2>2, <2>3, <2>4, FreeStep
<1>14. CASE ReleaseAgain(w)
  <2>1. /\ SaveMayFail /\ FreeSlot(Current(token[w])) /\ Finish(w, "idle") /\ Goto(w, "idle")
        /\ UNCHANGED <<accounts, aliases, issued>>
    BY <1>14, <1>i DEF ReleaseAgain, RequestSound, Finish
  <2>2. "idle" \in Finished /\ Present' = Present
    BY <2>1 DEF Finished, Present
  <2> QED
    BY <1>i, <1>o, <1>q, <2>1, <2>2, FreeStep
<1>15. CASE StreamTokenInvalid(w)
  <2>1. /\ MarkResult(token[w], FALSE) /\ pc[w] = "stream" /\ Goto(w, "recover")
        /\ pc'[w] = "recover" /\ UNCHANGED <<issued, token, active>>
    BY <1>15, <1>y DEF StreamTokenInvalid, Goto, RequestType
  <2>2. token[w] \in issued /\ ~Holds(w)'
    BY <1>i, <2>1 DEF RequestSound, HasToken, Holds, InFlight
  <2>3. RequestSound(w)'
    BY <2>1, <2>2 DEF RequestSound, HasActive
  <2> QED
    BY <1>i, <1>m, <1>o, <2>1, <2>2, <2>3, FreeStep
<1>16. CASE RecoverRenewed(w)
  <2>1. pc[w] = "recover" /\ Reselect(w) /\ Goto(w, "select") /\ ~Holds(w) /\ pc[w] \in HasToken
    BY <1>16 DEF RecoverRenewed, Reselect, Holds, InFlight, HasToken
  <2>2. CASE UNCHANGED <<pool, issued>>
    BY <1>n, <1>o, <1>p, <1>q, <2>1, <2>2
  <2>3. CASE LET c == Current(token[w]) IN CanRenew(c) /\ RotateTo(c, accounts[c])
    <3>1. accounts[Current(token[w])] \in Status
      BY <1>i, <1>t, <2>1, <2>3 DEF CanRenew, Present, IInv, PoolInv, PoolType, Record
    <3> QED
      BY <1>i, <1>o, <1>q, <1>t, <2>1, <2>3, <3>1, RotateStep
  <2> QED
    BY <1>16, <2>2, <2>3 DEF RecoverRenewed
<1>17. CASE RecoverInvalid(w)
  <2>1. /\ pc[w] = "recover" /\ ~Holds(w) /\ pc[w] \in HasToken /\ UNCHANGED issued
        /\ RecordInvalid(token[w])
    BY <1>17 DEF RecoverInvalid, Holds, InFlight, HasToken
  <2>2. Calm
    BY <1>i, <1>t, <2>1, RecordInvalidIsCalm DEF IInv
  <2>3. CASE Goto(w, "recoverInvalid") /\ UNCHANGED <<token, active>>
    <3>1. pc'[w] = "recoverInvalid" /\ OthersStay(w) /\ ~Holds(w)'
      BY <1>o, <1>y, <2>3 DEF Goto, RequestType, Holds, InFlight
    <3>2. RequestSound(w)'
      BY <1>k, <2>1, <2>2, <2>3, <3>1 DEF Step, HasActive
    <3> QED
      BY <1>n, <2>1, <2>2, <3>1, <3>2
  <2>4. CASE Reselect(w)
    <3>1. Goto(w, "select")
      BY <2>4 DEF Reselect
    <3> QED
      BY <1>n, <1>o, <1>q, <2>1, <2>2, <2>4, <3>1
  <2> QED
    BY <1>17, <2>3, <2>4 DEF RecoverInvalid
<1>18. CASE RecoverRemove(w)
  <2>1. /\ ~Holds(w) /\ pc[w] \in HasToken /\ UNCHANGED issued /\ Reselect(w)
        /\ Goto(w, "select") /\ DeleteAccount(token[w])
    BY <1>18 DEF RecoverRemove, Holds, InFlight, HasToken, Reselect
  <2>2. Calm
    BY <1>i, <1>t, <2>1, DeleteAccountIsCalm DEF IInv
  <2> QED
    BY <1>n, <1>o, <1>q, <2>1, <2>2
<1>19. CASE StreamFallback(w)
  <2>1. /\ FallbackProxy /\ Holds(w) /\ pc[w] \in HasToken /\ Goto(w, "retry") /\ pc'[w] = "retry"
        /\ UNCHANGED <<pool, issued, token, active>>
    BY <1>19, <1>y DEF StreamFallback, Holds, InFlight, HasToken, Goto, RequestType
  <2> QED
    BY <1>h, <1>o, <1>p, <2>1
<1>20. CASE RetryStream(w)
  <2>1. /\ Holds(w) /\ pc[w] \in HasToken /\ Goto(w, "stream") /\ pc'[w] = "stream"
        /\ UNCHANGED <<pool, issued, token, active>>
    BY <1>20, <1>y DEF RetryStream, Holds, InFlight, HasToken, Goto, RequestType
  <2> QED
    BY <1>h, <1>o, <1>p, <2>1
\* The one step that leaves a slot counted which nobody holds.
<1>21. CASE RetryCancelled(w)
  <2>1. /\ FallbackProxy /\ Holds(w) /\ Finish(w, "idle") /\ Goto(w, "idle") /\ "idle" \in Finished
        /\ UNCHANGED <<pool, issued>>
    BY <1>21, <1>i DEF RetryCancelled, RequestSound, Holds, InFlight, Finish, Finished
  <2>2. RequestSound(w)' /\ ~Holds(w)'
    BY <1>q, <2>1
  <2>3. ASSUME NEW t \in Settled' PROVE Balance(w, t)
    <3>1. inflight'[t] = inflight[t] /\ inflight[t] \in Nat
      BY <1>i, <2>1, <2>3 DEF Settled, pool, IInv, PoolInv, PoolType, Present
    <3>2. Here(w, t)' = 0 /\ Here(w, t) \in {0, 1}
      BY <2>2 DEF Here, Holders
    <3> QED
      BY <2>1, <3>1, <3>2 DEF Balance
  <2> QED
    BY <1>i, <1>o, <1>p, <2>1, <2>2, <2>3, KeptIdle, SteadyStep DEF Calm
<1> QED
  BY <1>1, <1>2, <1>3, <1>4, <1>5, <1>6, <1>7, <1>8, <1>9, <1>10, <1>11, <1>12, <1>13,
     <1>14, <1>15, <1>16, <1>17, <1>18, <1>19, <1>20, <1>21 DEF Request

\* A name for the environment: its steps are steps of no request.
LEMMA Nobody == \E w : w \notin Worker
<1> DEFINE r == {x \in Worker : x \notin x}
<1>1. r \notin Worker
  OBVIOUS
<1> QED
  BY <1>1

LEMMA EnvironmentStepSlots ==
  ASSUME SlotInv,
         Rotate \/ BackgroundProbe \/ SetStatus \/ Delete \/ Import \/ Restart
  PROVE  StepIsSound
<1>i. IInv /\ IInv' /\ PoolInv
  BY EnvironmentStepIInv DEF SlotInv, IInv
<1>w. PICK w : w \notin Worker
  BY Nobody
<1>o. UNCHANGED request => OthersStay(w)
  BY DEF request, OthersStay
<1>1. CASE Rotate
  <2>1. PICK t \in Present : CanRenew(t) /\ (RotateTo(t, accounts[t]) \/ RotateTo(t, "normal"))
    BY <1>1 DEF Rotate
  <2>2. t \in Token /\ accounts[t] \in Status /\ "normal" \in Status
    BY <1>i DEF Present, PoolInv, PoolType, Record, Status
  <2> QED
    BY <1>1, <1>i, <1>o, <1>w, <2>1, <2>2, RotateStep DEF Rotate
<1>2. CASE BackgroundProbe
  <2>1. PICK t \in Present : (\E info \in RemoteStatus : UpdateAccount(t, info)) \/ RecordInvalid(t)
    BY <1>2 DEF BackgroundProbe
  <2>2. t \in Token /\ RemoteStatus \subseteq Status
    BY DEF Present, RemoteStatus, Status
  <2>3. Calm
    BY <1>i, <2>1, <2>2, UpdateAccountIsCalm, RecordInvalidIsCalm
  <2> QED
    BY <1>2, <1>i, <1>o, <1>w, <2>3, CalmStep DEF BackgroundProbe
<1>3. CASE SetStatus
  <2>1. PICK t \in Present, status \in {"normal", "disabled"} : UpdateAccount(t, status)
    BY <1>3 DEF SetStatus
  <2>2. Calm
    BY <1>i, <2>1, UpdateAccountIsCalm DEF Present, Status
  <2> QED
    BY <1>3, <1>i, <1>o, <1>w, <2>2, CalmStep DEF SetStatus
<1>4. CASE Delete
  <2>1. PICK t \in Present : DeleteAccount(t)
    BY <1>4 DEF Delete
  <2>2. Calm
    BY <1>i, <2>1, DeleteAccountIsCalm DEF Present
  <2> QED
    BY <1>4, <1>i, <1>o, <1>w, <2>2, CalmStep DEF Delete
\* Nobody with a token of another account is led to the one that comes back, and
\* an account that some request knows a token of is excepted from here on.
<1>5. CASE Import
  <2>1. PICK t \in issued \ Present :
          /\ accounts' = [accounts EXCEPT ![t] = "normal"]
          /\ reimported' = IF InUse(Owner(t)) THEN reimported \cup {Owner(t)} ELSE reimported
    BY <1>5 DEF Import
  <2>2. t \in Token /\ UNCHANGED <<aliases, inflight, issued, pc, token, active>>
    BY <1>5, <1>i DEF Import, request, PoolInv, PoolType
  <2>3. Present' = Present \cup {t}
    BY <1>i, <2>1, <2>2 DEF PoolInv, PoolType, Present
  <2> DEFINE X == {x \in Token : Owner(x) # Owner(t)}
  <2>4. Steady(X) /\ AliasesKept
    BY <1>i, <2>2, <2>3, ImportIsSteady DEF SlotInv
  <2>5. ASSUME NEW v \in Worker, pc[v] \in HasToken
        PROVE  token[v] \in X \/ Owner(token[v]) \in reimported'
    <3>1. token[v] \in Token /\ token[v] # NoToken
      BY <1>i, <2>5, PoolAssumption DEF Token, IInv, TokensKnown
    <3> QED
      BY <2>1, <3>1 DEF InUse
  <2>6. ASSUME NEW v \in Worker PROVE RequestSound(v)' /\ Kept(v)
    <3>1. RequestSound(v)
      BY DEF SlotInv
    <3>2. reimported \subseteq reimported'
      BY <2>1
    <3>3. CASE pc[v] \in HasToken => token[v] \in X
      <4>1. pc[v] \in HasActive => active[v] \in X
        BY <1>i, <3>1, <3>3 DEF IInv, TokensKnown, RequestSound, HasActive, HasToken
      <4>2. Holds(v) => token[v] \in X
        BY <3>3 DEF Holds, InFlight, HasToken
      <4> HIDE DEF X
      <4>3. (pc'[v] = "retry" => FallbackProxy) /\ (pc'[v] = "releaseAgain" => SaveMayFail)
        BY <2>2, <3>1 DEF RequestSound
      <4>4. RequestSound(v)'
        BY <2>2, <2>4, <3>1, <3>2, <3>3, <4>1, <4>3, SoundSteady
      <4>5. Kept(v)
        BY <2>2, <2>3, <2>4, <4>2, KeptSteady
      <4> QED
        BY <4>4, <4>5
    <3>4. CASE pc[v] \in HasToken /\ Owner(token[v]) \in reimported'
      BY <2>2, <3>1, <3>4 DEF RequestSound, Kept
    <3> QED
      BY <2>5, <3>3, <3>4
  <2>7. AliasesIssued'
    BY <2>2 DEF SlotInv, AliasesIssued
  <2> HIDE DEF X
  <2>8. Slots'
    <3>1. ASSUME NEW u \in Settled'
          PROVE  IF u \in Present THEN Balance(w, u) ELSE inflight'[u] = 0 /\ Here(w, u)' = 0
      <4>1. Here(w, u) = 0 /\ Here(w, u)' = 0
        BY <1>w DEF Here, Holders
      <4>2. inflight'[u] = inflight[u] /\ inflight[u] \in Nat
        BY <1>i, <2>2, <3>1 DEF Settled, PoolInv, PoolType, Present
      <4>3. u \notin Present => inflight[u] = 0
        BY <1>i, <4>2, <3>1 DEF Settled, PoolInv, NoOrphanCount, Present
      <4> QED
        BY <4>1, <4>2, <4>3 DEF Balance
    <3>2. \A v \in Worker : Holds(v) => \/ token[v] \in X
                                        \/ token[v] \in issued /\ Owner(token[v]) \in reimported'
      BY <2>5, HolderHasToken DEF SlotInv, Holds, InFlight, HasToken
    <3>3. reimported \subseteq reimported'
      BY <2>1
    <3> QED
      BY <1>i, <2>2, <2>4, <2>7, <3>1, <3>2, <3>3, SlotsSteady DEF SlotInv
  <2> QED
    BY <1>i, <2>6, <2>7, <2>8 DEF StepIsSound, SlotInv
<1>6. CASE Restart
  <2>1. \A v \in Worker : pc'[v] = "idle"
    BY <1>6 DEF Restart
  <2>2. \A v \in Worker : RequestSound(v)' /\ Kept(v)
    BY <2>1 DEF RequestSound, Kept, Holds, HasToken, HasActive, InFlight
  <2>3. AliasesIssued'
    BY <1>6 DEF Restart, AliasesIssued, AliasNodes
  <2>4. Slots'
    <3> SUFFICES ASSUME NEW t \in Settled'
                 PROVE  Holders(t)' = {} /\ inflight'[t] = 0
      BY FS_EmptySet DEF Slots
    <3>1. t \in Token
      BY DEF Settled, Present
    <3> QED
      BY <1>6, <2>1, <3>1 DEF Restart, Holders, Holds, InFlight
  <2> QED
    BY <1>i, <2>2, <2>3, <2>4 DEF StepIsSound, SlotInv
<1> QED
  BY <1>1, <1>2, <1>3, <1>4, <1>5, <1>6

LEMMA StutterStepSlots ==
  ASSUME SlotInv, UNCHANGED vars
  PROVE  StepIsSound
<1>i. IInv /\ IInv'
  BY StutterIInv DEF SlotInv
<1>w. PICK w : w \notin Worker
  BY Nobody
<1>1. UNCHANGED <<accounts, aliases, inflight, issued, pc, token, active, reimported>>
  BY DEF vars
<1>2. Calm /\ OthersStay(w)
  BY <1>1, SamePoolIsSteady DEF Calm, Present, OthersStay
<1> QED
  BY <1>i, <1>w, <1>1, <1>2, CalmStep

LEMMA InitSlots == Init => SlotInv
<1> SUFFICES ASSUME Init PROVE SlotInv
  OBVIOUS
<1>1. IInv
  BY InitIInv
<1>2. AliasesIssued
  BY DEF Init, AliasesIssued, AliasNodes
<1>3. \A w \in Worker : RequestSound(w)
  BY DEF Init, RequestSound, HasToken, HasActive
<1>4. Slots
  <2> SUFFICES ASSUME NEW t \in Settled
               PROVE  Holders(t) = {} /\ inflight[t] = 0
    BY FS_EmptySet DEF Slots
  <2> QED
    BY DEF Init, Settled, Holders, Holds, InFlight, Present
<1> QED
  BY <1>1, <1>2, <1>3, <1>4 DEF SlotInv

LEMMA SlotInvariance == Spec => []SlotInv
<1>1. SlotInv /\ [Next]_vars => SlotInv'
  BY RequestStepSlots, EnvironmentStepSlots, StutterStepSlots DEF Next, StepIsSound
<1> QED
  BY <1>1, InitSlots, PTL DEF Spec

\* No slot is lost and none is given back twice, through any number of rotations,
\* deletions, imports and probes, of any account that is not imported again while
\* a request works with it, as long as the two other paths that break it do not
\* occur: a save that fails inside mark_image_result, and the retry through a
\* fallback proxy, which a cancellation may end with the slot kept.
THEOREM SlotsAreExact ==
  ASSUME ~SaveMayFail, ~FallbackProxy
  PROVE  Spec => []SlotAccounting
<1>1. SlotInv => SlotAccounting
  <2> SUFFICES ASSUME SlotInv, NEW t \in Present, Owner(t) \notin reimported
               PROVE  inflight[t] = Cardinality(Holders(t))
    BY DEF SlotAccounting
  <2> QED
    BY DEF SlotInv, Slots, Settled
<1> QED
  BY <1>1, SlotInvariance, PTL

\* No account that is not imported again under a running request ever serves more
\* requests than image_account_concurrency, unless a save fails inside
\* mark_image_result: a cancelled retry may leave a slot counted, which only
\* makes the account look busier than it is.
THEOREM AccountsWithinLimit ==
  ASSUME ~SaveMayFail
  PROVE  Spec => []SettledAccountBound
<1>1. SlotInv => SettledAccountBound
  <2> SUFFICES ASSUME SlotInv, NEW t \in Present, Owner(t) \notin reimported
               PROVE  Cardinality(Holders(t)) <= Cap
    BY DEF SettledAccountBound
  <2>1. Cardinality(Holders(t)) <= inflight[t] /\ t \in Token
    BY DEF SlotInv, Slots, Settled, Present
  <2>2. inflight[t] <= Cap /\ inflight[t] \in Nat
    BY <2>1 DEF SlotInv, IInv, PoolInv, PoolType, CountWithinCap
  <2>3. Cardinality(Holders(t)) \in Nat
    BY HoldersFinite, FS_CardinalityType
  <2> QED
    BY <2>1, <2>2, <2>3, PoolAssumption
<1> QED
  BY <1>1, SlotInvariance, PTL

\* A request in flight loses its account only when that account leaves the pool,
\* never because a token was renewed, over a chain of aliases of any length
\* (_apply_refreshed_tokens, _resolve_access_token_locked).
THEOREM RenewalsKeepRequests == Spec => RotationKeepsRequest
<1>1. SlotInv /\ [Next]_vars => [\A w \in Worker : Kept(w)]_vars
  BY RequestStepSlots, EnvironmentStepSlots, StutterStepSlots DEF Next, StepIsSound
<1>2. (\A w \in Worker : Kept(w)) =>
        \A w \in Worker :
          (/\ Holds(w) /\ Holds(w)' /\ Current(token[w]) \in Present
           /\ Owner(token[w]) \notin reimported')
            => \/ Current(token[w])' \in Present'
               \/ \A t \in Present' : Owner(t) # Owner(token[w])
               \/ \E t \in Present : Owner(t) = Owner(token[w]) /\ t # Current(token[w])
  BY DEF Kept
<1> QED
  BY <1>1, <1>2, SlotInvariance, PTL DEF Spec, RotationKeepsRequest
=============================================================================
