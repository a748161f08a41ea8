----------------------------- MODULE Supply_proofs -----------------------------
(***************************************************************************)
(* Proofs about what the use of accounts costs and where they come from    *)
(* (MCSupply has the same parts): the requests of the Firefly channel, the *)
(* usage ledger, and the imports.                                          *)
(*                                                                         *)
(* The requests of the Firefly channel, for any number of them and of      *)
(* accounts, places and attempts.                                          *)
(*                                                                         *)
(* A request holds an account from its selection to the finally clause,    *)
(* and a place on it from its selection to Finalize; its attempt lacks a   *)
(* row in the ledger from its selection to Book.  So what an attempt still *)
(* owes can be told from where the request is, which is the invariant.     *)
(***************************************************************************)
EXTENDS FireflyRequest, UsageLedger, ImportJobs, FiniteSetTheorems, NaturalsInduction,
        WellFoundedInduction, TLAPS

\* Where an attempt has a place on its account, where it has an account at all,
\* and where it has no row in the ledger yet.
Placed == Calls \cup {"finalize"}
Holding == Placed \cup {"book", "finally"}
Unbooked == Placed \cup {"book"}

FqHolders(a) == {r \in FqRequest : held[r] = a /\ ~finalized[r]}

\* What a request owes.
FqOwes(r) ==
  /\ held[r] \in FqAccount <=> fqStep[r] \in Holding
  /\ fqStep[r] \in Placed \cup {"select"} => ~finalized[r]
  /\ fqStep[r] \in {"book", "finally"} => finalized[r]
  /\ Cardinality(attempted[r]) = booked[r] + (IF fqStep[r] \in Unbooked THEN 1 ELSE 0)

\* An attempt takes at most one account.
FqPaces(r) ==
  /\ fqStep[r] # "done" => Cardinality(attempted[r]) <= attempt[r]
  /\ fqStep[r] = "select" => Cardinality(attempted[r]) < attempt[r]

FqInv ==
  /\ FqTypeOK
  /\ \A r \in FqRequest : FqOwes(r) /\ FqPaces(r)
  /\ \A a \in FqAccount : places[a] = Cardinality(FqHolders(a))

------------------------------------------------------------------------------
(* The Firefly channel: types *)

LEMMA FqFacts ==
  /\ Places \in Nat /\ Attempts \in Nat /\ Threshold \in Nat
  /\ NoAccount \notin FqAccount
  BY FireflyRequestAssumption

LEMMA FqInitInv == FqInit => FqInv
  <1> SUFFICES ASSUME FqInit PROVE FqInv
    OBVIOUS
  <1>1. FqTypeOK
    <2>1. 0 \in 0..Places /\ 0 \in 0..Attempts /\ 0 \in 0..Threshold
      BY FqFacts
    <2> QED BY <2>1 DEF FqInit, FqTypeOK, Kinds, Outcomes
  <1>2. ASSUME NEW r \in FqRequest PROVE FqOwes(r) /\ FqPaces(r)
    <2>1. Cardinality(attempted[r]) = 0
      BY FS_EmptySet DEF FqInit
    <2> QED BY <2>1, FqFacts DEF FqInit, FqOwes, FqPaces, Holding, Placed, Unbooked, Calls
  <1>3. ASSUME NEW a \in FqAccount PROVE places[a] = Cardinality(FqHolders(a))
    <2>1. FqHolders(a) = {}
      BY DEF FqHolders, FqInit
    <2> QED BY <2>1, FS_EmptySet DEF FqInit
  <1> QED BY <1>1, <1>2, <1>3 DEF FqInv

\* The breaker's counter never passes its threshold.
LEMMA BreakerTypes ==
  ASSUME FqTypeOK, NEW o
  PROVE  AfterOutcome(o).count \in 0..Threshold /\ AfterOutcome(o).cool \in BOOLEAN
  <1> DEFINE n == IF failCount < Threshold THEN failCount + 1 ELSE failCount
  <1>1. n \in 0..Threshold /\ (cooling \/ n = Threshold) \in BOOLEAN
    BY FqFacts DEF FqTypeOK
  <1> HIDE DEF n
  <1>2. CASE o = "success"
    <2>1. AfterOutcome(o) = [count |-> 0, cool |-> FALSE]
      BY <1>2 DEF AfterOutcome
    <2> QED BY <2>1, FqFacts
  <1>3. CASE o = "cancelled"
    BY <1>3 DEF AfterOutcome, FqTypeOK
  <1>4. CASE o \notin {"success", "cancelled"}
    <2>1. AfterOutcome(o) = [count |-> n, cool |-> cooling \/ n = Threshold]
      BY <1>4 DEF AfterOutcome, n
    <2> QED BY <1>1, <2>1
  <1> QED BY <1>2, <1>3, <1>4

LEMMA FreePlaceTypes ==
  ASSUME FqTypeOK, NEW a \in FqAccount, FreePlace(a)
  PROVE  places' \in [FqAccount -> 0..Places]
  BY FqFacts DEF FqTypeOK, FreePlace

LEMMA FqTypeStep == FqInv /\ [FqNext]_fqVars => FqTypeOK'
  <1> SUFFICES ASSUME FqInv, [FqNext]_fqVars PROVE FqTypeOK'
    OBVIOUS
  <1> USE FqFacts DEF FqInv, FqTypeOK, breakerVars, accountVars, attemptVars, FqGo,
                      Kinds, Calls
  <1>1. CASE UNCHANGED fqVars
    BY <1>1 DEF fqVars
  <1>2. ASSUME NEW r \in FqRequest, FqSubmit(r) PROVE FqTypeOK'
    BY <1>2 DEF FqSubmit
  <1>3. ASSUME NEW r \in FqRequest, FqCancel(r) PROVE FqTypeOK'
    BY <1>3 DEF FqCancel
  <1>4. ASSUME NEW r \in FqRequest, FqRefused(r) \/ FqNoneReady(r) PROVE FqTypeOK'
    BY <1>4 DEF FqRefused, FqNoneReady, FqEnds
  <1>5. ASSUME NEW r \in FqRequest, FqAdmitted(r) PROVE FqTypeOK'
    BY <1>5 DEF FqAdmitted
  <1>6. ASSUME NEW r \in FqRequest, FqSelect(r) PROVE FqTypeOK'
    BY <1>6 DEF FqSelect, ReadyFor
  <1>7. ASSUME NEW r \in FqRequest, CallSucceeds(r) PROVE FqTypeOK'
    BY <1>7 DEF CallSucceeds, Outcomes
  <1>8. ASSUME NEW r \in FqRequest, CallFails(r) PROVE FqTypeOK'
    <2>1. PICK e \in CallErrors(r) \cup (IF FlagStops(r) THEN {"cancelled"} ELSE {}) :
            outcome' = [outcome EXCEPT ![r] = e]
      BY <1>8 DEF CallFails
    <2>2. e \in Outcomes
      BY <1>8, <2>1 DEF CallFails, CallErrors, UploadErrors, GenerateErrors, BudgetErrors, Outcomes, Errors
    <2> QED BY <1>8, <2>1, <2>2 DEF CallFails
  <1>9. ASSUME NEW r \in FqRequest, CallRefused(r) PROVE FqTypeOK'
    BY <1>9 DEF CallRefused, Outcomes, Errors
  <1>10. ASSUME NEW r \in FqRequest, Finalize(r) PROVE FqTypeOK'
    <2>1. held[r] \in FqAccount
      BY <1>10 DEF Finalize, FqOwes, Holding, Placed
    <2>2. places' \in [FqAccount -> 0..Places]
      BY <1>10, <2>1, FreePlaceTypes DEF Finalize
    <2> QED BY <1>10, <2>1, <2>2 DEF Finalize
  <1>11. ASSUME NEW r \in FqRequest, Book(r) PROVE FqTypeOK'
    <2>1. booked[r] + 1 <= Attempts
      BY <1>11 DEF Book, FqOwes, FqPaces, Unbooked
    <2>2. booked' \in [FqRequest -> 0..Attempts]
      BY <1>11, <2>1 DEF Book
    <2>3. failCount' \in 0..Threshold /\ cooling' \in BOOLEAN
      BY <1>11, BreakerTypes DEF Book
    <2> QED BY <1>11, <2>2, <2>3 DEF Book
  <1>12. ASSUME NEW r \in FqRequest, Finally(r) PROVE FqTypeOK'
    <2>1. UNCHANGED places
      BY <1>12 DEF Finally, FqOwes
    <2>2. UNCHANGED <<kind, pin, attempt, abandoned>> \/ FqEnds(r)
      BY <1>12 DEF Finally
    <2>3. /\ fqStep' \in [FqRequest -> {"idle", "check", "select", "finalize", "book", "finally",
                                         "done"} \cup Calls]
          /\ kind' \in [FqRequest -> Kinds] /\ pin' \in [FqRequest -> FqAccount \cup {NoAccount}]
          /\ attempt' \in [FqRequest -> 0..Attempts] /\ abandoned' \subseteq FqRequest
      BY <1>12, <2>2 DEF Finally, FqEnds
    <2> QED BY <1>12, <2>1, <2>3 DEF Finally, Outcomes
  <1>13. ASSUME NEW a \in FqAccount, Verification(a) \/ Restore(a) PROVE FqTypeOK'
    BY <1>13 DEF Verification, Restore
  <1>14. CASE CoolingOver
    BY <1>14 DEF CoolingOver
  <1> QED
    BY <1>1, <1>2, <1>3, <1>4, <1>5, <1>6, <1>7, <1>8, <1>9, <1>10, <1>11, <1>12, <1>13,
       <1>14 DEF FqNext, FqWork

------------------------------------------------------------------------------
(* The Firefly channel: what an attempt owes *)

\* Selecting an account that was not tried yet makes them one more.
LEMMA TriedOneMore ==
  ASSUME FqTypeOK, NEW r \in FqRequest, NEW a \in ReadyFor(r)
  PROVE  Cardinality(attempted[r] \cup {a}) = Cardinality(attempted[r]) + 1
  <1>1. IsFiniteSet(attempted[r])
    BY FS_Subset, FireflyRequestAssumption DEF FqTypeOK
  <1>2. a \notin attempted[r]
    BY DEF ReadyFor
  <1> QED BY <1>1, <1>2, FS_AddElement

LEMMA FqOwesStep ==
  ASSUME FqInv, [FqNext]_fqVars, NEW q \in FqRequest
  PROVE  FqOwes(q)' /\ FqPaces(q)'
  <1> USE FqFacts DEF FqInv, FqTypeOK, FqOwes, FqPaces, breakerVars, accountVars, attemptVars, FqGo,
                      Calls, Placed, Holding, Unbooked
  <1>c. Cardinality(attempted[q]) \in Nat
    OBVIOUS
  <1>1. CASE UNCHANGED fqVars
    BY <1>1 DEF fqVars
  <1>2. ASSUME NEW r \in FqRequest, FqSubmit(r) PROVE FqOwes(q)' /\ FqPaces(q)'
    BY <1>2 DEF FqSubmit
  <1>3. ASSUME NEW r \in FqRequest, FqCancel(r) PROVE FqOwes(q)' /\ FqPaces(q)'
    BY <1>3 DEF FqCancel
  <1>4. ASSUME NEW r \in FqRequest, FqRefused(r) \/ FqNoneReady(r) PROVE FqOwes(q)' /\ FqPaces(q)'
    BY <1>4 DEF FqRefused, FqNoneReady, FqEnds
  <1>5. ASSUME NEW r \in FqRequest, FqAdmitted(r) PROVE FqOwes(q)' /\ FqPaces(q)'
    BY <1>5, <1>c DEF FqAdmitted
  <1>6. ASSUME NEW r \in FqRequest, FqSelect(r) PROVE FqOwes(q)' /\ FqPaces(q)'
    <2>1. PICK a \in ReadyFor(r) : /\ attempted' = [attempted EXCEPT ![r] = @ \cup {a}]
                                   /\ held' = [held EXCEPT ![r] = a]
      BY <1>6 DEF FqSelect
    <2>2. a \in FqAccount
      BY DEF ReadyFor
    <2>3. CASE q = r
      <3>1. Cardinality(attempted'[q]) = Cardinality(attempted[q]) + 1
        BY <2>1, <2>3, TriedOneMore
      <3> QED BY <1>6, <1>c, <2>1, <2>2, <2>3, <3>1 DEF FqSelect
    <2>4. CASE q # r
      BY <1>6, <2>1, <2>4 DEF FqSelect
    <2> QED BY <2>3, <2>4
  <1>7. ASSUME NEW r \in FqRequest, CallSucceeds(r) \/ CallFails(r) PROVE FqOwes(q)' /\ FqPaces(q)'
    BY <1>7 DEF CallSucceeds, CallFails
  <1>8. ASSUME NEW r \in FqRequest, CallRefused(r) PROVE FqOwes(q)' /\ FqPaces(q)'
    BY <1>8 DEF CallRefused
  <1>9. ASSUME NEW r \in FqRequest, Finalize(r) PROVE FqOwes(q)' /\ FqPaces(q)'
    BY <1>9 DEF Finalize
  <1>10. ASSUME NEW r \in FqRequest, Book(r) PROVE FqOwes(q)' /\ FqPaces(q)'
    BY <1>10, <1>c DEF Book
  <1>11. ASSUME NEW r \in FqRequest, Finally(r) PROVE FqOwes(q)' /\ FqPaces(q)'
    BY <1>11 DEF Finally, FqEnds
  <1>12. ASSUME NEW a \in FqAccount, Verification(a) \/ Restore(a) PROVE FqOwes(q)' /\ FqPaces(q)'
    BY <1>12 DEF Verification, Restore
  <1>13. CASE CoolingOver
    BY <1>13 DEF CoolingOver
  <1> QED
    BY <1>1, <1>2, <1>3, <1>4, <1>5, <1>6, <1>7, <1>8, <1>9, <1>10, <1>11, <1>12, <1>13
       DEF FqNext, FqWork

------------------------------------------------------------------------------
(* The Firefly channel: places *)

\* Most steps change neither the places nor who has one.
LEMMA FqPlacesKept ==
  ASSUME FqInv, UNCHANGED places,
         \A r \in FqRequest :
           \/ held'[r] = held[r] /\ finalized'[r] = finalized[r]
           \/ {held[r], held'[r]} \cap FqAccount = {}
           \/ finalized[r] /\ finalized'[r]
  PROVE  \A a \in FqAccount : places'[a] = Cardinality(FqHolders(a)')
  <1> SUFFICES ASSUME NEW a \in FqAccount PROVE FqHolders(a)' = FqHolders(a)
    BY DEF FqInv
  <1> QED BY DEF FqHolders

LEMMA FqPlacesStep ==
  ASSUME FqInv, [FqNext]_fqVars
  PROVE  \A a \in FqAccount : places'[a] = Cardinality(FqHolders(a)')
  <1> USE FqFacts DEF FqInv, FqTypeOK, breakerVars, accountVars, attemptVars, FqGo
  <1> DEFINE Kept == /\ UNCHANGED places
                     /\ \A r \in FqRequest :
                          \/ held'[r] = held[r] /\ finalized'[r] = finalized[r]
                          \/ {held[r], held'[r]} \cap FqAccount = {}
                          \/ finalized[r] /\ finalized'[r]
  <1>1. CASE UNCHANGED fqVars
    BY <1>1, FqPlacesKept DEF fqVars
  <1>2. ASSUME NEW r \in FqRequest,
               FqSubmit(r) \/ FqCancel(r) \/ FqRefused(r) \/ FqNoneReady(r) \/ CallSucceeds(r)
                 \/ CallFails(r) \/ CallRefused(r) \/ Book(r)
        PROVE  Kept
    BY <1>2 DEF FqSubmit, FqCancel, FqRefused, FqNoneReady, CallSucceeds, CallFails, CallRefused, Book
  <1>3. ASSUME NEW r \in FqRequest, FqAdmitted(r) PROVE Kept
    <2>1. held[r] \notin FqAccount /\ UNCHANGED <<held, places>>
      BY <1>3 DEF FqAdmitted, FqOwes, Holding, Placed, Calls
    <2>2. \A q \in FqRequest : q # r => finalized'[q] = finalized[q]
      BY <1>3 DEF FqAdmitted
    <2> QED BY <2>1, <2>2
  <1>4. ASSUME NEW r \in FqRequest, Finally(r) PROVE Kept
    BY <1>4 DEF Finally, FqOwes
  <1>5. ASSUME NEW r \in FqRequest, FqSelect(r)
        PROVE  \A a \in FqAccount : places'[a] = Cardinality(FqHolders(a)')
    <2>1. PICK b \in ReadyFor(r) : /\ places' = [places EXCEPT ![b] = @ + 1]
                                   /\ held' = [held EXCEPT ![r] = b]
      BY <1>5 DEF FqSelect
    <2>2. b \in FqAccount /\ ~finalized[r] /\ held[r] \notin FqAccount /\ UNCHANGED finalized
      BY <1>5 DEF FqSelect, ReadyFor, FqOwes, Holding, Placed, Calls
    <2> TAKE a \in FqAccount
    <2>3. IsFiniteSet(FqHolders(a))
      BY FS_Subset, FireflyRequestAssumption DEF FqHolders
    <2>4. CASE a = b
      <3>1. FqHolders(a)' = FqHolders(a) \cup {r} /\ r \notin FqHolders(a)
        BY <2>1, <2>2, <2>4 DEF FqHolders
      <3>2. Cardinality(FqHolders(a)') = Cardinality(FqHolders(a)) + 1
        BY <2>3, <3>1, FS_AddElement
      <3> QED BY <2>1, <2>2, <2>4, <3>2
    <2>5. CASE a # b
      <3>1. FqHolders(a)' = FqHolders(a)
        BY <2>1, <2>2, <2>5 DEF FqHolders
      <3> QED BY <2>1, <2>5, <3>1
    <2> QED BY <2>4, <2>5
  <1>6. ASSUME NEW r \in FqRequest, Finalize(r)
        PROVE  \A a \in FqAccount : places'[a] = Cardinality(FqHolders(a)')
    <2>1. held[r] \in FqAccount /\ ~finalized[r] /\ finalized' = [finalized EXCEPT ![r] = TRUE]
          /\ UNCHANGED held /\ FreePlace(held[r])
      BY <1>6 DEF Finalize, FqOwes, Holding, Placed
    <2> TAKE a \in FqAccount
    <2>2. IsFiniteSet(FqHolders(a))
      BY FS_Subset, FireflyRequestAssumption DEF FqHolders
    <2>3. CASE a = held[r]
      <3>1. FqHolders(a)' = FqHolders(a) \ {r} /\ r \in FqHolders(a)
        BY <2>1, <2>3 DEF FqHolders
      <3>2. Cardinality(FqHolders(a)') = Cardinality(FqHolders(a)) - 1
        BY <2>2, <3>1, FS_RemoveElement
      <3>3. Cardinality(FqHolders(a)) # 0
        BY <2>2, <3>1, FS_EmptySet
      <3>4. places[a] > 0 /\ places[a] = Cardinality(FqHolders(a))
        BY <3>3
      <3> QED BY <2>1, <2>3, <3>2, <3>4 DEF FreePlace
    <2>4. CASE a # held[r]
      <3>1. FqHolders(a)' = FqHolders(a)
        BY <2>1, <2>4 DEF FqHolders
      <3> QED BY <2>1, <2>4, <3>1 DEF FreePlace
    <2> QED BY <2>3, <2>4
  <1>7. ASSUME NEW a \in FqAccount, Verification(a) \/ Restore(a) PROVE Kept
    BY <1>7 DEF Verification, Restore
  <1>8. CASE CoolingOver
    BY <1>8, FqPlacesKept DEF CoolingOver
  <1> QED
    <2>1. Kept => \A a \in FqAccount : places'[a] = Cardinality(FqHolders(a)')
      BY FqPlacesKept
    <2> HIDE DEF Kept
    <2> QED BY <1>1, <1>2, <1>3, <1>4, <1>5, <1>6, <1>7, <1>8, <2>1 DEF FqNext, FqWork

THEOREM FqInvariant == FqSpec => []FqInv
  <1>1. FqInv /\ [FqNext]_fqVars => FqInv'
    BY FqTypeStep, FqOwesStep, FqPlacesStep DEF FqInv
  <1> QED BY <1>1, FqInitInv, PTL DEF FqSpec

\* The places taken on an account are those of the attempts that hold it, whichever
\* of the handlers of _run_firefly_account_attempts ends an attempt.
THEOREM PlacesAreThoseOfAttempts == FqSpec => []PlacesMatch
  <1>1. FqInv => PlacesMatch
    BY DEF FqInv, PlacesMatch, FqHolders
  <1> QED BY <1>1, FqInvariant, PTL

\* Every attempt that took an account leaves one row in the ledger (_record_ledger).
THEOREM EveryAttemptIsBooked == FqSpec => []AttemptsBooked
  <1>1. FqInv => AttemptsBooked
    BY DEF FqInv, FqTypeOK, AttemptsBooked, FqOwes, Unbooked, Placed, Calls
  <1> QED BY <1>1, FqInvariant, PTL

------------------------------------------------------------------------------
(* The usage ledger *)

LEMMA LedgerFacts ==
  RetentionDays \in Nat /\ RowCap \in Nat /\ MaxDay \in Nat /\ MaxRows \in Nat
  BY UsageLedgerAssumption

DetailsOf(day, b) == {r \in Details : r.day = day /\ r.bucket = b}

\* A daily row about to be written says no more than was recorded.
TotalsCovered ==
  round.at = "aggregating" => \A total \in toWrite : total.uses <= used[<<round.day, total.bucket>>]

RowsInv ==
  /\ IsFiniteSet(rows)
  /\ \A r \in Details : r.uses = 1
  /\ \A r, s \in Daily : r.day = s.day /\ r.bucket = s.bucket => r = s
  /\ \A r \in Daily : r.uses <= used[<<r.day, r.bucket>>]
  /\ \A day \in Day, b \in Bucket : Cardinality(DetailsOf(day, b)) <= used[<<day, b>>]

LedgerInv == UsageTypeOK /\ RowsInv /\ TotalsCovered

LEMMA LedgerInitInv == UsageInit => LedgerInv
  <1> SUFFICES ASSUME UsageInit PROVE LedgerInv
    OBVIOUS
  <1>1. UsageTypeOK
    BY LedgerFacts DEF UsageInit, UsageTypeOK, Day
  <1>2. \A day \in Day, b \in Bucket : DetailsOf(day, b) = {}
    BY DEF UsageInit, DetailsOf, Details
  <1>3. RowsInv
    <2>1. /\ Daily = {} /\ Details = {} /\ IsFiniteSet(rows)
          /\ \A day \in Day, b \in Bucket : used[<<day, b>>] = 0
      BY FS_EmptySet DEF UsageInit, Daily, Details
    <2>2. \A day \in Day, b \in Bucket : Cardinality(DetailsOf(day, b)) = 0
      BY <1>2, FS_EmptySet
    <2> QED BY <2>1, <2>2 DEF RowsInv
  <1> QED BY <1>1, <1>3 DEF LedgerInv, TotalsCovered, UsageInit

LEMMA DetailsFinite ==
  ASSUME IsFiniteSet(rows), NEW day, NEW b
  PROVE  IsFiniteSet(DetailsOf(day, b)) /\ Cardinality(DetailsOf(day, b)) \in Nat
  BY FS_Subset, FS_CardinalityType DEF DetailsOf, Details

\* What is deleted or cut off takes nothing from the invariant.
LEMMA FewerRows ==
  ASSUME UsageTypeOK, RowsInv, rows' \subseteq rows, UNCHANGED used
  PROVE  RowsInv'
  <1>1. IsFiniteSet(rows')
    BY FS_Subset DEF RowsInv
  <1>2. Daily' \subseteq Daily /\ Details' \subseteq Details
    BY DEF Daily, Details
  <1>3. ASSUME NEW day \in Day, NEW b \in Bucket
        PROVE  Cardinality(DetailsOf(day, b)') <= used'[<<day, b>>]
    <2>1. DetailsOf(day, b)' \in SUBSET DetailsOf(day, b)
      BY DEF DetailsOf, Details
    <2>2. /\ IsFiniteSet(DetailsOf(day, b)) /\ Cardinality(DetailsOf(day, b)) \in Nat
          /\ IsFiniteSet(DetailsOf(day, b)') /\ Cardinality(DetailsOf(day, b)') \in Nat
      BY <2>1, DetailsFinite, FS_Subset, FS_CardinalityType DEF RowsInv
    <2>3. Cardinality(DetailsOf(day, b)') <= Cardinality(DetailsOf(day, b))
      BY <2>1, <2>2, FS_Subset
    <2>4. used[<<day, b>>] \in Nat /\ Cardinality(DetailsOf(day, b)) <= used[<<day, b>>]
      BY DEF UsageTypeOK, RowsInv
    <2> QED BY <2>2, <2>3, <2>4
  <1> QED BY <1>1, <1>2, <1>3 DEF RowsInv

\* One more row, for a use that was just recorded or a bucket without a daily row.
LEMMA OneMoreRow ==
  ASSUME UsageTypeOK, RowsInv, NEW row \in Row, rows' \subseteq rows \cup {row},
         used' \in [Day \X Bucket -> Nat],
         \A db \in Day \X Bucket : used'[db] >= used[db],
         row.kind = "detail" => /\ used'[<<row.day, row.bucket>>] = used[<<row.day, row.bucket>>] + 1
                                /\ row.uses = 1,
         row.kind = "daily" => /\ \A r \in Daily : r.day # row.day \/ r.bucket # row.bucket
                               /\ row.uses <= used[<<row.day, row.bucket>>]
  PROVE  RowsInv'
  <1>1. IsFiniteSet(rows')
    BY FS_AddElement, FS_Subset DEF RowsInv
  <1>2. Daily' \subseteq Daily \cup (IF row.kind = "daily" THEN {row} ELSE {})
    BY DEF Daily
  <1>3. \A r, s \in Daily' : r.day = s.day /\ r.bucket = s.bucket => r = s
    BY <1>2 DEF RowsInv
  <1>d. \A r \in Details' : r.uses = 1
    <2>1. \A r \in Details' : r \in Details \/ (r = row /\ row.kind = "detail")
      BY DEF Details
    <2> QED BY <2>1 DEF RowsInv
  <1>4. ASSUME NEW r \in Daily' PROVE r.uses <= used'[<<r.day, r.bucket>>]
    <2>1. r \in Row
      BY DEF Daily, UsageTypeOK
    <2>2. <<r.day, r.bucket>> \in Day \X Bucket /\ r.uses \in Nat
      BY <2>1 DEF Row
    <2>3. r.uses <= used[<<r.day, r.bucket>>]
      BY <1>2 DEF RowsInv
    <2>4. used[<<r.day, r.bucket>>] \in Nat /\ used'[<<r.day, r.bucket>>] \in Nat
      BY <2>2 DEF UsageTypeOK
    <2> QED BY <2>2, <2>3, <2>4
  <1>5. ASSUME NEW day \in Day, NEW b \in Bucket
        PROVE  Cardinality(DetailsOf(day, b)') <= used'[<<day, b>>]
    <2> DEFINE old == DetailsOf(day, b)
               new == DetailsOf(day, b)'
    <2>1. /\ IsFiniteSet(old) /\ Cardinality(old) \in Nat
          /\ used[<<day, b>>] \in Nat /\ used'[<<day, b>>] \in Nat
          /\ used'[<<day, b>>] >= used[<<day, b>>] /\ Cardinality(old) <= used[<<day, b>>]
      BY DetailsFinite DEF UsageTypeOK, RowsInv
    <2>2. CASE row.kind = "detail" /\ row.day = day /\ row.bucket = b
      <3>1. new \in SUBSET (old \cup {row})
        BY DEF DetailsOf, Details
      <3>2. IsFiniteSet(old \cup {row}) /\ Cardinality(old \cup {row}) <= Cardinality(old) + 1
        <4>1. IsFiniteSet(old)
          BY <2>1
        <4>2. /\ IsFiniteSet(old \cup {row})
              /\ Cardinality(old \cup {row}) = IF row \in old THEN Cardinality(old)
                                                               ELSE Cardinality(old) + 1
          <5> HIDE DEF old
          <5> QED BY <4>1, FS_AddElement
        <4> HIDE DEF old
        <4> QED BY <2>1, <4>2
      <3>3. Cardinality(new) \in Nat /\ Cardinality(new) <= Cardinality(old) + 1
        <4>1. IsFiniteSet(new) /\ Cardinality(new) <= Cardinality(old \cup {row})
          BY <3>1, <3>2, FS_Subset
        <4>2. Cardinality(new) \in Nat /\ Cardinality(old \cup {row}) \in Nat
          BY <3>2, <4>1, FS_CardinalityType
        <4> HIDE DEF old, new
        <4> QED BY <2>1, <3>2, <4>1, <4>2
      <3> HIDE DEF old, new
      <3>4. Cardinality(new) <= used'[<<day, b>>]
        BY <2>1, <2>2, <3>3
      <3> QED BY <3>4 DEF new
    <2>3. CASE ~(row.kind = "detail" /\ row.day = day /\ row.bucket = b)
      <3>1. new \in SUBSET old
        BY <2>3 DEF DetailsOf, Details
      <3>2. Cardinality(new) \in Nat /\ Cardinality(new) <= Cardinality(old)
        BY <2>1, <3>1, FS_Subset, FS_CardinalityType
      <3> HIDE DEF old, new
      <3>3. Cardinality(new) <= used'[<<day, b>>]
        BY <2>1, <3>2
      <3> QED BY <3>3 DEF new
    <2> QED BY <2>2, <2>3
  <1> QED BY <1>1, <1>3, <1>d, <1>4, <1>5 DEF RowsInv

\* The backend's cap only leaves rows out.
LEMMA CappedIsSubset == \A items : Capped(items) \subseteq items
  BY DEF Capped

\* An appended row, or none: append may fail.
LEMMA AppendKeeps ==
  ASSUME UsageTypeOK, RowsInv, NEW day \in Day, NEW k \in {"detail", "daily"}, NEW b \in Bucket,
         NEW n \in Nat, AppendRow(day, k, b, n),
         k = "daily" => n <= used[<<day, b>>] /\ ~DailyExists(day, b),
         k = "detail" => n = 1
  PROVE  /\ RowsInv' /\ rows' \subseteq Row /\ lastId' \in 0..MaxRows
         /\ used' \in [Day \X Bucket -> Nat]
         /\ \A db \in Day \X Bucket : used'[db] >= used[db]
  <1> DEFINE row == [id |-> lastId + 1, kind |-> k, day |-> day, bucket |-> b, uses |-> n]
  <1>1. CASE UNCHANGED <<rows, lastId, used>>
    BY <1>1, FewerRows DEF UsageTypeOK
  <1>2. CASE /\ rows' = Appended(k, day, b, n)
             /\ lastId' = lastId + 1
             /\ used' = IF k = "detail" THEN [used EXCEPT ![<<day, b>>] = @ + 1] ELSE used
    <2>1. lastId + 1 \in 1..MaxRows /\ lastId' \in 0..MaxRows
      BY <1>2, LedgerFacts DEF AppendRow, UsageTypeOK
    <2>2. row \in Row
      BY <2>1 DEF Row
    <2>3. rows' \subseteq rows \cup {row}
      BY <1>2, CappedIsSubset DEF Appended
    <2>4. /\ used' \in [Day \X Bucket -> Nat]
          /\ \A db \in Day \X Bucket : used'[db] >= used[db]
          /\ k = "detail" => used'[<<day, b>>] = used[<<day, b>>] + 1
      BY <1>2 DEF UsageTypeOK
    <2>5. /\ row.kind = k /\ row.day = day /\ row.bucket = b /\ row.uses = n
      OBVIOUS
    <2>6. k = "daily" => \A r \in Daily : r.day # day \/ r.bucket # b
      BY DEF DailyExists
    <2> HIDE DEF row
    <2>7. RowsInv'
      BY <2>2, <2>3, <2>4, <2>5, <2>6, OneMoreRow
    <2> QED BY <2>1, <2>2, <2>3, <2>4, <2>7 DEF UsageTypeOK
  <1> QED BY <1>1, <1>2 DEF AppendRow

\* The totals of a day are covered by what was recorded.
LEMMA TotalsAreCovered ==
  ASSUME UsageTypeOK, RowsInv, NEW day \in Day
  PROVE  /\ DayTotals(day) \subseteq [bucket : Bucket, uses : Nat]
         /\ \A total \in DayTotals(day) : total.uses <= used[<<day, total.bucket>>]
  <1> SUFFICES ASSUME NEW total \in DayTotals(day)
               PROVE  /\ total \in [bucket : Bucket, uses : Nat]
                      /\ total.uses <= used[<<day, total.bucket>>]
    OBVIOUS
  <1>1. PICK b \in Bucket : total = [bucket |-> b, uses |-> Cardinality(DetailsOf(day, b))]
    BY DEF DayTotals, DetailsOf
  <1>2. Cardinality(DetailsOf(day, b)) \in Nat /\ Cardinality(DetailsOf(day, b)) <= used[<<day, b>>]
    BY DetailsFinite DEF RowsInv
  <1> QED BY <1>1, <1>2

\* A set of days has a first one.
LEMMA FirstDay ==
  ASSUME NEW S, S \subseteq Day, S # {}
  PROVE  Min(S) \in S
  <1> DEFINE R == OpToRel(<, Nat)
  <1>1. \A x, y \in Nat : x < y => <<x, y>> \in R
    BY DEF OpToRel
  <1>2. IsWellFoundedOn(R, Nat)
    BY NatLessThanWellFounded
  <1>3. S \subseteq Nat
    BY LedgerFacts DEF Day
  <1> HIDE DEF R
  <1>4. PICK m \in S : \A k \in S : ~ (<<k, m>> \in R)
    BY <1>2, <1>3, WFMin
  <1>5. ASSUME NEW k \in S PROVE m <= k
    <2>1. m \in Nat /\ k \in Nat /\ ~(k < m)
      BY <1>1, <1>3, <1>4
    <2> QED BY <2>1
  <1> QED BY <1>5 DEF Min

LEMMA LedgerStep == LedgerInv /\ [UsageNext]_usageVars => LedgerInv'
  <1> SUFFICES ASSUME LedgerInv, [UsageNext]_usageVars PROVE LedgerInv'
    OBVIOUS
  <1> USE DEF LedgerInv, roundVars
  <1>1. CASE UNCHANGED usageVars
    BY <1>1, FewerRows DEF usageVars, UsageTypeOK, TotalsCovered
  <1>2. ASSUME NEW a \in UsageAccount, NEW action \in {"image", "refresh"},
               NEW result \in {"success", "failed"},
               AppendRow(today, "detail", [account |-> a, action |-> action, result |-> result], 1),
               UNCHANGED <<today, roundVars>>
        PROVE  LedgerInv'
    <2> DEFINE b == [account |-> a, action |-> action, result |-> result]
    <2>1. b \in Bucket /\ today \in Day
      BY DEF Bucket, UsageTypeOK
    <2> HIDE DEF b
    <2>2. AppendRow(today, "detail", b, 1)
      BY <1>2 DEF b
    <2>3. /\ RowsInv' /\ rows' \subseteq Row /\ lastId' \in 0..MaxRows
          /\ used' \in [Day \X Bucket -> Nat]
          /\ \A db \in Day \X Bucket : used'[db] >= used[db]
      BY <2>1, <2>2, AppendKeeps
    <2>4. UsageTypeOK'
      BY <1>2, <2>3 DEF UsageTypeOK
    <2>5. TotalsCovered'
      <3> SUFFICES ASSUME round.at = "aggregating", NEW total \in toWrite
                   PROVE  total.uses <= used'[<<round.day, total.bucket>>]
        BY <1>2 DEF TotalsCovered
      <3>1. total.uses <= used[<<round.day, total.bucket>>]
        BY DEF TotalsCovered
      <3>2. total.uses \in Nat /\ <<round.day, total.bucket>> \in Day \X Bucket
        BY DEF UsageTypeOK
      <3>3. used[<<round.day, total.bucket>>] \in Nat /\ used'[<<round.day, total.bucket>>] \in Nat
        BY <2>3, <3>2 DEF UsageTypeOK
      <3> QED BY <2>3, <3>1, <3>2, <3>3
    <2> QED BY <2>3, <2>4, <2>5
  <1>3. CASE StartRound
    <2> DEFINE cutoff == today - RetentionDays
               past == {r.day : r \in {s \in Details : s.day < cutoff}}
    <2>1. cutoff \in Day /\ past \subseteq Day
      BY <1>3, LedgerFacts DEF StartRound, UsageTypeOK, Day, Details, Row
    <2>2. /\ round' = IF past = {} THEN [at |-> "pruning", cutoff |-> cutoff, day |-> cutoff]
                      ELSE [at |-> "aggregating", cutoff |-> cutoff, day |-> Min(past)]
          /\ toWrite' = IF past = {} THEN {} ELSE DayTotals(Min(past))
          /\ UNCHANGED <<rows, lastId, today, used>>
      BY <1>3 DEF StartRound
    <2>3. RowsInv'
      BY <2>2, FewerRows
    <2> HIDE DEF cutoff, past
    <2>4. CASE past = {}
      BY <2>1, <2>2, <2>3, <2>4 DEF UsageTypeOK, TotalsCovered
    <2>5. CASE past # {}
      <3>1. Min(past) \in Day
        BY <2>1, <2>5, FirstDay
      <3>2. /\ toWrite' \subseteq [bucket : Bucket, uses : Nat]
            /\ \A total \in toWrite' : total.uses <= used[<<Min(past), total.bucket>>]
        BY <2>2, <2>5, <3>1, TotalsAreCovered
      <3>3. round'.day = Min(past)
            /\ round' \in [at : {"waiting", "aggregating", "pruning"}, cutoff : Day, day : Day]
        BY <2>1, <2>2, <2>5, <3>1
      <3> QED BY <2>2, <2>3, <3>2, <3>3 DEF UsageTypeOK, TotalsCovered
    <2> QED BY <2>4, <2>5
  <1>4. CASE TotalsLost
    BY <1>4, FewerRows DEF TotalsLost, UsageTypeOK, TotalsCovered
  <1>5. CASE WriteDaily
    <2>1. PICK total \in toWrite :
            /\ toWrite' = toWrite \ {total}
            /\ \/ UNCHANGED <<rows, lastId, used>>
               \/ /\ ~DailyExists(round.day, total.bucket)
                  /\ AppendRow(round.day, "daily", total.bucket, total.uses)
      BY <1>5 DEF WriteDaily
    <2>2. /\ round.day \in Day /\ total.bucket \in Bucket /\ total.uses \in Nat
          /\ total.uses <= used[<<round.day, total.bucket>>]
      BY <1>5 DEF WriteDaily, UsageTypeOK, TotalsCovered
    <2>3. /\ RowsInv' /\ rows' \subseteq Row /\ lastId' \in 0..MaxRows /\ UNCHANGED used
      <3>1. CASE UNCHANGED <<rows, lastId, used>>
        BY <3>1, FewerRows DEF UsageTypeOK
      <3>2. CASE /\ ~DailyExists(round.day, total.bucket)
                 /\ AppendRow(round.day, "daily", total.bucket, total.uses)
        <4>1. UNCHANGED used
          BY <3>2 DEF AppendRow
        <4> QED BY <2>2, <3>2, <4>1, AppendKeeps
      <3> QED BY <2>1, <3>1, <3>2
    <2> QED BY <1>5, <2>1, <2>3 DEF WriteDaily, UsageTypeOK, TotalsCovered
  <1>6. CASE NextDayOfRound
    <2>1. RowsInv'
      BY <1>6, FewerRows DEF NextDayOfRound
    <2>2. CASE round.day + 1 < round.cutoff
      <3>1. round.day + 1 \in Day
        BY <2>2, LedgerFacts DEF UsageTypeOK, Day
      <3>2. round' = [round EXCEPT !.day = round.day + 1] /\ toWrite' = DayTotals(round.day + 1)
        BY <1>6, <2>2 DEF NextDayOfRound
      <3>3. round'.day = round.day + 1
            /\ round' \in [at : {"waiting", "aggregating", "pruning"}, cutoff : Day, day : Day]
        BY <3>1, <3>2 DEF UsageTypeOK
      <3> QED BY <1>6, <2>1, <3>1, <3>2, <3>3, TotalsAreCovered
              DEF NextDayOfRound, UsageTypeOK, TotalsCovered
    <2>3. CASE ~(round.day + 1 < round.cutoff)
      <3>1. round' = [round EXCEPT !.at = "pruning"] /\ toWrite' = {}
        BY <1>6, <2>3 DEF NextDayOfRound
      <3>2. round' \in [at : {"waiting", "aggregating", "pruning"}, cutoff : Day, day : Day]
        BY <3>1 DEF UsageTypeOK
      <3> QED BY <1>6, <2>1, <3>1, <3>2 DEF NextDayOfRound, UsageTypeOK, TotalsCovered
    <2> QED BY <2>2, <2>3
  <1>7. CASE Prune
    <2>1. rows' \subseteq rows
      BY <1>7 DEF Prune, Deleted
    <2> QED BY <1>7, <2>1, FewerRows DEF Prune, UsageTypeOK, TotalsCovered
  <1>8. CASE RoundAborted
    BY <1>8, FewerRows DEF RoundAborted, UsageTypeOK, TotalsCovered
  <1>9. CASE Midnight
    <2>1. today' \in Day
      BY <1>9, LedgerFacts DEF Midnight, UsageTypeOK, Day
    <2> QED BY <1>9, <2>1, FewerRows DEF Midnight, UsageTypeOK, TotalsCovered
  <1> QED
    BY <1>1, <1>2, <1>3, <1>4, <1>5, <1>6, <1>7, <1>8, <1>9
       DEF UsageNext, RecordImageResult, ReconcileAccount

LEMMA RowsAreOneDaily ==
  ASSUME LedgerInv
  PROVE  OneDailyRow
  <1>1. ASSUME NEW r \in Details
        PROVE  Cardinality({s \in Details : s.day = r.day /\ s.bucket = r.bucket})
                 <= used[<<r.day, r.bucket>>]
    <2>1. r.day \in Day /\ r.bucket \in Bucket
      BY DEF LedgerInv, UsageTypeOK, Details, Row
    <2>2. {s \in Details : s.day = r.day /\ s.bucket = r.bucket} = DetailsOf(r.day, r.bucket)
      BY DEF DetailsOf
    <2> QED BY <2>1, <2>2 DEF LedgerInv, RowsInv
  <1> QED BY <1>1 DEF LedgerInv, RowsInv, OneDailyRow

------------------------------------------------------------------------------
(* The credits that a reconciliation finds: each of them stands for a use  *)
(* of its own.  A credit of a daily row is the use with its number on that *)
(* day; a detail that counts is on a day without a daily row, and has a    *)
(* number among the details of the day.                                    *)

\* The members of a set can be numbered up to its size.
LEMMA Numbering ==
  ASSUME NEW S, IsFiniteSet(S), NEW n \in Nat, Cardinality(S) <= n
  PROVE  \E f : f \in Injection(S, 1..n)
  <1>1. Cardinality(S) \in Nat /\ ExistsBijection(1..Cardinality(S), S)
    BY FS_CardinalityType
  <1>2. PICK g : g \in Bijection(1..Cardinality(S), S)
    BY <1>1 DEF ExistsBijection
  <1> DEFINE f == [s \in S |-> CHOOSE i \in 1..Cardinality(S) : g[i] = s]
  <1>3. \A s \in S : f[s] \in 1..Cardinality(S) /\ g[f[s]] = s
    BY <1>2 DEF Bijection, Surjection
  <1>4. 1..Cardinality(S) \subseteq 1..n
    BY <1>1
  <1>5. f \in [S -> 1..n]
    BY <1>3, <1>4
  <1>6. \A s, t \in S : f[s] = f[t] => s = t
    BY <1>3
  <1> HIDE DEF f
  <1> QED BY <1>5, <1>6 DEF Injection, IsInjective

UsesOf(a) == UNION {{d} \X (1..used[<<d, Paid(a)>>]) : d \in Day}

LEMMA UsesFinite ==
  ASSUME UsageTypeOK, NEW a \in UsageAccount
  PROVE  IsFiniteSet(UsesOf(a))
  <1> DEFINE part == [d \in Day |-> {d} \X (1..used[<<d, Paid(a)>>])]
             parts == {{d} \X (1..used[<<d, Paid(a)>>]) : d \in Day}
  <1>1. part \in Surjection(Day, parts)
    BY DEF Surjection
  <1>2. IsFiniteSet(Day)
    BY LedgerFacts, FS_Interval DEF Day
  <1>3. IsFiniteSet(parts)
    BY <1>1, <1>2, FS_Surjection
  <1>4. \A d \in Day : IsFiniteSet({d} \X (1..used[<<d, Paid(a)>>]))
    <2>1. TAKE d \in Day
    <2>2. used[<<d, Paid(a)>>] \in Nat
      BY DEF UsageTypeOK, Paid, Bucket
    <2>3. IsFiniteSet({d})
      BY FS_Singleton
    <2>4. IsFiniteSet(1..used[<<d, Paid(a)>>])
      BY <2>2, FS_Interval
    <2> QED BY <2>3, <2>4, FS_Product
  <1> HIDE DEF part
  <1> QED BY <1>3, <1>4, FS_UNION DEF UsesOf

LEMMA CreditsAreUses ==
  ASSUME LedgerInv, NEW a \in UsageAccount
  PROVE  SumLedgerCredits(rows, a) <= CreditsUsed(a)
  <1> DEFINE b == Paid(a)
             counted == {r \in rows : r.bucket.account = a /\ Counted(rows, r)}
             pos == [d \in Day |-> CHOOSE f : f \in Injection(DetailsOf(d, b), 1..used[<<d, b>>])]
             use(c) == <<c[1].day, IF c[1].kind = "daily" THEN c[2] ELSE pos[c[1].day][c[1]]>>
             f == [c \in Credits(counted) |-> use(c)]
  <1>b. b \in Bucket /\ \A d \in Day : used[<<d, b>>] \in Nat
    BY DEF LedgerInv, UsageTypeOK, Paid, Bucket
  <1>1. \A d \in Day : pos[d] \in Injection(DetailsOf(d, b), 1..used[<<d, b>>])
    <2>1. TAKE d \in Day
    <2>2. /\ IsFiniteSet(DetailsOf(d, b)) /\ used[<<d, b>>] \in Nat
          /\ Cardinality(DetailsOf(d, b)) <= used[<<d, b>>]
      BY <1>b, DetailsFinite DEF LedgerInv, RowsInv
    <2>3. \E g : g \in Injection(DetailsOf(d, b), 1..used[<<d, b>>])
      BY <2>2, Numbering
    <2> QED BY <2>3
  <1> HIDE DEF pos
  \* What a credit is made of.
  <1>2. ASSUME NEW c \in Credits(counted)
        PROVE  LET r == c[1] IN
               /\ c = <<r, c[2]>> /\ r \in rows /\ r \in Row /\ r.bucket = b /\ Counted(rows, r) /\ r.day \in Day
               /\ c[2] \in 1..r.uses
               /\ r.kind = "daily" => r \in Daily /\ r.uses <= used[<<r.day, b>>]
               /\ r.kind # "daily" => r \in DetailsOf(r.day, b) /\ r.kind = "detail" /\ c[2] = 1
    <2>1. PICK r \in counted : c \in {r} \X (1..(Credit(r.bucket) * r.uses))
      BY DEF Credits
    <2>2. r \in rows /\ r \in Row /\ r.bucket.account = a /\ Counted(rows, r) /\ r.bucket \in Bucket
          /\ r.uses \in Nat /\ r.kind \in {"daily", "detail"} /\ r.day \in Day
      BY <2>1 DEF LedgerInv, UsageTypeOK, Row
    <2>3. Credit(r.bucket) # 0
      BY <2>1, <2>2
    <2>4. r.bucket = b /\ Credit(r.bucket) = 1
      BY <2>2, <2>3 DEF Credit, Bucket, Paid
    <2>5. c = <<r, c[2]>> /\ c[1] = r /\ c[2] \in 1..r.uses
      BY <2>1, <2>2, <2>4
    <2>6. r.kind = "daily" => r \in Daily /\ r.uses <= used[<<r.day, b>>]
      BY <2>2, <2>4 DEF Daily, LedgerInv, RowsInv
    <2>7. r.kind # "daily" => r \in DetailsOf(r.day, b) /\ r.kind = "detail" /\ r.uses = 1
      BY <2>2, <2>4 DEF Details, DetailsOf, LedgerInv, RowsInv
    <2> HIDE DEF b
    <2> QED BY <2>2, <2>4, <2>5, <2>6, <2>7
  <1> HIDE DEF b, counted
  <1>3. \A c \in Credits(counted) : use(c) \in UsesOf(a)
    <2>1. TAKE c \in Credits(counted)
    <2> DEFINE r == c[1]
    <2>2. CASE r.kind = "daily"
      <3>1. c[2] \in 1..used[<<r.day, b>>]
        BY <1>2, <1>b, <2>2 DEF Row
      <3> QED BY <1>2, <2>2, <3>1 DEF UsesOf, b
    <2>3. CASE r.kind # "daily"
      <3>1. pos[r.day][r] \in 1..used[<<r.day, b>>]
        BY <1>1, <1>2, <2>3 DEF Injection, IsInjective
      <3> QED BY <1>2, <2>3, <3>1 DEF UsesOf, b
    <2> QED BY <2>2, <2>3
  <1>4. ASSUME NEW c \in Credits(counted), NEW e \in Credits(counted), use(c) = use(e)
        PROVE  c = e
    <2> DEFINE r == c[1]
               s == e[1]
    <2>1. r.day = s.day /\ r.bucket = b /\ s.bucket = b /\ c = <<r, c[2]>> /\ e = <<s, e[2]>>
      BY <1>2, <1>4
    <2>2. CASE r.kind = "daily" /\ s.kind = "daily"
      <3>1. r = s
        BY <1>2, <2>1, <2>2 DEF LedgerInv, RowsInv
      <3>2. c[2] = e[2]
        BY <1>4, <2>2
      <3> QED BY <2>1, <3>1, <3>2
    <2>3. CASE r.kind # "daily" /\ s.kind # "daily"
      <3>1. pos[r.day][r] = pos[r.day][s]
        BY <1>4, <2>1, <2>3
      <3>2. r \in DetailsOf(r.day, b) /\ s \in DetailsOf(r.day, b) /\ c[2] = 1 /\ e[2] = 1 /\ r.day \in Day
        BY <1>2, <2>1, <2>3
      <3>3. r = s
        BY <1>1, <3>1, <3>2 DEF Injection, IsInjective
      <3> QED BY <2>1, <3>2, <3>3
    <2>4. CASE r.kind = "daily" /\ s.kind # "daily"
      BY <1>2, <2>1, <2>4 DEF Counted
    <2>5. CASE r.kind # "daily" /\ s.kind = "daily"
      BY <1>2, <2>1, <2>5 DEF Counted
    <2> QED BY <2>2, <2>3, <2>4, <2>5
  <1>5. f \in Injection(Credits(counted), UsesOf(a))
    <2> HIDE DEF use
    <2> QED BY <1>3, <1>4 DEF Injection, IsInjective
  <1> HIDE DEF f
  <1>6. Cardinality(Credits(counted)) <= Cardinality(UsesOf(a))
    BY <1>5, UsesFinite, FS_Injection DEF LedgerInv
  <1> QED BY <1>6 DEF SumLedgerCredits, CreditsUsed, UsesOf, counted

\* However often a round of the maintenance fails and starts anew, a reconciliation
\* never charges an account with more than was recorded: neither two daily rows nor a
\* daily row next to its details count a use twice (channel_usage_service.py,
\* sum_ledger_credits).
THEOREM NeverOverchargedAlways == UsageSpec => []NeverOvercharged
  <1>1. LedgerInv => NeverOvercharged
    BY RowsAreOneDaily, CreditsAreUses DEF LedgerInv, NeverOvercharged
  <1>2. LedgerInv /\ [UsageNext]_usageVars => LedgerInv'
    BY LedgerStep
  <1> QED BY <1>1, <1>2, LedgerInitInv, PTL DEF UsageSpec

------------------------------------------------------------------------------
(* Imports (ImportJobs)                                                    *)
(*                                                                         *)
(* Proofs about the imports: for any remotes, accounts and imports, with   *)
(* reports written over each other, edits, deletions and restarts between  *)
(* the reading of a job and its writing, a job at work has its import, and *)
(* the job of an import that nothing disturbed accounts for its accounts.  *)
(*                                                                         *)
(* An import that ends by a report has a final status in that report.  And *)
(* an import that nothing disturbed is the only one at work for its        *)
(* remote, so what it reads is what it wrote: the job with the report that *)
(* is under way shows exactly what the import has dealt with.              *)

IjKindInv ==
  /\ thread \in [ImportNo -> Working \cup {"new", "ended"}]
  /\ remote \in [ImportNo -> Remote] /\ goesOn \in [ImportNo -> Working \cup {"ended"}]
  /\ {chosen, todo, got, tokens} \subseteq [ImportNo -> SUBSET Item]
  /\ DOMAIN updates = ImportNo /\ DOMAIN read = ImportNo
  /\ remotes \subseteq Remote /\ DOMAIN job = Remote
  /\ \A r \in Remote : DOMAIN job[r] = DOMAIN NoJob

\* Imports begin in the order of their numbers.
OrderInv == \A n, m \in ImportNo : thread[n] = "new" /\ n < m => thread[m] = "new"

\* What an import has in hand: of ids that are dealt with, and a token where there is an id.
Kept(n) == got[n] \subseteq chosen[n] \ todo[n] /\ (got[n] = {} => tokens[n] = {})

DataInv ==
  \A n \in ImportNo :
    /\ IF thread[n] = "new" THEN got[n] = {} ELSE chosen[n] # {}
    /\ todo[n] \subseteq chosen[n] /\ Kept(n)

ExportInv == DOMAIN exported = ImportNo /\ \A n \in ImportNo : exported[n] \in Exports(chosen[n])

\* Whatever came into the pool, be it still there or not.
Pooled == poolTokens \cup left

\* A report after which the import ends has a final status.
FinalInv ==
  \A n \in ImportNo : thread[n] \in {"reread", "write"} /\ goesOn[n] = "ended" =>
    "status" \in DOMAIN updates[n] /\ updates[n].status \in {"failed", "completed"}

AtWorkInv == \A r \in remotes : job[r].status \in Unfinished => Alive(r) # {} \/ r \in died

\* Where nothing was mixed up, an import at work is the last one and the only one.
SoleInv ==
  \A n, m \in ImportNo :
    remote[n] \notin mixed /\ thread[n] \in Working /\ m # n /\ remote[m] = remote[n] =>
      thread[m] = "new" \/ (m < n /\ thread[m] = "ended")

Undisturbed(n) ==
  /\ remote[n] \in remotes \ mixed /\ thread[n] # "new"
  /\ \A m \in ImportNo : m > n => remote[m] # remote[n] \/ thread[m] = "new"

\* The job when the report under way is written.
Merge(u, j) == [f \in DOMAIN NoJob |-> IF f \in DOMAIN u THEN u[f] ELSE j[f]]
Merged(n) == Merge(updates[n], job[remote[n]])

\* The job counts what the import has dealt with, but for what is still to be reported.
Dealt(n) == chosen[n] \ todo[n]
Counts(n, j, uncounted, unnoted) ==
  /\ j.total = Cardinality(chosen[n]) /\ j.added = 0
  /\ j.completed \in Nat /\ j.completed + uncounted = Cardinality(Dealt(n))
  /\ j.errors \in Nat /\ j.errors + unnoted = Cardinality(Dealt(n) \ got[n])

Accounted(n, j) ==
  /\ j.completed = j.total /\ j.total = Cardinality(chosen[n])
  /\ j.failed = Cardinality(chosen[n] \ got[n]) /\ j.added = Cardinality(tokens[n])
  /\ tokens[n] \subseteq Pooled

\* What the job j of an import shows when the import is at a place.
ShowsAt(n, place, j) ==
  /\ place \in {"begin", "batch", "fetch", "close", "add", "refresh"} => Counts(n, j, 0, 0)
  /\ place = "error" => Counts(n, j, 1, 1)
  /\ place = "count" => Counts(n, j, 1, 0)
  /\ place \in {"close", "add", "refresh"} => todo[n] = {}
  /\ place = "refresh" => tokens[n] \subseteq Pooled
  /\ place = "ended" => Accounted(n, j)
  /\ place \notin {"done", "reread", "write"}

Tally(n) ==
  Undisturbed(n) =>
    /\ thread[n] \in {"reread", "write"} => ShowsAt(n, goesOn[n], Merged(n))
    /\ thread[n] \notin {"reread", "write"} => ShowsAt(n, thread[n], job[remote[n]])
    /\ thread[n] = "write" => read[n] = job[remote[n]]
    /\ job[remote[n]].total = Cardinality(chosen[n])

IjInv ==
  /\ IjKindInv /\ OrderInv /\ DataInv /\ ExportInv /\ FinalInv /\ AtWorkInv /\ SoleInv
  /\ \A n \in ImportNo : Tally(n)

LEMMA IjInitInv == ImportsInit => IjInv
  <1> SUFFICES ASSUME ImportsInit PROVE IjInv
    OBVIOUS
  <1> USE DEF ImportsInit
  <1>1. IjKindInv
    <2>1. chosen \in [ImportNo -> SUBSET Item]
      BY ImportJobsAssumption DEF ImportNo
    <2>2. remotes \subseteq Remote /\ remote \in [ImportNo -> Remote]
      OBVIOUS
    <2> QED
      BY <2>1, <2>2 DEF IjKindInv, Working
  <1>2. OrderInv /\ FinalInv /\ SoleInv
    BY DEF OrderInv, FinalInv, SoleInv, Working
  <1>3. DataInv
    BY DEF DataInv, Kept
  <1>4. AtWorkInv
    BY DEF AtWorkInv, Unfinished, NoJob
  <1>5. \A n \in ImportNo : Tally(n)
    BY DEF Tally, Undisturbed
  <1>6. ExportInv
    <2>1. ASSUME NEW n \in ImportNo PROVE exported[n] \in Exports(chosen[n])
      <3>1. exported[n] = <<>> /\ <<>> \in [{} -> chosen[n]]
        OBVIOUS
      <3> QED
        BY <3>1 DEF Exports
    <2> QED
      BY <2>1 DEF ExportInv
  <1> QED
    BY <1>1, <1>2, <1>3, <1>4, <1>5, <1>6 DEF IjInv

------------------------------------------------------------------------------
(* What a step does not disturb *)

LEMMA ImportNumbers == ImportNo \subseteq Nat
  BY ImportJobsAssumption DEF ImportNo

LEMMA DealtCounts ==
  ASSUME IjInv, NEW n \in ImportNo
  PROVE  /\ IsFiniteSet(chosen[n]) /\ IsFiniteSet(Dealt(n)) /\ IsFiniteSet(Dealt(n) \ got[n])
         /\ IsFiniteSet(tokens[n]) /\ IsFiniteSet(todo[n])
         /\ Cardinality(Dealt(n)) \in Nat /\ Cardinality(Dealt(n) \ got[n]) \in Nat
         /\ Cardinality(chosen[n]) \in Nat
         /\ thread[n] # "new" => Cardinality(chosen[n]) > 0
  <1>1. chosen[n] \subseteq Item /\ todo[n] \subseteq Item /\ tokens[n] \subseteq Item
    BY DEF IjInv, IjKindInv
  <1>2. IsFiniteSet(chosen[n]) /\ IsFiniteSet(todo[n]) /\ IsFiniteSet(tokens[n])
    BY <1>1, FS_Subset, ImportJobsAssumption
  <1>3. Dealt(n) \subseteq chosen[n] /\ Dealt(n) \ got[n] \subseteq chosen[n]
    BY DEF Dealt
  <1>4. IsFiniteSet(Dealt(n)) /\ IsFiniteSet(Dealt(n) \ got[n])
    BY <1>2, <1>3, FS_Subset
  <1>5. thread[n] # "new" => Cardinality(chosen[n]) # 0
    BY <1>2, FS_EmptySet DEF IjInv, DataInv
  <1>6. Cardinality(chosen[n]) \in Nat
    BY <1>2, FS_CardinalityType
  <1>7. Cardinality(Dealt(n)) \in Nat /\ Cardinality(Dealt(n) \ got[n]) \in Nat
    BY <1>4, FS_CardinalityType
  <1> QED
    BY <1>2, <1>4, <1>5, <1>6, <1>7

LEMMA SameExports == IjInv /\ exported' = exported /\ chosen' = chosen => ExportInv'
  BY DEF IjInv, ExportInv

LEMMA SamePool == UNCHANGED poolVars => Pooled' = Pooled
  BY DEF Pooled, poolVars

\* What an import shows, when only the pool grows.
LEMMA SameShows ==
  ASSUME NEW n \in ImportNo, NEW p, NEW j, ShowsAt(n, p, j), chosen'[n] = chosen[n],
         todo'[n] = todo[n], got'[n] = got[n], tokens'[n] = tokens[n], Pooled \subseteq Pooled'
  PROVE  ShowsAt(n, p, j)'
  <1>1. ASSUME NEW a, NEW b PROVE Counts(n, j, a, b) => Counts(n, j, a, b)'
    BY DEF Counts, Dealt
  <1>2. Accounted(n, j) => Accounted(n, j)'
    BY DEF Accounted
  <1> QED
    BY <1>1, <1>2 DEF ShowsAt

LEMMA OtherTally ==
  ASSUME NEW m \in ImportNo, Tally(m), Undisturbed(m)' => Undisturbed(m),
         chosen'[m] = chosen[m], todo'[m] = todo[m], got'[m] = got[m], tokens'[m] = tokens[m],
         thread'[m] = thread[m], goesOn'[m] = goesOn[m], updates'[m] = updates[m],
         read'[m] = read[m], remote'[m] = remote[m],
         Undisturbed(m)' => job'[remote[m]] = job[remote[m]], Pooled \subseteq Pooled'
  PROVE  Tally(m)'
  <1> SUFFICES ASSUME Undisturbed(m)'
               PROVE  /\ (thread[m] \in {"reread", "write"} => ShowsAt(m, goesOn[m], Merged(m)))'
                      /\ (thread[m] \notin {"reread", "write"} => ShowsAt(m, thread[m], job[remote[m]]))'
                      /\ (thread[m] = "write" => read[m] = job[remote[m]])'
                      /\ (job[remote[m]].total = Cardinality(chosen[m]))'
    BY DEF Tally
  <1>1. Merged(m)' = Merged(m)
    BY DEF Merged
  <1>2. PICK merged : merged = Merged(m)
    OBVIOUS
  <1>3. PICK now : now = job[remote[m]]
    OBVIOUS
  <1>4. PICK place, next : place = thread[m] /\ next = goesOn[m]
    OBVIOUS
  <1>5. place \in {"reread", "write"} => ShowsAt(m, next, merged)'
    BY <1>2, <1>4, SameShows DEF Tally
  <1>6. place \notin {"reread", "write"} => ShowsAt(m, place, now)'
    BY <1>3, <1>4, SameShows DEF Tally
  <1>7. (place = "write" => read[m] = now) /\ now.total = Cardinality(chosen[m])
    BY <1>3, <1>4 DEF Tally
  <1> QED
    BY <1>1, <1>2, <1>3, <1>4, <1>5, <1>6, <1>7 DEF ShowsAt, Counts, Accounted, Dealt

\* A step of an import between its reports: it changes what is its own, and the
\* pool; if it ends there, its death is noted.
LEMMA OwnStep ==
  ASSUME IjInv, NEW n \in ImportNo, NEW p \in Working \cup {"ended"}, p # "write",
         thread[n] \in Working, thread' = [thread EXCEPT ![n] = p],
         UNCHANGED <<remotes, job, remote, chosen, read>>,
         goesOn' \in [ImportNo -> Working \cup {"ended"}], DOMAIN updates' = ImportNo,
         {todo', got', tokens'} \subseteq [ImportNo -> SUBSET Item],
         \A m \in ImportNo \ {n} : /\ goesOn'[m] = goesOn[m] /\ updates'[m] = updates[m]
                                   /\ todo'[m] = todo[m] /\ got'[m] = got[m] /\ tokens'[m] = tokens[m],
         mixed \subseteq mixed', died \subseteq died', Pooled \subseteq Pooled',
         todo'[n] \subseteq chosen[n], Kept(n)', ExportInv',
         p = "reread" /\ goesOn'[n] = "ended" =>
           "status" \in DOMAIN updates'[n] /\ updates'[n].status \in {"failed", "completed"},
         p = "ended" => remote[n] \in died' \cap mixed',
         Undisturbed(n) => Tally(n)'
  PROVE  IjInv'
  <1> USE DEF IjInv, IjKindInv
  <1>0. "new" \notin Working /\ "ended" \notin Working /\ "new" # "ended"
    BY DEF Working
  <1>1. IjKindInv'
    OBVIOUS
  <1>2. \A m \in ImportNo : thread'[m] = "new" <=> thread[m] = "new"
    BY <1>0
  <1>3. OrderInv'
    BY <1>2 DEF OrderInv
  <1>4. DataInv'
    BY <1>0, <1>2 DEF DataInv, Kept
  <1>5. FinalInv'
    BY DEF FinalInv
  <1>6. AtWorkInv'
    <2>1. ASSUME NEW r \in remotes, r # remote[n] \/ p # "ended" PROVE Alive(r)' = Alive(r)
      BY <2>1, <1>0 DEF Alive
    <2> QED
      BY <2>1 DEF AtWorkInv
  <1>7. SoleInv'
    BY <1>0 DEF SoleInv
  <1>8. \A m \in ImportNo : Undisturbed(m)' => Undisturbed(m)
    BY <1>2 DEF Undisturbed
  <1>9. ASSUME NEW m \in ImportNo PROVE Tally(m)'
    <2>1. CASE m = n
      BY <1>8, <2>1 DEF Tally
    <2>2. CASE m # n
      BY <1>8, <2>2, OtherTally
    <2> QED
      BY <2>1, <2>2
  <1> QED
    BY <1>1, <1>3, <1>4, <1>5, <1>6, <1>7, <1>9

------------------------------------------------------------------------------
(* Reports *)

LEMMA MergeFields ==
  ASSUME NEW u, NEW j
  PROVE  /\ DOMAIN Merge(u, j) = DOMAIN NoJob
         /\ Merge(u, j).status = IF "status" \in DOMAIN u THEN u.status ELSE j.status
         /\ Merge(u, j).total = IF "total" \in DOMAIN u THEN u.total ELSE j.total
         /\ Merge(u, j).completed = IF "completed" \in DOMAIN u THEN u.completed ELSE j.completed
         /\ Merge(u, j).added = IF "added" \in DOMAIN u THEN u.added ELSE j.added
         /\ Merge(u, j).failed = IF "failed" \in DOMAIN u THEN u.failed ELSE j.failed
         /\ Merge(u, j).errors = IF "errors" \in DOMAIN u THEN u.errors ELSE j.errors
  BY DEF Merge, NoJob

\* A report of an undisturbed import: what is to be shown is shown by the job with it.
LEMMA ReportStep ==
  ASSUME IjInv, NEW n \in ImportNo, NEW u, NEW then \in Working \cup {"ended"},
         thread[n] \in Working, Report(n, u, then),
         UNCHANGED <<remotes, job, remote, chosen, read, todo, exported, got, tokens, poolVars, died, mixed>>,
         then = "ended" => "status" \in DOMAIN u /\ u.status \in {"failed", "completed"},
         Undisturbed(n) => ShowsAt(n, then, Merge(u, job[remote[n]]))
  PROVE  IjInv'
  <1> USE DEF Report
  <1>1. updates'[n] = u /\ goesOn'[n] = then /\ thread'[n] = "reread"
    BY DEF IjInv, IjKindInv
  <1>2. Undisturbed(n) => Tally(n)'
    <2>1. PICK j : j = Merge(u, job[remote[n]])
      OBVIOUS
    <2>2. Merged(n)' = j
      BY <1>1, <2>1 DEF Merged
    <2>3. Undisturbed(n) => ShowsAt(n, then, j)'
      BY <2>1, SameShows DEF Pooled, poolVars
    <2>4. Undisturbed(n) => (job[remote[n]].total = Cardinality(chosen[n]))'
      BY DEF IjInv, Tally
    <2> QED
      BY <1>1, <2>2, <2>3, <2>4 DEF Tally
  <1>3. goesOn' \in [ImportNo -> Working \cup {"ended"}] /\ DOMAIN updates' = ImportNo
        /\ {todo', got', tokens'} \subseteq [ImportNo -> SUBSET Item]
        /\ \A m \in ImportNo \ {n} : goesOn'[m] = goesOn[m] /\ updates'[m] = updates[m]
    BY DEF IjInv, IjKindInv
  <1>4. todo[n] \subseteq chosen[n] /\ Kept(n)
    BY DEF IjInv, DataInv
  <1>5. "reread" \in Working
    BY DEF Working
  <1> QED
    BY <1>1, <1>2, <1>3, <1>4, <1>5, OwnStep, SamePool, SameExports DEF Kept

LEMMA BeginKeeps ==
  ASSUME IjInv, NEW n \in ImportNo, Begin(n)
  PROVE  IjInv'
  <1> DEFINE u == [status |-> "running"]
             then == IF RemoteKind(remote[n]) = "cpa" THEN "fetch" ELSE "batch"
  <1>1. Undisturbed(n) => ShowsAt(n, then, Merge(u, job[remote[n]]))
    <2> SUFFICES ASSUME Undisturbed(n) PROVE ShowsAt(n, then, Merge(u, job[remote[n]]))
      OBVIOUS
    <2>1. Counts(n, job[remote[n]], 0, 0)
      BY DEF Begin, ImportStep, IjInv, Tally, ShowsAt
    <2>2. Counts(n, Merge(u, job[remote[n]]), 0, 0)
      BY <2>1, MergeFields DEF Counts
    <2> QED
      BY <2>2 DEF ShowsAt
  <1>2. thread[n] \in Working /\ then \in Working \cup {"ended"} /\ then # "ended"
    BY DEF Begin, ImportStep, Working
  <1> QED
    BY <1>1, <1>2, ReportStep DEF Begin, ImportStep, histVars

\* An import that has to go on without a report.
LEMMA GoingStep ==
  ASSUME IjInv, NEW n \in ImportNo, NEW p \in Working \cup {"ended"}, p \notin {"reread", "write"},
         thread[n] \in Working, GoesTo(n, p),
         UNCHANGED <<remotes, job, remote, chosen, read>>,
         {todo', got', tokens'} \subseteq [ImportNo -> SUBSET Item],
         \A m \in ImportNo \ {n} : todo'[m] = todo[m] /\ got'[m] = got[m] /\ tokens'[m] = tokens[m],
         mixed \subseteq mixed', died \subseteq died', Pooled \subseteq Pooled',
         todo'[n] \subseteq chosen[n], Kept(n)', ExportInv',
         p = "ended" => remote[n] \in died' \cap mixed',
         NEW j, j = job[remote[n]],
         Undisturbed(n) /\ p # "ended" => ShowsAt(n, p, j)'
  PROVE  IjInv'
  <1> USE DEF GoesTo
  <1>1. thread'[n] = p
    BY DEF IjInv, IjKindInv
  <1>2. Undisturbed(n) => Tally(n)'
    <2>1. (job[remote[n]])' = j
      OBVIOUS
    <2>2. Undisturbed(n)' => p # "ended"
      BY DEF Undisturbed
    <2>3. ASSUME Undisturbed(n), Undisturbed(n)' PROVE ShowsAt(n, thread[n], job[remote[n]])'
      BY <1>1, <2>1, <2>2, <2>3 DEF ShowsAt, Counts, Accounted, Dealt
    <2>4. Undisturbed(n) => (job[remote[n]].total = Cardinality(chosen[n]))'
      BY DEF IjInv, Tally
    <2> QED
      BY <1>1, <2>3, <2>4 DEF Tally
  <1>3. goesOn \in [ImportNo -> Working \cup {"ended"}] /\ DOMAIN updates = ImportNo
    BY DEF IjInv, IjKindInv
  <1> QED
    BY <1>2, <1>3, OwnStep

LEMMA BatchExportKeeps ==
  ASSUME IjInv, NEW n \in ImportNo, BatchExport(n)
  PROVE  IjInv'
  <1>1. PICK j : j = job[remote[n]]
    OBVIOUS
  <1>2. Undisturbed(n) => ShowsAt(n, "fetch", j)
    <2>1. Undisturbed(n) => Counts(n, j, 0, 0)
      BY <1>1 DEF BatchExport, ImportStep, IjInv, Tally, ShowsAt
    <2> QED
      BY <2>1 DEF ShowsAt
  <1>3. Undisturbed(n) => ShowsAt(n, "fetch", j)'
    BY <1>2, SameShows DEF BatchExport, ImportStep, Pooled, poolVars
  <1>4. /\ thread[n] \in Working /\ "fetch" \in Working
        /\ {todo', got', tokens'} \subseteq [ImportNo -> SUBSET Item]
        /\ todo'[n] \subseteq chosen[n] /\ Kept(n)'
    BY DEF BatchExport, ImportStep, Working, IjInv, IjKindInv, DataInv, Kept
  <1>5. ExportInv'
    BY DEF BatchExport, ImportStep, IjInv, ExportInv
  <1> QED
    BY <1>1, <1>3, <1>4, <1>5, SamePool, GoingStep DEF BatchExport, ImportStep, histVars

\* An account is dealt with: it is counted and, if it failed, noted afterwards.
LEMMA FetchedKeeps ==
  ASSUME IjInv, NEW n \in ImportNo, ImportStep(n, "fetch"), NEW item \in todo[n], NEW account \in Item,
         \/ TakeToken(n, item, account)
         \/ todo' = [todo EXCEPT ![n] = @ \ {item}] /\ GoesTo(n, "error") /\ UNCHANGED <<got, tokens>>,
         UNCHANGED <<exported, poolVars, histVars>>
  PROVE  IjInv'
  <1> USE DEF TakeToken, ImportStep, histVars
  <1>0. /\ thread[n] \in Working /\ "count" \in Working /\ "error" \in Working
        /\ todo[n] \subseteq chosen[n] /\ Kept(n) /\ got[n] \subseteq chosen[n] \ todo[n]
        /\ ExportInv' /\ Pooled \subseteq Pooled'
    BY DEF Working, IjInv, DataInv, Kept, ExportInv, Pooled, poolVars
  <1>1. PICK j : j = job[remote[n]]
    OBVIOUS
  <1>2. Undisturbed(n) => Counts(n, j, 0, 0)
    BY <1>1 DEF IjInv, Tally, ShowsAt
  <1>3. todo' = [todo EXCEPT ![n] = @ \ {item}] /\ todo' \in [ImportNo -> SUBSET Item]
    BY DEF IjInv, IjKindInv
  <1>4. PICK gone, missed : gone = Dealt(n) /\ missed = Dealt(n) \ got[n]
    OBVIOUS
  <1>5. /\ IsFiniteSet(gone) /\ IsFiniteSet(missed) /\ item \notin gone /\ item \notin missed
        /\ Cardinality(gone) \in Nat /\ Cardinality(missed) \in Nat
    BY <1>4, DealtCounts DEF Dealt
  <1>6. Cardinality(gone \cup {item}) = Cardinality(gone) + 1
    BY <1>5, FS_AddElement
  <1>7. Cardinality(missed \cup {item}) = Cardinality(missed) + 1
    BY <1>5, FS_AddElement
  <1>8. Dealt(n)' = gone \cup {item}
    BY <1>0, <1>3, <1>4 DEF Dealt, IjInv, IjKindInv
  <1>9. CASE TakeToken(n, item, account)
    <2>1. /\ {got', tokens'} \subseteq [ImportNo -> SUBSET Item] /\ got'[n] = got[n] \cup {item}
          /\ \A m \in ImportNo \ {n} : got'[m] = got[m] /\ tokens'[m] = tokens[m]
      BY <1>0, <1>9 DEF IjInv, IjKindInv
    <2>2. (Dealt(n) \ got[n])' = missed
      BY <1>4, <1>5, <1>8, <2>1
    <2>3. Undisturbed(n) => Counts(n, j, 1, 0)'
      BY <1>2, <1>4, <1>5, <1>6, <1>8, <2>2 DEF Counts
    <2>4. Undisturbed(n) => ShowsAt(n, "count", j)'
      BY <2>3 DEF ShowsAt
    <2>5. Kept(n)' /\ todo'[n] \subseteq chosen[n]
      BY <1>0, <1>3, <2>1 DEF IjInv, IjKindInv, Kept
    <2> QED
      BY <1>0, <1>1, <1>3, <1>9, <2>1, <2>4, <2>5, GoingStep
  <1>10. CASE GoesTo(n, "error") /\ UNCHANGED <<got, tokens>>
    <2>1. (Dealt(n) \ got[n])' = missed \cup {item}
      BY <1>0, <1>4, <1>5, <1>8, <1>10
    <2>2. Undisturbed(n) => Counts(n, j, 1, 1)'
      <3>1. Cardinality(Dealt(n))' = Cardinality(gone) + 1
        BY <1>6, <1>8
      <3>2. Cardinality(Dealt(n) \ got[n])' = Cardinality(missed) + 1
        BY <1>7, <2>1
      <3>3. Undisturbed(n) => j.completed + 0 = Cardinality(gone) /\ j.errors + 0 = Cardinality(missed)
        BY <1>2, <1>4 DEF Counts
      <3>4. Undisturbed(n) => /\ j.total = Cardinality(chosen[n]) /\ j.added = 0
                              /\ j.completed \in Nat /\ j.errors \in Nat
        BY <1>2 DEF Counts
      <3> QED
        BY <3>1, <3>2, <3>3, <3>4 DEF Counts
    <2>3. Undisturbed(n) => ShowsAt(n, "error", j)'
      BY <2>2 DEF ShowsAt
    <2>4. /\ {got, tokens} \subseteq [ImportNo -> SUBSET Item]
          /\ Kept(n)' /\ todo'[n] \subseteq chosen[n]
      BY <1>0, <1>3, <1>10 DEF IjInv, IjKindInv, Kept
    <2> QED
      BY <1>0, <1>1, <1>3, <1>10, <2>3, <2>4, GoingStep
  <1> QED
    BY <1>9, <1>10

LEMMA DownloadFileKeeps ==
  ASSUME IjInv, NEW n \in ImportNo, DownloadFile(n)
  PROVE  IjInv'
  <1>1. PICK id \in todo[n] : Fetch(n, id)
    BY DEF DownloadFile
  <1>2. id \in Item
    BY DEF IjInv, IjKindInv
  <1> QED
    BY <1>1, <1>2, FetchedKeeps DEF DownloadFile, Fetch

LEMMA FetchAccountKeeps ==
  ASSUME IjInv, NEW n \in ImportNo, FetchAccount(n)
  PROVE  IjInv'
  <1>1. PICK id \in todo[n] : \/ id \in DOMAIN exported[n] /\ TakeToken(n, id, exported[n][id])
                             \/ Fetch(n, id)
    BY DEF FetchAccount
  <1>2. id \in Item
    BY DEF IjInv, IjKindInv
  <1>3. id \in DOMAIN exported[n] => exported[n][id] \in Item
    BY DEF IjInv, IjKindInv, ExportInv, Exports
  <1> QED
    BY <1>1, <1>2, <1>3, FetchedKeeps DEF FetchAccount, Fetch

\* The job of an undisturbed import is there.
LEMMA JobIsThere ==
  ASSUME IjInv, NEW n \in ImportNo, Undisturbed(n), NEW a, NEW b, Counts(n, job[remote[n]], a, b)
  PROVE  GetJob(remote[n]) = job[remote[n]] /\ job[remote[n]] # NoJob
  <1>1. Cardinality(chosen[n]) > 0
    BY DealtCounts DEF Undisturbed
  <1> QED
    BY <1>1 DEF Undisturbed, GetJob, Counts, NoJob

LEMMA AppendErrorKeeps ==
  ASSUME IjInv, NEW n \in ImportNo, AppendError(n)
  PROVE  IjInv'
  <1> USE DEF AppendError, ImportStep, histVars
  <1>0. /\ thread[n] \in Working /\ "count" \in Working /\ "count" # "ended"
        /\ todo[n] \subseteq chosen[n] /\ Kept(n)
        /\ {todo', got', tokens'} \subseteq [ImportNo -> SUBSET Item]
    BY DEF Working, IjInv, IjKindInv, DataInv
  <1>1. PICK j : j = job[remote[n]]
    OBVIOUS
  <1>2. Undisturbed(n) => Counts(n, j, 1, 1) /\ GetJob(remote[n]) = j /\ j # NoJob
    <2>1. Undisturbed(n) => Counts(n, job[remote[n]], 1, 1)
      BY DEF IjInv, Tally, ShowsAt
    <2> QED
      BY <1>1, <2>1, JobIsThere
  <1>3. CASE GetJob(remote[n]) = NoJob
    BY <1>0, <1>1, <1>2, <1>3, SamePool, SameExports, GoingStep DEF Kept
  <1>4. CASE GetJob(remote[n]) # NoJob
    <2> DEFINE e == GetJob(remote[n]).errors + 1
               u == [errors |-> e, failed |-> e]
    <2>1. ASSUME Undisturbed(n) PROVE ShowsAt(n, "count", Merge(u, j))
      <3>1. Counts(n, Merge(u, j), 1, 0)
        BY <1>2, <2>1, MergeFields DEF Counts
      <3> QED
        BY <3>1 DEF ShowsAt
    <2>2. Report(n, u, "count")
      BY <1>4
    <2> HIDE DEF u
    <2> QED
      BY <1>0, <1>1, <2>1, <2>2, ReportStep
  <1> QED
    BY <1>3, <1>4

LEMMA CountItemKeeps ==
  ASSUME IjInv, NEW n \in ImportNo, CountItem(n)
  PROVE  IjInv'
  <1> USE DEF CountItem, ImportStep, histVars
  <1> DEFINE current == GetJob(remote[n])
             u == [completed |-> current.completed + 1, failed |-> current.errors]
             then == IF todo[n] = {} THEN "close" ELSE "fetch"
  <1>0. thread[n] \in Working /\ then \in Working /\ then # "ended"
    BY DEF Working
  <1>1. PICK j : j = job[remote[n]]
    OBVIOUS
  <1>2. Undisturbed(n) => Counts(n, j, 1, 0) /\ current = j
    <2>1. Undisturbed(n) => Counts(n, job[remote[n]], 1, 0)
      BY DEF IjInv, Tally, ShowsAt
    <2> QED
      BY <1>1, <2>1, JobIsThere
  <1>3. ASSUME Undisturbed(n) PROVE ShowsAt(n, then, Merge(u, j))
    <2>1. Counts(n, Merge(u, j), 0, 0)
      BY <1>2, <1>3, MergeFields DEF Counts
    <2> QED
      BY <2>1 DEF ShowsAt
  <1>4. Report(n, u, then)
    OBVIOUS
  <1> HIDE DEF u, then
  <1> QED
    BY <1>0, <1>1, <1>3, <1>4, ReportStep

LEMMA CloseImportKeeps ==
  ASSUME IjInv, NEW n \in ImportNo, CloseImport(n)
  PROVE  IjInv'
  <1> USE DEF CloseImport, ImportStep, histVars
  <1> DEFINE current == GetJob(remote[n])
             u == [status |-> "failed", completed |-> current.total, failed |-> current.errors]
  <1>0. /\ thread[n] \in Working /\ "add" \in Working /\ "add" # "ended"
        /\ todo[n] \subseteq chosen[n] /\ Kept(n)
        /\ {todo', got', tokens'} \subseteq [ImportNo -> SUBSET Item]
    BY DEF Working, IjInv, IjKindInv, DataInv
  <1>1. PICK j : j = job[remote[n]]
    OBVIOUS
  <1>2. Undisturbed(n) => Counts(n, j, 0, 0) /\ current = j /\ todo[n] = {}
    <2>1. Undisturbed(n) => Counts(n, job[remote[n]], 0, 0) /\ todo[n] = {}
      BY DEF IjInv, Tally, ShowsAt
    <2> QED
      BY <1>1, <2>1, JobIsThere
  <1>3. CASE got[n] = {}
    <2>1. ASSUME Undisturbed(n) PROVE ShowsAt(n, "ended", Merge(u, j))
      <3>1. Dealt(n) \ got[n] = chosen[n] \ got[n] /\ tokens[n] = {} /\ Cardinality(tokens[n]) = 0
        BY <1>0, <1>2, <1>3, <2>1, FS_EmptySet DEF Dealt, Kept
      <3>2. Counts(n, j, 0, 0) /\ current = j
        BY <1>2, <2>1
      <3>3. j.errors = Cardinality(chosen[n] \ got[n])
        <4>1. j.errors \in Nat /\ j.errors + 0 = Cardinality(Dealt(n) \ got[n])
          BY <3>2 DEF Counts
        <4>2. j.errors = Cardinality(Dealt(n) \ got[n])
          BY <4>1
        <4> QED
          BY <3>1, <4>2
      <3>4. Accounted(n, Merge(u, j))
        BY <1>3, <3>1, <3>2, <3>3, MergeFields DEF Counts, Accounted
      <3> QED
        BY <3>4 DEF ShowsAt
    <2>2. Report(n, u, "ended") /\ "status" \in DOMAIN u /\ u.status = "failed"
      BY <1>3
    <2> HIDE DEF u
    <2> QED
      BY <1>0, <1>1, <2>1, <2>2, ReportStep
  <1>4. CASE got[n] # {}
    <2>1. Undisturbed(n) => ShowsAt(n, "add", j)
      BY <1>2 DEF ShowsAt
    <2>2. Undisturbed(n) => ShowsAt(n, "add", j)'
      BY <2>1, SamePool, SameShows
    <2> QED
      BY <1>0, <1>1, <1>4, <2>2, SamePool, SameExports, GoingStep DEF Kept
  <1> QED
    BY <1>3, <1>4

LEMMA AddTokensKeeps ==
  ASSUME IjInv, NEW n \in ImportNo, AddTokens(n)
  PROVE  IjInv'
  <1> USE DEF AddTokens, ImportStep, histVars
  <1>0. /\ thread[n] \in Working /\ "refresh" \in Working /\ "refresh" # "ended"
        /\ todo[n] \subseteq chosen[n] /\ Kept(n)
        /\ {todo', got', tokens'} \subseteq [ImportNo -> SUBSET Item]
    BY DEF Working, IjInv, IjKindInv, DataInv
  <1>1. PICK j : j = job[remote[n]]
    OBVIOUS
  <1>2. Undisturbed(n) => Counts(n, j, 0, 0) /\ todo[n] = {}
    BY <1>1 DEF IjInv, Tally, ShowsAt
  <1>3. Undisturbed(n) => ShowsAt(n, "refresh", j)'
    BY <1>2 DEF ShowsAt, Counts, Dealt, Pooled
  <1>4. Pooled \subseteq Pooled'
    BY DEF Pooled
  <1> QED
    BY <1>0, <1>1, <1>3, <1>4, SameExports, GoingStep DEF Kept

LEMMA ImportDiesKeeps ==
  ASSUME IjInv, NEW n \in ImportNo, ImportDies(n)
  PROVE  IjInv'
  <1> USE DEF ImportDies, ImportStep
  <1>0. /\ thread[n] \in Working
        /\ todo[n] \subseteq chosen[n] /\ Kept(n)
        /\ {todo', got', tokens'} \subseteq [ImportNo -> SUBSET Item]
    BY DEF Working, IjInv, IjKindInv, DataInv
  <1>1. PICK j : j = job[remote[n]]
    OBVIOUS
  <1> QED
    BY <1>0, <1>1, SamePool, SameExports, GoingStep DEF Kept

LEMMA CompleteKeeps ==
  ASSUME IjInv, NEW n \in ImportNo, Complete(n)
  PROVE  IjInv'
  <1> USE DEF Complete, ImportStep, histVars
  <1> DEFINE u == [status |-> "completed", completed |-> Cardinality(chosen[n]),
                   added |-> Cardinality(tokens[n]), failed |-> GetJob(remote[n]).errors]
  <1>0. thread[n] \in Working
    BY DEF Working
  <1>1. PICK j : j = job[remote[n]]
    OBVIOUS
  <1>2. ASSUME Undisturbed(n) PROVE ShowsAt(n, "ended", Merge(u, j))
    <2>1. Counts(n, job[remote[n]], 0, 0) /\ todo[n] = {} /\ tokens[n] \subseteq Pooled
      BY <1>2 DEF IjInv, Tally, ShowsAt
    <2>2. Counts(n, j, 0, 0) /\ GetJob(remote[n]) = j
      BY <1>1, <1>2, <2>1, JobIsThere
    <2>3. Dealt(n) \ got[n] = chosen[n] \ got[n]
      BY <2>1 DEF Dealt
    <2>4. j.errors = Cardinality(chosen[n] \ got[n]) /\ j.total = Cardinality(chosen[n])
      <3>1. j.errors \in Nat /\ j.errors + 0 = Cardinality(Dealt(n) \ got[n])
        BY <2>2 DEF Counts
      <3>2. j.total = Cardinality(chosen[n])
        BY <2>2 DEF Counts
      <3>3. j.errors = Cardinality(Dealt(n) \ got[n])
        BY <3>1
      <3> QED
        BY <2>3, <3>2, <3>3
    <2>5. Accounted(n, Merge(u, j))
      BY <2>1, <2>2, <2>4, MergeFields DEF Accounted
    <2> QED
      BY <2>5 DEF ShowsAt
  <1>3. Report(n, u, "ended") /\ "status" \in DOMAIN u /\ u.status = "completed"
    OBVIOUS
  <1> HIDE DEF u
  <1> QED
    BY <1>0, <1>1, <1>2, <1>3, ReportStep

------------------------------------------------------------------------------
(* The writing of a report *)

\* A thread goes on: what other imports have in common with it stays as it was.
LEMMA GoesOnAlive ==
  ASSUME IjInv, NEW n \in ImportNo, NEW p \in Working \cup {"ended"}, thread[n] \in Working,
         thread' = [thread EXCEPT ![n] = p], UNCHANGED <<remotes, remote, mixed>>
  PROVE  /\ OrderInv' /\ SoleInv'
         /\ \A m \in ImportNo : (thread'[m] = "new" <=> thread[m] = "new")
                               /\ (Undisturbed(m)' <=> Undisturbed(m))
         /\ \A r \in Remote : r # remote[n] \/ p # "ended" => Alive(r)' = Alive(r)
  <1> USE DEF IjInv, IjKindInv
  <1>0. "new" \notin Working /\ "ended" \notin Working /\ "new" # "ended"
    BY DEF Working
  <1>1. \A m \in ImportNo : thread'[m] = "new" <=> thread[m] = "new"
    BY <1>0
  <1>2. OrderInv'
    BY <1>1 DEF OrderInv
  <1>3. SoleInv'
    BY <1>0 DEF SoleInv
  <1>4. \A m \in ImportNo : Undisturbed(m)' <=> Undisturbed(m)
    BY <1>1 DEF Undisturbed
  <1>5. \A r \in Remote : r # remote[n] \/ p # "ended" => Alive(r)' = Alive(r)
    BY <1>0 DEF Alive
  <1> QED
    BY <1>1, <1>2, <1>3, <1>4, <1>5

LEMMA ReadJobKeeps ==
  ASSUME IjInv, NEW n \in ImportNo, ReadJob(n)
  PROVE  IjInv'
  <1> USE DEF IjInv, IjKindInv
  <1>0. thread[n] \in Working /\ "write" \in Working /\ "reread" \in Working /\ "ended" \notin Working
    BY DEF ReadJob, Working
  <1>1. PICK p \in Working \cup {"ended"} :
          /\ p = IF GetJob(remote[n]) = NoJob THEN goesOn[n] ELSE "write"
          /\ thread' = [thread EXCEPT ![n] = p]
    BY <1>0 DEF ReadJob
  <1>2. /\ OrderInv' /\ SoleInv'
        /\ \A m \in ImportNo : (thread'[m] = "new" <=> thread[m] = "new")
                              /\ (Undisturbed(m)' <=> Undisturbed(m))
        /\ \A r \in Remote : r # remote[n] \/ p # "ended" => Alive(r)' = Alive(r)
    BY <1>0, <1>1, GoesOnAlive DEF ReadJob
  <1>3. IjKindInv'
    BY <1>1 DEF ReadJob
  <1>4. DataInv'
    BY <1>2 DEF ReadJob, DataInv, Kept
  <1>8. ExportInv'
    BY DEF ReadJob, ExportInv
  <1>5. FinalInv'
    BY <1>0, <1>1 DEF ReadJob, FinalInv
  <1>6. AtWorkInv'
    <2>1. p = "ended" /\ remote[n] \in remotes => job[remote[n]].status \notin Unfinished
      BY <1>1 DEF GetJob, NoJob, Unfinished
    <2> QED
      BY <1>2, <2>1 DEF ReadJob, AtWorkInv
  <1>7. ASSUME NEW m \in ImportNo PROVE Tally(m)'
    <2>1. CASE m # n
      BY <1>1, <1>2, <2>1, OtherTally DEF ReadJob, Pooled, poolVars
    <2>2. CASE m = n
      <3> SUFFICES ASSUME Undisturbed(n) PROVE Tally(n)'
        BY <1>2, <2>2 DEF Tally
      <3>1. GetJob(remote[n]) = job[remote[n]] /\ job[remote[n]] # NoJob
        <4>1. job[remote[n]].total > 0
          BY DealtCounts DEF Tally, Undisturbed
        <4> QED
          BY <4>1 DEF Undisturbed, GetJob, NoJob
      <3>2. thread[n] = "reread" /\ thread'[n] = "write" /\ read'[n] = job[remote[n]]
        BY <1>1, <3>1 DEF ReadJob
      <3>3. PICK j, place : j = Merged(n) /\ place = goesOn[n]
        OBVIOUS
      <3>4. ShowsAt(n, place, j)
        BY <3>2, <3>3 DEF Tally
      <3>5. ShowsAt(n, place, j)'
        BY <3>4, SameShows DEF ReadJob, Pooled, poolVars
      <3>6. Merged(n)' = j /\ goesOn'[n] = place
        BY <3>3 DEF ReadJob, Merged
      <3>7. (job[remote[n]].total = Cardinality(chosen[n]))'
        BY DEF ReadJob, Tally
      <3>8. ShowsAt(n, goesOn[n], Merged(n))'
        BY <3>5, <3>6 DEF ShowsAt, Counts, Accounted, Dealt
      <3> QED
        BY <3>2, <3>7, <3>8 DEF ReadJob, Tally
    <2> QED
      BY <2>1, <2>2
  <1> QED
    BY <1>2, <1>3, <1>4, <1>5, <1>6, <1>7, <1>8

LEMMA WriteJobKeeps ==
  ASSUME IjInv, NEW n \in ImportNo, WriteJob(n)
  PROVE  IjInv'
  <1> USE DEF IjInv, IjKindInv
  <1>0. thread[n] \in Working /\ "begin" \in Working /\ "ended" \notin Working
    BY DEF WriteJob, Working
  <1>1. PICK p \in Working \cup {"ended"} : p = goesOn[n] /\ thread' = [thread EXCEPT ![n] = p]
    BY DEF WriteJob
  <1>2. /\ OrderInv' /\ SoleInv'
        /\ \A m \in ImportNo : (thread'[m] = "new" <=> thread[m] = "new")
                              /\ (Undisturbed(m)' <=> Undisturbed(m))
        /\ \A r \in Remote : r # remote[n] \/ p # "ended" => Alive(r)' = Alive(r)
    BY <1>0, <1>1, GoesOnAlive DEF WriteJob
  <1>3. job' = IF remote[n] \in remotes THEN [job EXCEPT ![remote[n]] = Merge(updates[n], read[n])]
                                        ELSE job
    BY DEF WriteJob, Merge
  <1>4. IjKindInv'
    <2>1. DOMAIN job' = Remote /\ \A r \in Remote : DOMAIN job'[r] = DOMAIN NoJob
      BY <1>3, MergeFields
    <2>2. goesOn' \in [ImportNo -> Working \cup {"ended"}]
      BY <1>0 DEF WriteJob
    <2> QED
      BY <1>1, <2>1, <2>2 DEF WriteJob
  <1>5. DataInv'
    BY <1>2 DEF WriteJob, DataInv, Kept
  <1>9. ExportInv'
    BY DEF WriteJob, ExportInv
  <1>6. FinalInv'
    BY <1>0, <1>1 DEF WriteJob, FinalInv
  <1>7. AtWorkInv'
    <2>1. p = "ended" /\ remote[n] \in remotes => job'[remote[n]].status \notin Unfinished
      <3>1. p = "ended" => "status" \in DOMAIN updates[n] /\ updates[n].status \in {"failed", "completed"}
        BY <1>1 DEF WriteJob, FinalInv
      <3> QED
        BY <1>3, <3>1, MergeFields DEF Unfinished
    <2>2. \A r \in Remote : r # remote[n] => job'[r] = job[r]
      BY <1>3
    <2>3. p # "ended" => n \in Alive(remote[n])'
      BY <1>1 DEF WriteJob, Alive
    <2> QED
      BY <1>2, <2>1, <2>2, <2>3 DEF WriteJob, AtWorkInv
  <1>8. ASSUME NEW m \in ImportNo PROVE Tally(m)'
    <2>1. CASE m # n
      <3>1. Undisturbed(m) => remote[m] # remote[n]
        <4> SUFFICES ASSUME Undisturbed(m), remote[m] = remote[n] PROVE FALSE
          OBVIOUS
        <4>1. m < n
          BY <1>0, <2>1 DEF SoleInv, Undisturbed
        <4>2. thread[n] # "new"
          BY DEF WriteJob
        <4> QED
          BY <4>1, <4>2, ImportNumbers DEF Undisturbed
      <3>2. Undisturbed(m)' => job'[remote[m]] = job[remote[m]]
        BY <1>2, <1>3, <3>1
      <3> QED
        BY <1>1, <1>2, <2>1, <3>2, OtherTally DEF WriteJob, Pooled, poolVars
    <2>2. CASE m = n
      <3> SUFFICES ASSUME Undisturbed(n) PROVE Tally(n)'
        BY <1>2, <2>2 DEF Tally
      <3>1. PICK j : j = Merged(n)
        OBVIOUS
      <3>2. ShowsAt(n, p, j)
        BY <1>1, <3>1 DEF WriteJob, Tally
      <3>3. job'[remote[n]] = j
        BY <1>3, <3>1 DEF WriteJob, Tally, Merged, Undisturbed
      <3>4. ShowsAt(n, p, j)'
        BY <3>2, SameShows DEF WriteJob, Pooled, poolVars
      <3>5. p \notin {"reread", "write"} /\ thread'[n] = p
        BY <1>1, <3>2 DEF ShowsAt
      <3>6. j.total = Cardinality(chosen[n])
        BY <1>1, <3>2 DEF ShowsAt, Counts, Accounted, Working
      <3>7. remote' = remote /\ chosen' = chosen
        BY DEF WriteJob
      <3>8. ShowsAt(n, thread[n], job[remote[n]])'
        BY <3>3, <3>4, <3>5, <3>7 DEF ShowsAt, Counts, Accounted, Dealt
      <3> QED
        BY <3>3, <3>5, <3>6, <3>7, <3>8 DEF Tally
    <2> QED
      BY <2>1, <2>2
  <1> QED
    BY <1>2, <1>4, <1>5, <1>6, <1>7, <1>8, <1>9

------------------------------------------------------------------------------
(* Beginnings, administrators and restarts *)

LEMMA StartKeeps ==
  ASSUME IjInv, NEW n \in ImportNo, NEW k, StartImport(n, k)
  PROVE  IjInv'
  <1> USE DEF IjInv, IjKindInv
  <1>0. "begin" \in Working /\ "new" \notin Working /\ "ended" \notin Working /\ "reread" # "begin"
        /\ "write" # "begin"
    BY DEF Working
  <1>1. PICK r \in remotes :
          /\ job' = [job EXCEPT ![r] = [NoJob EXCEPT !.status = "pending", !.total = Cardinality(chosen[n])]]
          /\ mixed' = IF Alive(r) = {} THEN mixed \ {r} ELSE mixed \cup {r}
          /\ died' = died \ {r}
          /\ remote' = [remote EXCEPT ![n] = r]
    BY DEF StartImport
  <1>2. /\ thread[n] = "new" /\ \A m \in 1..(n - 1) : thread[m] # "new"
        /\ chosen[n] # {} /\ todo' = [todo EXCEPT ![n] = chosen[n]]
        /\ thread' = [thread EXCEPT ![n] = "begin"]
        /\ UNCHANGED <<remotes, chosen, exported, got, tokens, updates, read, goesOn, poolVars, changes>>
    BY DEF StartImport
  <1>3. /\ remote'[n] = r /\ thread'[n] = "begin" /\ todo'[n] = chosen[n]
        /\ \A m \in ImportNo \ {n} : remote'[m] = remote[m] /\ thread'[m] = thread[m] /\ todo'[m] = todo[m]
    BY <1>1, <1>2
  <1>4. \A m \in ImportNo : n < m => thread[m] = "new"
    BY <1>2 DEF OrderInv
  <1>5. IjKindInv'
    <2>1. \A q \in Remote : DOMAIN job'[q] = DOMAIN NoJob
      BY <1>1
    <2> QED
      BY <1>0, <1>1, <1>2, <2>1
  <1>6. OrderInv'
    <2> SUFFICES ASSUME NEW a \in ImportNo, NEW b \in ImportNo, thread'[a] = "new", a < b
                 PROVE  thread'[b] = "new"
      BY DEF OrderInv
    <2>1. a # n /\ thread[a] = "new"
      BY <1>0, <1>3
    <2>2. b # n
      BY <1>2, <2>1, ImportNumbers DEF ImportNo
    <2> QED
      BY <1>3, <2>1, <2>2 DEF OrderInv
  <1>7. DataInv' /\ ExportInv'
    BY <1>0, <1>2, <1>3 DEF DataInv, Kept, ExportInv
  <1>8. FinalInv'
    BY <1>0, <1>2, <1>3 DEF FinalInv
  <1>9. AtWorkInv'
    <2>1. n \in Alive(r)'
      BY <1>0, <1>3 DEF Alive
    <2>2. ASSUME NEW q \in remotes, q # r PROVE Alive(q)' = Alive(q) /\ job'[q] = job[q]
      BY <1>0, <1>1, <1>2, <1>3, <2>2 DEF Alive
    <2> QED
      BY <1>1, <1>2, <2>1, <2>2 DEF AtWorkInv
  <1>10. SoleInv'
    <2> SUFFICES ASSUME NEW a \in ImportNo, NEW b \in ImportNo, remote'[a] \notin mixed',
                        thread'[a] \in Working, b # a, remote'[b] = remote'[a]
                 PROVE  thread'[b] = "new" \/ (b < a /\ thread'[b] = "ended")
      BY DEF SoleInv
    <2>1. \A m \in ImportNo \ {n} : remote[m] = r /\ thread[m] \in Working => r \in mixed'
      BY <1>1 DEF Alive
    <2>2. CASE a = n
      <3>1. remote[b] = r /\ thread'[b] = thread[b] /\ thread[b] \notin Working
        BY <1>3, <2>1, <2>2
      <3>2. CASE thread[b] = "new"
        BY <3>1, <3>2
      <3>3. CASE thread[b] = "ended"
        BY <1>4, <2>2, <3>1, <3>3, ImportNumbers
      <3> QED
        BY <3>1, <3>2, <3>3
    <2>3. CASE b = n
      BY <1>3, <2>1, <2>3
    <2>4. CASE a # n /\ b # n
      <3>1. remote[a] # r
        BY <1>3, <2>1, <2>4
      <3>2. remote[a] \notin mixed
        BY <1>1, <1>3, <2>4, <3>1
      <3> QED
        BY <1>3, <2>4, <3>2 DEF SoleInv
    <2> QED
      BY <2>2, <2>3, <2>4
  <1>11. ASSUME NEW m \in ImportNo PROVE Tally(m)'
    <2>1. CASE m = n
      <3> PICK j : j = job'[r]
        OBVIOUS
      <3>1. j.total = Cardinality(chosen[n]) /\ j.added = 0 /\ j.completed = 0 /\ j.errors = 0
        BY <1>1 DEF NoJob
      <3>2. Dealt(n)' = {} /\ (Dealt(n) \ got[n])' = {}
        BY <1>2, <1>3 DEF Dealt
      <3>3. Cardinality(Dealt(n))' = 0 /\ Cardinality(Dealt(n) \ got[n])' = 0
        BY <3>2, FS_EmptySet
      <3>4. Counts(n, j, 0, 0)'
        BY <1>2, <3>1, <3>3 DEF Counts
      <3>5. ShowsAt(n, "begin", j)'
        BY <3>4 DEF ShowsAt
      <3>6. ShowsAt(n, thread[n], job[remote[n]])'
        BY <1>3, <3>5 DEF ShowsAt, Counts, Accounted, Dealt
      <3>7. (job[remote[n]].total = Cardinality(chosen[n]))'
        BY <1>2, <1>3, <3>1
      <3> QED
        BY <1>0, <1>3, <2>1, <3>6, <3>7 DEF Tally
    <2>2. CASE m # n
      <3>1. Undisturbed(m)' => remote[m] # r
        <4> SUFFICES ASSUME Undisturbed(m)', remote[m] = r PROVE FALSE
          OBVIOUS
        <4>1. thread[m] # "new"
          BY <1>3, <2>2 DEF Undisturbed
        <4>2. m < n
          BY <1>4, <2>2, <4>1, ImportNumbers
        <4> QED
          BY <1>0, <1>3, <2>2, <4>2 DEF Undisturbed
      <3>2. Undisturbed(m)' => Undisturbed(m)
        BY <1>0, <1>1, <1>2, <1>3, <2>2, <3>1 DEF Undisturbed
      <3>3. Undisturbed(m)' => job'[remote[m]] = job[remote[m]]
        BY <1>1, <3>1
      <3> QED
        BY <1>2, <1>3, <2>2, <3>2, <3>3, OtherTally DEF Pooled, poolVars
    <2> QED
      BY <2>1, <2>2
  <1> QED
    BY <1>5, <1>6, <1>7, <1>8, <1>9, <1>10, <1>11

LEMMA SettledJob ==
  ASSUME NEW j, DOMAIN j = DOMAIN NoJob
  PROVE  /\ DOMAIN Settled(j) = DOMAIN NoJob /\ Settled(j).status \notin Unfinished
         /\ Settled(j).total = j.total /\ Settled(j).completed = j.completed
         /\ Settled(j).added = j.added /\ Settled(j).failed = j.failed
  BY DEF Settled, Unfinished, NoJob

LEMMA EditRemoteKeeps ==
  ASSUME IjInv, EditRemote
  PROVE  IjInv'
  <1> USE DEF IjInv, IjKindInv
  <1>1. PICK r \in remotes : job' = [job EXCEPT ![r] = Settled(@)] /\ mixed' = mixed \cup {r}
    BY DEF EditRemote
  <1>2. UNCHANGED <<remotes, importVars, poolVars, died>>
    BY DEF EditRemote
  <1>3. IjKindInv'
    <2>1. DOMAIN Settled(job[r]) = DOMAIN NoJob
      BY SettledJob
    <2> QED
      BY <1>1, <1>2, <2>1 DEF importVars
  <1>4. OrderInv' /\ DataInv' /\ ExportInv' /\ FinalInv' /\ SoleInv'
    BY <1>1, <1>2 DEF importVars, OrderInv, DataInv, FinalInv, SoleInv, ExportInv, Kept
  <1>5. AtWorkInv'
    <2>1. job'[r].status \notin Unfinished
      BY <1>1, SettledJob
    <2>2. \A q \in remotes : Alive(q)' = Alive(q) /\ (q # r => job'[q] = job[q])
      BY <1>1, <1>2 DEF importVars, Alive
    <2> QED
      BY <1>2, <2>1, <2>2 DEF AtWorkInv
  <1>6. ASSUME NEW m \in ImportNo PROVE Tally(m)'
    <2>1. Undisturbed(m)' => Undisturbed(m) /\ job'[remote[m]] = job[remote[m]]
      BY <1>1, <1>2 DEF importVars, Undisturbed
    <2> QED
      BY <1>2, <2>1, OtherTally DEF importVars, Pooled, poolVars
  <1> QED
    BY <1>3, <1>4, <1>5, <1>6

LEMMA DeleteRemoteKeeps ==
  ASSUME IjInv, DeleteRemote
  PROVE  IjInv'
  <1> USE DEF IjInv, IjKindInv
  <1>1. PICK r \in remotes : remotes' = remotes \ {r} /\ job' = [job EXCEPT ![r] = NoJob]
    BY DEF DeleteRemote
  <1>2. UNCHANGED <<importVars, poolVars, histVars>>
    BY DEF DeleteRemote
  <1>3. IjKindInv'
    BY <1>1, <1>2 DEF importVars
  <1>4. OrderInv' /\ DataInv' /\ ExportInv' /\ FinalInv' /\ SoleInv'
    BY <1>1, <1>2 DEF importVars, histVars, OrderInv, DataInv, FinalInv, SoleInv, ExportInv, Kept
  <1>5. AtWorkInv'
    BY <1>1, <1>2 DEF importVars, histVars, Alive, AtWorkInv
  <1>6. ASSUME NEW m \in ImportNo PROVE Tally(m)'
    <2>1. Undisturbed(m)' => Undisturbed(m) /\ job'[remote[m]] = job[remote[m]]
      BY <1>1, <1>2 DEF importVars, histVars, Undisturbed
    <2> QED
      BY <1>2, <2>1, OtherTally DEF importVars, Pooled, poolVars
  <1> QED
    BY <1>3, <1>4, <1>5, <1>6

LEMMA RestartImportsKeeps ==
  ASSUME IjInv, RestartImports
  PROVE  IjInv'
  <1> USE DEF IjInv, IjKindInv
  <1>0. "new" \notin Working /\ "ended" \notin Working /\ "new" # "ended"
        /\ "reread" # "ended" /\ "write" # "ended"
    BY DEF Working
  <1>1. /\ job' = [r \in Remote |-> Settled(job[r])]
        /\ mixed' = mixed \cup {r \in Remote : Alive(r) # {}}
        /\ thread' = [n \in ImportNo |-> IF thread[n] = "new" THEN "new" ELSE "ended"]
        /\ updates' = [n \in ImportNo |-> <<>>] /\ read' = [n \in ImportNo |-> NoJob]
        /\ UNCHANGED <<remotes, remote, chosen, todo, exported, got, tokens, goesOn, poolVars, died>>
    BY DEF RestartImports
  <1>2. \A r \in Remote : /\ DOMAIN job'[r] = DOMAIN NoJob /\ job'[r].status \notin Unfinished
                          /\ job'[r].total = job[r].total /\ job'[r].completed = job[r].completed
                          /\ job'[r].added = job[r].added /\ job'[r].failed = job[r].failed
    BY <1>1, SettledJob
  <1>3. IjKindInv'
    BY <1>1, <1>2
  <1>4. OrderInv' /\ DataInv' /\ ExportInv' /\ FinalInv'
    BY <1>0, <1>1 DEF OrderInv, DataInv, FinalInv, ExportInv, Kept
  <1>5. SoleInv'
    BY <1>0, <1>1 DEF SoleInv
  <1>6. AtWorkInv'
    BY <1>1, <1>2 DEF AtWorkInv
  <1>7. ASSUME NEW m \in ImportNo, Undisturbed(m)' PROVE Tally(m)'
    <2>1. thread[m] # "new" /\ thread'[m] = "ended" /\ remote[m] \notin mixed'
      BY <1>1, <1>7 DEF Undisturbed
    <2>2. thread[m] = "ended"
      <3>1. m \notin Alive(remote[m])
        BY <1>1, <2>1
      <3> QED
        BY <2>1, <3>1 DEF Alive
    <2>3. Undisturbed(m)
      BY <1>0, <1>1, <1>7, <2>1 DEF Undisturbed
    <2>4. Accounted(m, job[remote[m]]) /\ job[remote[m]].total = Cardinality(chosen[m])
      BY <1>0, <2>2, <2>3 DEF Tally, ShowsAt
    <2>5. Accounted(m, job[remote[m]])' /\ (job[remote[m]].total = Cardinality(chosen[m]))'
      BY <1>1, <1>2, <2>4 DEF Accounted, Pooled, poolVars
    <2>6. ShowsAt(m, thread[m], job[remote[m]])'
      BY <2>1, <2>5 DEF ShowsAt
    <2> QED
      BY <1>0, <2>1, <2>5, <2>6 DEF Tally
  <1> QED
    BY <1>3, <1>4, <1>5, <1>6, <1>7 DEF Tally

LEMMA AccountLeavesKeeps ==
  ASSUME IjInv, AccountLeaves
  PROVE  IjInv'
  <1> USE DEF IjInv, IjKindInv, AccountLeaves, importVars, histVars
  <1>1. IjKindInv' /\ OrderInv' /\ DataInv' /\ ExportInv' /\ FinalInv' /\ AtWorkInv' /\ SoleInv'
    BY DEF OrderInv, DataInv, Kept, ExportInv, FinalInv, AtWorkInv, SoleInv, Alive
  <1>2. Pooled \subseteq Pooled'
    BY DEF Pooled
  <1>3. \A m \in ImportNo : Tally(m)'
    BY <1>2, OtherTally DEF Undisturbed
  <1> QED
    BY <1>1, <1>3

LEMMA IjStepInv == IjInv /\ [ImportsNext]_ijVars => IjInv'
  <1> SUFFICES ASSUME IjInv, [ImportsNext]_ijVars PROVE IjInv'
    OBVIOUS
  <1>1. CASE UNCHANGED ijVars
    <2> USE <1>1 DEF ijVars, importVars, IjInv
    <2>1. IjKindInv'
      BY DEF IjKindInv
    <2>2. OrderInv' /\ DataInv' /\ ExportInv' /\ FinalInv' /\ SoleInv'
      BY DEF OrderInv, DataInv, FinalInv, SoleInv, ExportInv, Kept
    <2>3. AtWorkInv'
      BY DEF AtWorkInv, Alive
    <2>4. ASSUME NEW m \in ImportNo PROVE Tally(m)'
      BY OtherTally DEF Undisturbed, Pooled, poolVars
    <2> QED
      BY <2>1, <2>2, <2>3, <2>4
  <1>2. ASSUME NEW n \in ImportNo, Imports(n) PROVE IjInv'
    BY <1>2, StartKeeps, BeginKeeps, BatchExportKeeps, DownloadFileKeeps, FetchAccountKeeps,
       AppendErrorKeeps, CountItemKeeps, CloseImportKeeps, AddTokensKeeps, ImportDiesKeeps,
       CompleteKeeps, ReadJobKeeps, WriteJobKeeps DEF Imports, StartCpaImport, StartSub2apiImport
  <1>3. CASE EditRemote \/ DeleteRemote \/ RestartImports
    BY <1>3, EditRemoteKeeps, DeleteRemoteKeeps, RestartImportsKeeps
  <1>4. CASE AccountLeaves
    BY <1>4, AccountLeavesKeeps
  <1> QED
    BY <1>1, <1>2, <1>3, <1>4 DEF ImportsNext

\* A job is shown at work only while an import is, or after one died; and an import that
\* nothing disturbed accounts for each of its accounts, for any number of imports, remotes
\* and accounts.
THEOREM JobsAreAlwaysHonest == ImportsSpec => []JobsAreHonest
  <1>1. IjInv => JobsAreHonest
    <2> SUFFICES ASSUME IjInv PROVE JobsAreHonest
      OBVIOUS
    <2>1. \A r \in remotes : job[r].status \in Unfinished => Alive(r) # {} \/ r \in died
      BY DEF IjInv, AtWorkInv
    <2>2. ASSUME NEW n \in ImportNo, Undisputed(n)
          PROVE  Accounted(n, job[remote[n]])
      <3>1. Undisturbed(n) /\ Tally(n) /\ thread[n] = "ended"
        BY <2>2 DEF Undisputed, Undisturbed, IjInv
      <3> QED
        BY <2>2, <3>1 DEF Tally, ShowsAt
    <2> QED
      BY <2>1, <2>2 DEF JobsAreHonest, Accounted, Undisputed, Pooled
  <1> QED
    BY <1>1, IjInitInv, IjStepInv, PTL DEF ImportsSpec

==============================================================================
