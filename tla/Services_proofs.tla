---------------------------- MODULE Services_proofs ----------------------------
(***************************************************************************)
(* Proofs about parts of MCBackground and MCServing: the background tasks, *)
(* the log, the places of a proxy group's nodes, the workers that register *)
(* accounts, and the stored images.                                        *)
(***************************************************************************)
EXTENDS TaskManager, LogStore, ProxyEgress, RegisterWorker, Gallery, Integers,
        SequenceTheorems, FiniteSetTheorems, FunctionTheorems, WellFoundedInduction, TLAPS

------------------------------------------------------------------------------
(* Background tasks (TaskManager)                                          *)
(*                                                                         *)
(* What holds of the background tasks for any number of tiers and tasks,   *)
(* any batch size and any size of the registry: one running task per tier, *)
(* every running task reachable, the registry bounded and never losing a   *)
(* recent task, final statuses that tell the truth and stay, cancelled     *)
(* tasks that end between two batches.                                     *)
(*                                                                         *)
(* Exclusion is not inductive by itself.  Submit looks only at the task    *)
(* that _running names, and only if the registry still holds it; that no   *)
(* other task of the tier runs follows from RunningIsReachable.            *)

\* How far a body has come, at every point of its loop.
Progress ==
  /\ \A i \in Task : processed[i] + left[i] <= total[i]
  /\ \A i \in Task : status[i] = "new" =>
       ~cancel[i] /\ processed[i] = 0 /\ left[i] = 0

IInv == TypeOK /\ RunningIsReachable /\ Progress /\ StatusTellsProgress

LEMMA InitIInv == Init => IInv
<1> SUFFICES ASSUME Init PROVE IInv
  OBVIOUS
<1>1. (CHOOSE t \in Tier : TRUE) \in Tier
  BY TaskAssumption
<1>2. TypeOK
  BY <1>1, TaskAssumption DEF Init, TypeOK, Task, NoTask, Ended
<1>3. RunningIsReachable /\ Progress /\ StatusTellsProgress
  BY DEF Init, RunningIsReachable, Progress, StatusTellsProgress
<1> QED
  BY <1>2, <1>3 DEF IInv

\* The newest of some tasks is never among the surplus.
LEMMA NewestIsKept ==
  ASSUME NEW n \in Nat, NEW tasks \in SUBSET (1..n), n \in tasks
  PROVE  n \notin Surplus(tasks)
<1>1. {j \in tasks : j > n} = {}
  <2>1. \A j \in tasks : j \in 1..n
    OBVIOUS
  <2>2. \A j \in 1..n : ~(j > n)
    OBVIOUS
  <2> QED
    BY <2>1, <2>2
<1>2. Cardinality({j \in tasks : j > n}) = 0
  BY <1>1, FS_EmptySet
<1> QED
  BY <1>2, TaskAssumption DEF Surplus

LEMMA SubmitIInv ==
  ASSUME IInv, NEW t \in Tier, NEW n \in Totals, Submit(t, n)
  PROVE  IInv'
<1> DEFINE new == created + 1
           tasks == registered \cup {new}
<1>1. /\ new \in Task /\ created' = new
      /\ status' = [status EXCEPT ![new] = "running"]
      /\ registered' = {i \in tasks : i \in Surplus(tasks) => status'[i] = "running"}
      /\ running' = [running EXCEPT ![t] = new]
      /\ tier' = [tier EXCEPT ![new] = t]
      /\ total' = [total EXCEPT ![new] = n]
      /\ UNCHANGED <<cancel, processed, left>>
      /\ ~TierBusy(t)
  BY TaskAssumption DEF Submit, IInv, TypeOK, Task
<1>2. tasks \in SUBSET (1..new) /\ new \in Nat /\ new \in tasks
  BY <1>1 DEF IInv, TypeOK, Task
<1>3. status[new] = "new" /\ new \notin registered /\ n \in Nat
  BY <1>1, TaskAssumption DEF IInv, TypeOK, Task
<1>4. new \in registered'
  BY <1>1, <1>2 DEF IInv, TypeOK
<1>5. TypeOK'
  <2>1. /\ created' \in 0..MaxTasks
        /\ registered' \subseteq 1..created'
        /\ 0..created \subseteq 0..created'
    <3>1. created \in Nat /\ created' \in 0..MaxTasks
      BY <1>1, TaskAssumption DEF IInv, TypeOK, Task
    <3>2. registered' \subseteq tasks
      BY <1>1
    <3>3. tasks \subseteq 1..created'
      BY <1>1, <1>2
    <3>4. 0..created \subseteq 0..created'
      BY <1>1, <3>1
    <3> QED
      BY <3>1, <3>2, <3>3, <3>4
  <2>2. running' \in [Tier -> 0..created']
    BY <1>1, <2>1 DEF IInv, TypeOK, Task
  <2>3. \A i \in Task : status'[i] = "new" <=> i > created'
    BY <1>1 DEF IInv, TypeOK, Task
  <2>4. /\ tier' \in [Task -> Tier]
        /\ status' \in [Task -> {"new", "running"} \cup Ended]
        /\ total' \in [Task -> Nat]
    BY <1>1, <1>3 DEF IInv, TypeOK
  <2> QED
    BY <1>1, <2>1, <2>2, <2>3, <2>4 DEF IInv, TypeOK
<1>6. RunningIsReachable'
  <2> SUFFICES ASSUME NEW i \in Task, status'[i] = "running"
               PROVE  i \in registered' /\ running'[tier'[i]] = i
    BY DEF RunningIsReachable
  <2>1. CASE i = new
    BY <1>1, <1>4, <2>1 DEF IInv, TypeOK
  <2>2. CASE i # new
    <3>1. status[i] = "running" /\ tier'[i] = tier[i]
      BY <1>1, <2>2 DEF IInv, TypeOK
    <3>2. i \in registered /\ running[tier[i]] = i
      BY <3>1 DEF IInv, RunningIsReachable
    <3>3. tier[i] # t
      BY <1>1, <3>1, <3>2 DEF TierBusy
    <3> QED
      BY <1>1, <3>1, <3>2, <3>3 DEF IInv, TypeOK
  <2> QED
    BY <2>1, <2>2
<1>7. Progress'
  BY <1>1, <1>3, <1>5 DEF IInv, TypeOK, Progress
<1>8. StatusTellsProgress'
  BY <1>1 DEF IInv, TypeOK, StatusTellsProgress
<1> QED
  BY <1>5, <1>6, <1>7, <1>8 DEF IInv

LEMMA TaskStepIInv ==
  ASSUME IInv, NEW i \in Task, RequestCancel(i) \/ BodyStep(i) \/ Fail(i)
  PROVE  IInv'
<1> USE DEF IInv
<1>1. CASE RequestCancel(i)
  <2>1. TypeOK'
    BY <1>1 DEF RequestCancel, TypeOK
  <2>2. RunningIsReachable'
    BY <1>1 DEF RequestCancel, RunningIsReachable
  <2>3. status[i] # "new"
    <3>1. created \in Nat /\ i \in Nat /\ ~(i > created)
      BY <1>1, TaskAssumption DEF RequestCancel, TypeOK, Task
    <3> QED
      BY <3>1 DEF TypeOK
  <2>4. Progress'
    BY <1>1, <2>3 DEF RequestCancel, Progress, TypeOK
  <2>5. StatusTellsProgress'
    BY <1>1 DEF RequestCancel, TypeOK, StatusTellsProgress
  <2> QED
    BY <2>1, <2>2, <2>4, <2>5
<1>2. CASE StartBatch(i)
  <2> DEFINE rest == total[i] - processed[i]
  <2>1. /\ left' = [left EXCEPT ![i] = IF rest < BatchSize THEN rest ELSE BatchSize]
        /\ UNCHANGED <<created, registered, running, tier, status, cancel, total, processed>>
        /\ status[i] = "running" /\ processed[i] < total[i]
    BY <1>2 DEF StartBatch, AtBoundary
  <2>2. rest \in Nat /\ total[i] \in Nat /\ processed[i] \in Nat
    BY <2>1 DEF TypeOK
  <2>3. left'[i] \in 0..BatchSize /\ processed[i] + left'[i] <= total[i]
    BY <2>1, <2>2, TaskAssumption DEF TypeOK
  <2>4. TypeOK'
    BY <2>1, <2>3 DEF TypeOK
  <2>5. Progress'
    BY <2>1, <2>3 DEF TypeOK, Progress
  <2> QED
    BY <2>1, <2>4, <2>5 DEF RunningIsReachable, StatusTellsProgress
<1>3. CASE Work(i)
  <2>1. PICK n \in 1..left[i] : /\ left' = [left EXCEPT ![i] = @ - n]
                                /\ processed' = [processed EXCEPT ![i] = @ + n]
    BY <1>3 DEF Work
  <2>2. /\ UNCHANGED <<created, registered, running, tier, status, cancel, total>>
        /\ status[i] = "running"
    BY <1>3 DEF Work
  <2>3. /\ left[i] \in 0..BatchSize /\ processed[i] \in Nat
        /\ left'[i] \in 0..BatchSize /\ processed'[i] \in Nat
        /\ processed'[i] + left'[i] = processed[i] + left[i]
    BY <2>1, TaskAssumption DEF TypeOK
  <2>4. TypeOK'
    BY <2>1, <2>2, <2>3 DEF TypeOK
  <2>5. Progress'
    BY <2>1, <2>2, <2>3 DEF TypeOK, Progress
  <2>6. StatusTellsProgress'
    BY <2>1, <2>2 DEF TypeOK, StatusTellsProgress
  <2> QED
    BY <2>2, <2>4, <2>5, <2>6 DEF RunningIsReachable
<1>4. CASE Stop(i)
  BY <1>4 DEF Stop, AtBoundary, body, TypeOK, RunningIsReachable, Progress, StatusTellsProgress, Ended
<1>5. CASE Complete(i)
  BY <1>5 DEF Complete, AtBoundary, body, TypeOK, RunningIsReachable, Progress, StatusTellsProgress, Ended
<1>6. CASE Fail(i)
  BY <1>6 DEF Fail, body, TypeOK, RunningIsReachable, Progress, StatusTellsProgress, Ended
<1> QED
  BY <1>1, <1>2, <1>3, <1>4, <1>5, <1>6 DEF BodyStep

LEMMA NextIInv == IInv /\ [Next]_vars => IInv'
<1> SUFFICES ASSUME IInv, [Next]_vars PROVE IInv'
  OBVIOUS
<1>1. CASE Next
  BY <1>1, SubmitIInv, TaskStepIInv DEF Next
<1>2. CASE UNCHANGED vars
  BY <1>2 DEF vars, IInv, TypeOK, RunningIsReachable, Progress, StatusTellsProgress
<1> QED
  BY <1>1, <1>2

LEMMA Invariance == Spec => []IInv
BY InitIInv, NextIInv, PTL DEF Spec

------------------------------------------------------------------------------
(* The results that follow from IInv. *)

\* Every variable keeps its type.
THEOREM TypeCorrect == Spec => []TypeOK
BY Invariance, PTL DEF IInv

\* Every task whose thread is alive is in the registry and named by its tier, so
\* that it can be polled and cancelled (submit prunes only what does not run).
THEOREM RunningReachable == Spec => []RunningIsReachable
BY Invariance, PTL DEF IInv

\* Two tasks of one tier never run at once (submit, under TaskManager._lock,
\* against bodies that end in threads of their own without it).
THEOREM OneTaskPerTier == Spec => []TierExclusion
<1>1. IInv => TierExclusion
  BY DEF IInv, RunningIsReachable, TierExclusion
<1> QED
  BY <1>1, Invariance, PTL

\* "completed" means all accounts were processed and "cancelled" that some were
\* not, for every batch size and every moment of the cancellation.
THEOREM StatusIsTruthful == Spec => []StatusTellsProgress
BY Invariance, PTL DEF IInv

\* A task that has ended is never touched again (no late cancel or failure).
THEOREM EndIsFinal == Spec => EndedIsFinal
<1> DEFINE Ends == \A i \in Task : status[i] \in Ended =>
                       status'[i] = status[i] /\ processed'[i] = processed[i]
<1>1. IInv /\ [Next]_vars => Ends
  <2> SUFFICES ASSUME IInv, [Next]_vars, NEW i \in Task, status[i] \in Ended
               PROVE  /\ status'[i] = status[i]
                      /\ processed'[i] = processed[i]
    OBVIOUS
  <2>1. CASE \E t \in Tier, n \in Totals : Submit(t, n)
    <3>1. i # created + 1
      BY DEF IInv, TypeOK, Ended, Task
    <3> QED
      BY <2>1, <3>1 DEF Submit, IInv, TypeOK
  <2>2. CASE \E j \in Task : RequestCancel(j) \/ BodyStep(j) \/ Fail(j)
    BY <2>2 DEF RequestCancel, BodyStep, AtBoundary, StartBatch, Work, Stop, Complete, Fail,
                body, IInv, TypeOK, Ended
  <2>3. CASE UNCHANGED vars
    BY <2>3 DEF vars
  <2> QED
    BY <2>1, <2>2, <2>3 DEF Next
<1> QED
  BY <1>1, Invariance, PTL DEF EndedIsFinal, Spec

------------------------------------------------------------------------------
(* The registry. *)

\* A set of naturals has a least element.
LEMMA LeastOfNats ==
  ASSUME NEW S, S \subseteq Nat, S # {}
  PROVE  \E m \in S : \A k \in S : m <= k
<1> DEFINE R == OpToRel(<, Nat)
<1>1. \A x, y \in Nat : x < y => <<x, y>> \in R
  BY DEF OpToRel
<1>2. IsWellFoundedOn(R, Nat)
  BY NatLessThanWellFounded
<1> HIDE DEF R
<1>3. PICK m \in S : \A k \in S : ~ (<<k, m>> \in R)
  BY <1>2, WFMin
<1>4. ASSUME NEW k \in S PROVE m <= k
  <2>1. ~(k < m)
    BY <1>1, <1>3
  <2> QED
    BY <2>1
<1> QED
  BY <1>4

\* What is not surplus is at most Keep tasks.
LEMMA KeptIsBounded ==
  ASSUME NEW n \in Nat, NEW tasks \in SUBSET (1..n)
  PROVE  /\ IsFiniteSet(tasks \ Surplus(tasks))
         /\ Cardinality(tasks \ Surplus(tasks)) <= Keep
<1> DEFINE kept == tasks \ Surplus(tasks)
<1>1. IsFiniteSet(tasks)
  <2>1. IsFiniteSet(1..n)
    BY FS_Interval
  <2> QED
    BY <2>1, FS_Subset
<1>2. IsFiniteSet(kept)
  BY <1>1, FS_Subset
<1>3. CASE kept = {}
  BY <1>2, <1>3, FS_EmptySet, TaskAssumption
<1>4. CASE kept # {}
  <2>1. PICK m \in kept : \A k \in kept : m <= k
    <3>1. kept \subseteq Nat
      <4>1. tasks \subseteq 1..n /\ 1..n \subseteq Nat
        OBVIOUS
      <4> QED
        BY <4>1
    <3> HIDE DEF kept
    <3> QED
      BY <1>4, <3>1, LeastOfNats
  <2> DEFINE newer == {j \in tasks : j > m}
  <2>2. IsFiniteSet(newer) /\ Cardinality(newer) < Keep
    <3>1. IsFiniteSet(newer) /\ Cardinality(newer) \in Nat
      BY <1>1, FS_Subset, FS_CardinalityType
    <3>2. ~(Cardinality(newer) >= Keep)
      BY DEF Surplus
    <3> QED
      BY <3>1, <3>2, TaskAssumption
  <2>3. kept \ {m} \subseteq newer
    <3>1. ASSUME NEW k \in kept, k # m PROVE k \in tasks /\ k > m
      BY <2>1, <3>1
    <3> QED
      BY <3>1
  <2> HIDE DEF kept, newer
  <2>4. Cardinality(kept \ {m}) <= Cardinality(newer) /\ Cardinality(newer) \in Nat
    BY <2>2, <2>3, FS_Subset, FS_CardinalityType
  <2>5. Cardinality(kept \ {m}) = Cardinality(kept) - 1
    BY <1>2, <2>1, FS_RemoveElement
  <2>6. Cardinality(kept) \in Nat
    BY <1>2, FS_CardinalityType
  <2> QED
    BY <1>2, <2>2, <2>4, <2>5, <2>6, TaskAssumption DEF kept
<1> QED
  BY <1>3, <1>4

\* The running tasks of a set of tiers are no more than the tiers.
LEMMA RunningIsBounded ==
  ASSUME IInv, NEW T \in SUBSET Tier, NEW R \in SUBSET Task,
         \A i \in R : status[i] = "running" /\ tier[i] \in T
  PROVE  IsFiniteSet(R) /\ Cardinality(R) <= Cardinality(T)
<1> DEFINE f == [i \in R |-> tier[i]]
<1>1. \A i, j \in R : f[i] = f[j] => i = j
  BY DEF IInv, RunningIsReachable
<1>2. f \in Injection(R, T)
  BY <1>1, Fun_IsInj DEF Injection, IsInjective
<1>3. IsFiniteSet(T)
  BY FS_Subset, TaskAssumption
<1> HIDE DEF f
<1> QED
  BY <1>2, <1>3, FS_Injection

\* The registry after a submission: Keep tasks and what runs in other tiers.
LEMMA SubmitBoundsRegistry ==
  ASSUME IInv, NEW t \in Tier, NEW n \in Totals, Submit(t, n)
  PROVE  RegistryBounded'
<1> DEFINE new == created + 1
           tasks == registered \cup {new}
           kept == tasks \ Surplus(tasks)
           spared == {i \in tasks : i \in Surplus(tasks) /\ status[i] = "running"}
<1>1. /\ new \in Task /\ new \in Nat
      /\ registered' = {i \in tasks : i \in Surplus(tasks) => status'[i] = "running"}
      /\ status' = [status EXCEPT ![new] = "running"]
      /\ ~TierBusy(t)
  BY TaskAssumption DEF Submit, IInv, TypeOK, Task
<1>2. tasks \in SUBSET (1..new) /\ tasks \subseteq Task
  <2>1. registered \subseteq 1..created /\ created \in Nat /\ new <= MaxTasks
    BY <1>1, TaskAssumption DEF IInv, TypeOK, Task
  <2>2. 1..created \subseteq 1..new /\ 1..new \subseteq Task
    BY <2>1, TaskAssumption DEF Task
  <2> QED
    BY <1>1, <2>1, <2>2
<1>3. new \notin Surplus(tasks)
  BY <1>1, <1>2, NewestIsKept
<1>4. registered' = kept \cup spared
  BY <1>1, <1>2, <1>3 DEF IInv, TypeOK
<1>5. IsFiniteSet(kept) /\ Cardinality(kept) <= Keep
  BY <1>1, <1>2, KeptIsBounded
<1>6. /\ IsFiniteSet(spared)
      /\ Cardinality(spared) <= Cardinality(Tier \ {t})
  <2>1. spared \in SUBSET Task
    BY <1>2
  <2>2. \A i \in spared : status[i] = "running" /\ tier[i] \in Tier \ {t}
    <3> SUFFICES ASSUME NEW i \in spared PROVE tier[i] \in Tier \ {t}
      OBVIOUS
    <3>1. status[i] = "running" /\ i \in Task
      BY <2>1
    <3>2. i \in registered /\ running[tier[i]] = i
      BY <3>1 DEF IInv, RunningIsReachable
    <3> QED
      BY <1>1, <3>1, <3>2 DEF TierBusy, IInv, TypeOK
  <2> HIDE DEF spared
  <2> QED
    BY <2>1, <2>2, RunningIsBounded
<1> HIDE DEF kept, spared
<1>7. Cardinality(Tier \ {t}) = Cardinality(Tier) - 1 /\ Cardinality(Tier) \in Nat
  BY TaskAssumption, FS_RemoveElement, FS_CardinalityType
<1>8. /\ Cardinality(kept \cup spared) <= Cardinality(kept) + Cardinality(spared)
      /\ Cardinality(kept) \in Nat /\ Cardinality(spared) \in Nat
      /\ Cardinality(kept \cup spared) \in Nat
  <2>1. Cardinality(kept \cup spared) =
          Cardinality(kept) + Cardinality(spared) - Cardinality(kept \cap spared)
    BY <1>5, <1>6, FS_Union
  <2>2. IsFiniteSet(kept \cap spared) /\ IsFiniteSet(kept \cup spared)
    BY <1>5, <1>6, FS_Union, FS_Intersection
  <2> QED
    BY <1>5, <1>6, <2>1, <2>2, FS_CardinalityType
<1> QED
  BY <1>4, <1>5, <1>6, <1>7, <1>8, TaskAssumption DEF RegistryBounded

\* The pruning spares the newest Keep tasks.
LEMMA SubmitKeepsRecent ==
  ASSUME IInv, RecentKept, NEW t \in Tier, NEW n \in Totals, Submit(t, n)
  PROVE  RecentKept'
<1> DEFINE new == created + 1
           tasks == registered \cup {new}
<1>1. /\ new \in Task /\ created \in Nat /\ created' = new
      /\ registered' = {i \in tasks : i \in Surplus(tasks) => status'[i] = "running"}
  BY TaskAssumption DEF Submit, IInv, TypeOK, Task
<1> SUFFICES ASSUME NEW i \in Task, i <= new, new < i + Keep
             PROVE  i \in registered'
  BY <1>1 DEF RecentKept
<1>2. i \in Nat /\ Keep \in Nat
  BY TaskAssumption DEF Task
<1>3. i \in tasks
  <2>1. CASE i = new
    BY <2>1
  <2>2. CASE i # new
    BY <1>1, <1>2, <2>2 DEF RecentKept
  <2> QED
    BY <2>1, <2>2
<1>4. i \notin Surplus(tasks)
  <2> DEFINE newer == {j \in tasks : j > i}
  <2>1. newer \subseteq (i + 1)..new
    <3>1. \A j \in registered : j \in Nat /\ j <= created
      BY <1>1 DEF IInv, TypeOK
    <3>2. \A j \in tasks : j \in Nat /\ j <= new
      BY <1>1, <3>1
    <3> QED
      BY <1>1, <1>2, <3>2
  <2>2. /\ IsFiniteSet((i + 1)..new)
        /\ Cardinality((i + 1)..new) = IF i + 1 > new THEN 0 ELSE new - (i + 1) + 1
    <3>1. i + 1 \in Int /\ new \in Int
      BY <1>1, <1>2
    <3> HIDE DEF new
    <3> QED
      BY <3>1, FS_Interval
  <2>3. Cardinality(newer) <= Cardinality((i + 1)..new) /\ Cardinality(newer) \in Nat
    BY <2>1, <2>2, FS_Subset, FS_CardinalityType
  <2>4. ~(Cardinality(newer) >= Keep)
    BY <1>1, <1>2, <2>2, <2>3, TaskAssumption
  <2> QED
    BY <2>4 DEF Surplus
<1> QED
  BY <1>1, <1>3, <1>4

\* The registry never holds more than Keep tasks and one per other tier, although
\* it never forgets a running one (the pruning at the end of submit).
THEOREM RegistryIsBounded == Spec => []RegistryBounded
<1>1. Init => RegistryBounded
  <2> SUFFICES ASSUME Init PROVE RegistryBounded
    OBVIOUS
  <2>1. Cardinality(registered) = 0
    BY FS_EmptySet DEF Init
  <2>2. Cardinality(Tier) \in Nat /\ Cardinality(Tier) # 0
    BY TaskAssumption, FS_CardinalityType, FS_EmptySet
  <2> QED
    BY <2>1, <2>2, TaskAssumption DEF RegistryBounded
<1>2. IInv /\ RegistryBounded /\ [Next]_vars => RegistryBounded'
  <2> SUFFICES ASSUME IInv, RegistryBounded, [Next]_vars PROVE RegistryBounded'
    OBVIOUS
  <2>1. CASE \E t \in Tier, n \in Totals : Submit(t, n)
    BY <2>1, SubmitBoundsRegistry
  <2>2. CASE UNCHANGED registered
    BY <2>2 DEF RegistryBounded
  <2> QED
    BY <2>1, <2>2 DEF Next, RequestCancel, BodyStep, StartBatch, Work, Stop, Complete, Fail, vars
<1> QED
  BY <1>1, <1>2, Invariance, PTL DEF Spec

\* A client can always poll the Keep newest tasks ("keep the latest 20").
THEOREM RecentTasksKept == Spec => []RecentKept
<1>1. Init => RecentKept
  BY DEF Init, RecentKept, Task
<1>2. IInv /\ RecentKept /\ [Next]_vars => RecentKept'
  <2> SUFFICES ASSUME IInv, RecentKept, [Next]_vars PROVE RecentKept'
    OBVIOUS
  <2>1. CASE \E t \in Tier, n \in Totals : Submit(t, n)
    BY <2>1, SubmitKeepsRecent
  <2>2. CASE UNCHANGED <<created, registered>>
    BY <2>2 DEF RecentKept
  <2> QED
    BY <2>1, <2>2 DEF Next, RequestCancel, BodyStep, StartBatch, Work, Stop, Complete, Fail, vars
<1> QED
  BY <1>1, <1>2, Invariance, PTL DEF Spec

------------------------------------------------------------------------------
(* Whole batches: wherever a body is in a batch, its end is the end of the *)
(* last batch or a multiple of the size, so that this is what a body that  *)
(* stops before its last batch has done.                                   *)

LEMMA NextMultiple ==
  ASSUME NEW b \in Nat \ {0}, NEW n \in Nat, n % b = 0
  PROVE  (n + b) % b = 0
<1>1. n = b * (n \div b) + (n % b) /\ n \div b \in Nat
  OBVIOUS
<1>2. PICK q \in Nat : n = q * b
  BY <1>1
<1>3. n + b = (q + 1) * b /\ q + 1 \in Nat /\ n + b \in Nat
  BY <1>2
<1>4. \A m \in Nat, k \in Nat : m = k * b => m % b = 0
  OBVIOUS
<1> QED
  BY <1>3, <1>4

BatchEnds ==
  \A i \in Task : status[i] = "running" /\ processed[i] + left[i] < total[i] =>
    (processed[i] + left[i]) % BatchSize = 0

LEMMA SubmitEndsBatch ==
  ASSUME IInv, BatchEnds, CancelledAfterWholeBatches, NEW t \in Tier, NEW n \in Totals, Submit(t, n)
  PROVE  BatchEnds' /\ CancelledAfterWholeBatches'
<1> DEFINE new == created + 1
<1>1. /\ status' = [status EXCEPT ![new] = "running"] /\ total' = [total EXCEPT ![new] = n]
      /\ UNCHANGED <<processed, left>>
  BY DEF Submit
<1>2. new \in Task /\ status[new] = "new"
  BY TaskAssumption DEF Submit, IInv, TypeOK, Task
<1>3. processed[new] = 0 /\ left[new] = 0
  BY <1>2 DEF IInv, Progress
<1>4. 0 % BatchSize = 0
  BY TaskAssumption
<1> HIDE DEF new
<1>5. \A i \in Task \ {new} : status'[i] = status[i] /\ total'[i] = total[i]
  BY <1>1 DEF IInv, TypeOK
<1>6. status'[new] = "running"
  BY <1>1, <1>2 DEF IInv, TypeOK
<1>7. BatchEnds'
  BY <1>1, <1>3, <1>4, <1>5 DEF BatchEnds
<1>8. CancelledAfterWholeBatches'
  BY <1>1, <1>5, <1>6 DEF CancelledAfterWholeBatches
<1> QED
  BY <1>7, <1>8

LEMMA TaskEndsBatch ==
  ASSUME IInv, BatchEnds, CancelledAfterWholeBatches,
         NEW i \in Task, RequestCancel(i) \/ BodyStep(i) \/ Fail(i)
  PROVE  BatchEnds' /\ CancelledAfterWholeBatches'
<1> DEFINE end == processed[i] + left[i]
<1>t. /\ processed[i] \in Nat /\ left[i] \in Nat /\ total[i] \in Nat /\ BatchSize \in Nat \ {0}
      /\ end \in Nat /\ end <= total[i]
  BY TaskAssumption DEF IInv, TypeOK, Progress
<1>o. \A j \in Task \ {i} : /\ status'[j] = status[j] /\ total'[j] = total[j]
                            /\ processed'[j] = processed[j] /\ left'[j] = left[j]
  BY DEF RequestCancel, BodyStep, StartBatch, Work, Stop, Complete, Fail, body, IInv, TypeOK
<1>1. CASE RequestCancel(i)
  BY <1>1 DEF RequestCancel, BatchEnds, CancelledAfterWholeBatches
<1>2. CASE StartBatch(i)
  <2>1. /\ status' = status /\ total' = total /\ processed' = processed
        /\ status[i] = "running" /\ left[i] = 0 /\ processed[i] < total[i]
        /\ left' = [left EXCEPT ![i] = IF total[i] - processed[i] < BatchSize
                                       THEN total[i] - processed[i] ELSE BatchSize]
    BY <1>2 DEF StartBatch, AtBoundary
  <2>2. left'[i] = IF total[i] - processed[i] < BatchSize THEN total[i] - processed[i] ELSE BatchSize
    BY <2>1 DEF IInv, TypeOK
  <2>3. processed[i] % BatchSize = 0
    <3>1. processed[i] + left[i] = processed[i]
      BY <1>t, <2>1
    <3> QED
      BY <2>1, <3>1 DEF BatchEnds
  <2>4. (processed[i] + BatchSize) % BatchSize = 0
    BY <1>t, <2>3, NextMultiple
  <2>5. processed'[i] + left'[i] < total'[i] => processed'[i] + left'[i] = processed[i] + BatchSize
    BY <1>t, <2>1, <2>2
  <2> QED
    BY <1>o, <2>1, <2>4, <2>5 DEF BatchEnds, CancelledAfterWholeBatches
<1>3. CASE Work(i)
  <2>1. PICK n \in 1..left[i] : /\ left' = [left EXCEPT ![i] = left[i] - n]
                                /\ processed' = [processed EXCEPT ![i] = processed[i] + n]
    BY <1>3 DEF Work
  <2>2. status' = status /\ total' = total /\ status[i] = "running"
    BY <1>3 DEF Work
  <2>3. left'[i] = left[i] - n /\ processed'[i] = processed[i] + n
    BY <2>1 DEF IInv, TypeOK
  <2>4. processed'[i] + left'[i] = end
    BY <1>t, <2>1, <2>3
  <2> QED
    BY <1>o, <2>2, <2>4 DEF BatchEnds, CancelledAfterWholeBatches
<1>4. CASE Stop(i)
  <2>1. /\ status[i] = "running" /\ left[i] = 0 /\ processed[i] < total[i] /\ UNCHANGED <<processed, left, total>>
        /\ status'[i] = "cancelled"
    BY <1>4 DEF Stop, AtBoundary, body, IInv, TypeOK
  <2>2. processed[i] % BatchSize = 0
    <3>1. processed[i] + left[i] = processed[i]
      BY <1>t, <2>1
    <3> QED
      BY <2>1, <3>1 DEF BatchEnds
  <2> QED
    BY <1>o, <2>1, <2>2 DEF BatchEnds, CancelledAfterWholeBatches
<1>5. CASE Complete(i) \/ Fail(i)
  <2>1. status'[i] \in {"completed", "failed"}
    BY <1>5 DEF Complete, Fail, IInv, TypeOK
  <2> QED
    BY <1>o, <2>1 DEF BatchEnds, CancelledAfterWholeBatches
<1> QED
  BY <1>1, <1>2, <1>3, <1>4, <1>5 DEF BodyStep

\* A task that was cancelled has done whole batches, whenever the flag was set
\* (api/accounts.py, the loops over the batches).
THEOREM CancelledAreWhole == Spec => []CancelledAfterWholeBatches
<1>1. Init => BatchEnds /\ CancelledAfterWholeBatches
  BY DEF Init, BatchEnds, CancelledAfterWholeBatches
<1>2. IInv /\ BatchEnds /\ CancelledAfterWholeBatches /\ [Next]_vars
        => BatchEnds' /\ CancelledAfterWholeBatches'
  <2>1. CASE UNCHANGED vars
    BY <2>1 DEF vars, BatchEnds, CancelledAfterWholeBatches
  <2> QED
    BY <2>1, SubmitEndsBatch, TaskEndsBatch DEF Next
<1> QED
  BY <1>1, <1>2, Invariance, PTL DEF Spec

------------------------------------------------------------------------------
(* The log (LogStore)                                                      *)
(*                                                                         *)
(* Proofs about the log: for any old lines, any queries and any numbers of *)
(* lines, rewrites, listings and deaths, what is deleted was shown.        *)
(*                                                                         *)
(* The argument is that an id says what its line says.  An id that was     *)
(* made up has the text of its line in it and is written down with the     *)
(* line by the next rewrite; so whatever carries an id that a page showed  *)
(* is what the page showed, wherever the lines have moved since.           *)

LogId == [by : {"none", "line", "uuid"}, at : Int, text : Int]
LogLine == {l \in [id : LogId, text : Int] : l.id # NoId => l.id.text = l.text}

\* A line that is tasks by an id.
Known == {l \in LogLine : l.id # NoId}

LogInv ==
  /\ lines \in Seq(LogLine) /\ rewrite \in Seq(LogLine)
  /\ number \in Int /\ place \in Nat /\ adds \in Nat
  /\ found \cup shown \cup removed \subseteq Known
  /\ removed \subseteq shown

LEMMA ParsedIsKnown ==
  ASSUME NEW l \in LogLine, NEW n \in Int
  PROVE  Parsed(l, n) \in Known
<1>1. LegacyId(n, l.text) \in LogId /\ LegacyId(n, l.text) # NoId /\ LegacyId(n, l.text).text = l.text
  <2>1. l.text \in Int
    BY DEF LogLine
  <2>2. LegacyId(n, l.text).by = "line" /\ NoId.by = "none"
    BY DEF LegacyId, NoId
  <2>3. LegacyId(n, l.text).text = l.text
    BY DEF LegacyId
  <2>4. LegacyId(n, l.text) \in LogId
    BY <2>1 DEF LegacyId, LogId
  <2> QED
    BY <2>2, <2>3, <2>4
<1>2. l \in [id : LogId, text : Int]
  BY DEF LogLine
<1>3. CASE l.id = NoId
  <2>1. Parsed(l, n) = [l EXCEPT !.id = LegacyId(n, l.text)]
    BY <1>2, <1>3 DEF Parsed
  <2> QED
    BY <1>1, <1>2, <2>1 DEF Known, LogLine
<1>4. CASE l.id # NoId
  <2>1. Parsed(l, n) = l
    BY <1>2, <1>4 DEF Parsed
  <2> QED
    BY <1>4, <2>1 DEF Known
<1> QED
  BY <1>3, <1>4

LEMMA SameIdSameLine ==
  ASSUME NEW k \in Known, NEW l \in Known, k.id = l.id
  PROVE  k = l
  BY DEF Known, LogLine

\* A finite set of numbers can be put in order (InOrder has something to choose).
Increasing(S) ==
  {f \in [1..Cardinality(S) -> S] : \A i, j \in 1..Cardinality(S) : i < j => f[i] < f[j]}

LEMMA GreatestOfNats ==
  ASSUME NEW n \in Nat, NEW S, S \subseteq 1..n, S # {}
  PROVE  \E m \in S : \A k \in S : k <= m
<1> DEFINE T == {n - k : k \in S}
<1>1. T \subseteq Nat /\ T # {}
  <2>1. \A k \in S : n - k \in Nat
    OBVIOUS
  <2> QED
    BY <2>1
<1>2. PICK l \in T : \A k \in T : l <= k
  <2> HIDE DEF T
  <2> QED
    BY <1>1, LeastOfNats
<1>3. PICK m \in S : l = n - m
  BY <1>2
<1>4. ASSUME NEW k \in S PROVE k <= m
  <2>1. n - m <= n - k
    BY <1>2, <1>3
  <2> QED
    BY <2>1
<1> QED
  BY <1>4

LEMMA OrderExists ==
  ASSUME NEW n \in Nat
  PROVE  \A S \in SUBSET (1..n) : Increasing(S) # {}
<1> DEFINE Bad == {c \in Nat : \E S \in SUBSET (1..n) : Cardinality(S) = c /\ Increasing(S) = {}}
<1>1. \A S \in SUBSET (1..n) : IsFiniteSet(S) /\ Cardinality(S) \in Nat
  <2>1. TAKE S \in SUBSET (1..n)
  <2>2. IsFiniteSet(1..n)
    BY FS_Interval
  <2>3. IsFiniteSet(S)
    BY <2>2, FS_Subset
  <2> QED
    BY <2>3, FS_CardinalityType
<1>2. CASE Bad = {}
  BY <1>1, <1>2
<1>3. CASE Bad # {}
  <2>1. PICK c \in Bad : \A d \in Bad : c <= d
    <3> HIDE DEF Bad
    <3>1. Bad \subseteq Nat
      BY DEF Bad
    <3> QED
      BY <1>3, <3>1, LeastOfNats
  <2>2. PICK S \in SUBSET (1..n) : Cardinality(S) = c /\ Increasing(S) = {}
    BY <2>1
  <2>3. S # {}
    <3> SUFFICES ASSUME S = {} PROVE FALSE
      OBVIOUS
    <3>1. Cardinality(S) = 0
      BY FS_EmptySet
    <3>2. [i \in 1..0 |-> i] \in [1..0 -> S] /\ 1..0 = {}
      OBVIOUS
    <3>3. [i \in 1..0 |-> i] \in Increasing(S)
      BY <3>1, <3>2 DEF Increasing
    <3> QED
      BY <2>2, <3>3
  <2>4. PICK m \in S : \A k \in S : k <= m
    BY <2>3, GreatestOfNats
  <2> DEFINE R == S \ {m}
  <2>5. Cardinality(R) = c - 1 /\ c - 1 \in Nat
    <3>1. IsFiniteSet(S) /\ Cardinality(S) \in Nat
      BY <1>1
    <3>2. Cardinality(S) # 0
      BY <2>3, <3>1, FS_EmptySet
    <3>3. Cardinality(S \ {m}) = Cardinality(S) - 1
      BY <3>1, FS_RemoveElement
    <3> QED
      BY <2>2, <3>1, <3>2, <3>3
  <2>6. PICK f : f \in Increasing(R)
    <3>1. c - 1 \notin Bad
      BY <2>1, <2>5
    <3>2. R \in SUBSET (1..n)
      OBVIOUS
    <3> QED
      BY <2>5, <3>1, <3>2
  <2> DEFINE g == [i \in 1..c |-> IF i = c THEN m ELSE f[i]]
  <2> HIDE DEF Bad, R
  <2>7. c \in Nat /\ c # 0 /\ f \in [1..(c - 1) -> R] /\ R = S \ {m}
        /\ \A i, j \in 1..(c - 1) : i < j => f[i] < f[j]
    <3>1. c \in Nat
      BY <2>1 DEF Bad
    <3>2. c # 0
      BY <2>5, <3>1
    <3>3. f \in [1..Cardinality(R) -> R] /\ \A i, j \in 1..Cardinality(R) : i < j => f[i] < f[j]
      BY <2>6 DEF Increasing
    <3> QED
      BY <2>5, <3>1, <3>2, <3>3 DEF R
  <2>8. g \in [1..c -> S]
    BY <2>7
  <2>9. \A i \in 1..(c - 1) : f[i] \in S /\ f[i] < m
    <3>1. TAKE i \in 1..(c - 1)
    <3>2. f[i] \in S /\ f[i] # m /\ f[i] <= m
      BY <2>4, <2>7
    <3>3. f[i] \in Nat /\ m \in Nat
      <4>1. S \subseteq 1..n
        BY <2>2
      <4>2. \A k \in 1..n : k \in Nat
        OBVIOUS
      <4> QED
        BY <2>4, <3>2, <4>1, <4>2
    <3> QED
      BY <3>2, <3>3
  <2>10. \A i, j \in 1..c : i < j => g[i] < g[j]
    BY <2>7, <2>9
  <2> HIDE DEF g
  <2> QED
    BY <2>2, <2>8, <2>10 DEF Increasing
<1> QED
  BY <1>2, <1>3

LEMMA ReadIsLine ==
  ASSUME LogInv, NEW i \in 1..Len(lines)
  PROVE  Read(i) \in LogLine /\ (Readable(lines[i]) => Read(i) \in Known)
<1>1. lines[i] \in LogLine /\ i - 1 \in Int
  BY DEF LogInv
<1>2. Parsed(lines[i], i - 1) \in Known
  BY <1>1, ParsedIsKnown
<1> QED
  BY <1>1, <1>2 DEF Read, Known

LEMMA KeptAreLines ==
  ASSUME LogInv, NEW drops
  PROVE  Kept(drops) \in Seq(LogLine)
<1> DEFINE stay == {i \in 1..Len(lines) : ~(Readable(lines[i]) /\ Read(i) \in drops)}
<1>1. Len(lines) \in Nat
  BY DEF LogInv
<1>2. stay \in SUBSET (1..Len(lines)) /\ IsFiniteSet(stay) /\ Cardinality(stay) \in Nat
  <2>1. stay \subseteq 1..Len(lines)
    OBVIOUS
  <2> HIDE DEF stay
  <2>2. IsFiniteSet(1..Len(lines))
    BY <1>1, FS_Interval
  <2>3. IsFiniteSet(stay)
    BY <2>1, <2>2, FS_Subset
  <2> QED
    BY <2>1, <2>3, FS_CardinalityType
<1>3. Kept(drops) = [k \in 1..Cardinality(stay) |-> Read(InOrder(stay)[k])]
  BY DEF Kept
<1> HIDE DEF stay
<1>4. InOrder(stay) \in [1..Cardinality(stay) -> stay]
  <2>1. Increasing(stay) # {}
    BY <1>1, <1>2, OrderExists
  <2> QED
    BY <2>1 DEF Increasing, InOrder
<1>5. \A k \in 1..Cardinality(stay) : Read(InOrder(stay)[k]) \in LogLine
  BY <1>2, <1>4, ReadIsLine
<1> QED
  BY <1>2, <1>3, <1>5

LEMMA LogInitInv == LogInit => LogInv
<1> SUFFICES ASSUME LogInit PROVE LogInv
  OBVIOUS
<1>1. PICK before \in Legacy : lines = [i \in 1..Len(before) |-> [id |-> NoId, text |-> before[i]]]
  BY DEF LogInit
<1>2. before \in Seq(Int)
  BY LogAssumption
<1>3. NoId \in LogId
  BY DEF NoId, LogId
<1>4. \A i \in 1..Len(before) : [id |-> NoId, text |-> before[i]] \in LogLine
  BY <1>2, <1>3 DEF LogLine
<1>5. lines \in Seq(LogLine)
  BY <1>1, <1>2, <1>4
<1>6. rewrite \in Seq(LogLine)
  BY DEF LogInit
<1> QED
  BY <1>5, <1>6 DEF LogInit, LogInv

\* A line that cannot be read has no id.
LEMMA TornIsLine == [id |-> NoId, text |-> Garbage] \in LogLine
<1>1. NoId \in LogId
  BY DEF NoId, LogId
<1> QED
  BY <1>1 DEF LogLine, Garbage

LEMMA AppendedAreLines ==
  ASSUME LogInv, NEW l \in LogLine
  PROVE  Appended(l) \in Seq(LogLine)
<1>1. lines \in Seq(LogLine)
  BY DEF LogInv
<1>2. [lines EXCEPT ![Len(lines)] = [id |-> NoId, text |-> Garbage]] \in Seq(LogLine)
  <2>1. ASSUME NEW t \in LogLine PROVE [lines EXCEPT ![Len(lines)] = t] \in Seq(LogLine)
    <3>1. DOMAIN [lines EXCEPT ![Len(lines)] = t] = 1..Len(lines) /\ Len(lines) \in Nat
      BY <1>1
    <3>2. \A i \in 1..Len(lines) : [lines EXCEPT ![Len(lines)] = t][i] \in LogLine
      BY <1>1
    <3>3. [lines EXCEPT ![Len(lines)] = t] \in [1..Len(lines) -> LogLine]
      BY <1>1, <3>1, <3>2
    <3> QED
      BY <3>1, <3>3, SeqDef
  <2> QED
    BY <2>1, TornIsLine
<1>3. Append(lines, l) \in Seq(LogLine)
  BY <1>1
<1> QED
  BY <1>2, <1>3 DEF Appended

LEMMA LogStepInv == LogInv /\ [LogNext]_logVars => LogInv'
<1> SUFFICES ASSUME LogInv, [LogNext]_logVars PROVE LogInv'
  OBVIOUS
<1>1. CASE Add
  <2>1. FreshId(100 + adds) \in LogId /\ FreshId(100 + adds).text = 100 + adds /\ 100 + adds \in Int
    BY DEF FreshId, LogId, LogInv
  <2>2. [id |-> FreshId(100 + adds), text |-> 100 + adds] \in LogLine
    BY <2>1 DEF LogLine
  <2>3. lines' \in Seq(LogLine)
    BY <1>1, <2>2, AppendedAreLines DEF Add
  <2> QED
    BY <1>1, <2>3 DEF Add, LogInv, readVars
<1>2. CASE AddDies
  <2>1. lines' \in Seq(LogLine)
    BY <1>2, TornIsLine, AppendedAreLines DEF AddDies
  <2> QED
    BY <1>2, <2>1 DEF AddDies, LogInv
<1>3. CASE Delete
  <2>1. PICK ids \in SUBSET {s.id : s \in shown} \ {{}} :
          Truncate({line \in Numbered : line.id \in ids})
            /\ removed' = removed \cup {line \in Numbered : line.id \in ids}
    BY <1>3 DEF Delete
  <2>2. UNCHANGED <<readVars, shown, adds>>
    BY <1>3 DEF Delete
  <2>3. lines' = <<>> /\ rewrite' \in Seq(LogLine)
    BY <2>1, KeptAreLines DEF Truncate
  <2>4. ASSUME NEW l \in {line \in Numbered : line.id \in ids}
        PROVE  l \in shown
    <3>1. PICK i \in 1..Len(lines) : l = Parsed(lines[i], i - 1) /\ Readable(lines[i])
      BY DEF Numbered
    <3>2. lines[i] \in LogLine /\ i - 1 \in Int
      BY DEF LogInv
    <3>3. l \in Known
      BY <3>1, <3>2, ParsedIsKnown
    <3>4. PICK k \in shown : k.id = l.id
      OBVIOUS
    <3>5. k \in Known
      BY DEF LogInv
    <3> QED
      BY <3>3, <3>4, <3>5, SameIdSameLine
  <2>5. removed' \subseteq shown
    BY <2>1, <2>4 DEF LogInv
  <2> QED
    BY <2>2, <2>3, <2>5 DEF LogInv, readVars
<1>4. CASE Cleanup
  <2>1. PICK drops : Truncate(drops)
    BY <1>4 DEF Cleanup
  <2>2. lines' = <<>> /\ rewrite' \in Seq(LogLine)
    BY <2>1, KeptAreLines DEF Truncate
  <2> QED
    BY <1>4, <2>2 DEF Cleanup, LogInv, readVars
<1>5. CASE Write
  BY <1>5 DEF Write, LogInv, readVars
<1>6. CASE WriteDies
  <2>1. PICK n \in 0..Len(rewrite) : lines' = SubSeq(rewrite, 1, n)
    BY <1>6 DEF WriteDies
  <2>2. lines' \in Seq(LogLine)
    BY <2>1 DEF LogInv
  <2> QED
    BY <1>6, <2>2 DEF WriteDies, LogInv
<1>7. CASE Count
  <2>1. number' \in Int
    BY <1>7 DEF Count, LogInv
  <2> QED
    BY <1>7, <2>1 DEF Count, LogInv
<1>8. CASE Open
  <2>1. place' \in Nat
    BY <1>8 DEF Open, LogInv
  <2> QED
    BY <1>8, <2>1 DEF Open, LogInv
<1>9. CASE Look
  <2>1. place' \in Nat /\ number' \in Int
    BY <1>9 DEF Look, LogInv
  <2>2. found' \subseteq Known
    <3>1. CASE UNCHANGED <<passed, found>>
      BY <3>1 DEF LogInv
    <3>2. CASE place <= Len(lines) /\ Meets(Parsed(lines[place], number))
      <4>1. lines[place] \in LogLine /\ number \in Int
        BY <1>9, <3>2 DEF Look, LogInv
      <4> QED
        BY <3>2, <4>1, ParsedIsKnown DEF Meets, LogInv
    <3> QED
      BY <1>9, <3>1, <3>2 DEF Look
  <2> QED
    BY <1>9, <2>1, <2>2 DEF Look, LogInv
<1>10. CASE Tell
  BY <1>10 DEF Tell, LogInv
<1>11. CASE UNCHANGED logVars
  BY <1>11 DEF logVars, LogInv
<1> QED
  BY <1>1, <1>2, <1>3, <1>4, <1>5, <1>6, <1>7, <1>8, <1>9, <1>10, <1>11 DEF LogNext

\* What is deleted from the log is what a page showed under that id, whatever was
\* added, cleaned up or deleted since, and however the rewrites numbered the lines
\* anew (delete, _legacy_id, _parse_line).
THEOREM DeletedAreShown == LogSpec => []DeletedIsShown
<1>1. LogInv => DeletedIsShown
  BY DEF LogInv, DeletedIsShown
<1> QED
  BY <1>1, LogInitInv, LogStepInv, PTL DEF LogSpec

------------------------------------------------------------------------------
(* The places of a proxy group's nodes, for any number of requests, nodes, *)
(* limits and edits                                                        *)
(*                                                                         *)
(* The places of a node are counted while its limit is edited, so that its *)
(* holders may have been admitted under different limits.  The invariant   *)
(* says that no more than k of them were admitted under a limit of k or    *)
(* less, for every k: a holder is admitted under a limit greater than the  *)
(* number of the others, and one that leaves only makes the counts less.   *)

\* Requests at a node that were admitted under a limit of at most k.
AdmittedUnder(n, k) == {r \in NodeHolders(n) : profile[r].limit <= k}

\* Only a request with an open egress may have a place, and it is a node's.
PlaceOf(r) ==
  profile[r].limit > 0 => egPhase[r] \in {"open", "streaming"} /\ profile[r].node \in EgNode

EgInv ==
  /\ EgTypeOK
  /\ \A r \in EgRequest : PlaceOf(r)
  /\ \A n \in EgNode : egInflight[n] = Cardinality(NodeHolders(n))
  /\ \A n \in EgNode, k \in Nat : Cardinality(AdmittedUnder(n, k)) <= k

LEMMA EgFacts == Limits \subseteq Nat /\ MaxEdits \in Nat /\ Cardinality(EgRequest) \in Nat
  BY FS_CardinalityType, ProxyEgressAssumption

LEMMA HoldersFinite ==
  ASSUME NEW n
  PROVE  /\ IsFiniteSet(NodeHolders(n)) /\ Cardinality(NodeHolders(n)) \in 0..Cardinality(EgRequest)
         /\ \A k : IsFiniteSet(AdmittedUnder(n, k)) /\ Cardinality(AdmittedUnder(n, k)) \in Nat
  <1>1. NodeHolders(n) \in SUBSET EgRequest
    BY DEF NodeHolders
  <1>2. IsFiniteSet(NodeHolders(n)) /\ Cardinality(NodeHolders(n)) <= Cardinality(EgRequest)
    BY <1>1, FS_Subset, ProxyEgressAssumption
  <1>3. Cardinality(NodeHolders(n)) \in Nat
    BY <1>2, FS_CardinalityType
  <1>4. ASSUME NEW k PROVE IsFiniteSet(AdmittedUnder(n, k))
    BY <1>2, FS_Subset DEF AdmittedUnder
  <1> QED BY <1>2, <1>3, <1>4, FS_CardinalityType, EgFacts

\* What a request's profile may be.
LEMMA Profiles ==
  ASSUME EgTypeOK, NEW r \in EgRequest
  PROVE  /\ profile[r] \in [node : EgNode \cup {"none"}, limit : Limits \cup {0}]
         /\ profile[r].limit \in Nat
  <1>1. profile[r] \in [node : EgNode \cup {"none"}, limit : Limits \cup {0}]
    BY DEF EgTypeOK
  <1>2. profile[r].limit \in Limits \cup {0}
    BY <1>1
  <1>3. Limits \cup {0} \subseteq Nat
    BY EgFacts
  <1>4. profile[r].limit \in Nat
    BY <1>2, <1>3
  <1> QED BY <1>1, <1>4

LEMMA NoNodes == <<>> \in NodeMap
  <1>1. <<>> \in [{} -> Limits]
    OBVIOUS
  <1> QED BY <1>1 DEF NodeMap

LEMMA EgInitInv == EgInit => EgInv
  <1> SUFFICES ASSUME EgInit PROVE EgInv
    OBVIOUS
  <1>1. EgTypeOK
    BY EgFacts, NoNodes DEF EgInit, EgTypeOK, NoPlace
  <1>2. \A r \in EgRequest : profile[r].limit = 0
    BY DEF EgInit, NoPlace
  <1>3. \A n \in EgNode : NodeHolders(n) = {} /\ \A k \in Nat : AdmittedUnder(n, k) = {}
    BY <1>2 DEF NodeHolders, AdmittedUnder
  <1>4. \A n \in EgNode : /\ Cardinality(NodeHolders(n)) = 0
                          /\ \A k \in Nat : Cardinality(AdmittedUnder(n, k)) = 0
    BY <1>3, FS_EmptySet
  <1> QED BY <1>1, <1>2, <1>4 DEF EgInv, PlaceOf, EgInit

\* Steps that leave the places and the profiles alone.
LEMMA EgKept ==
  ASSUME EgInv, EgTypeOK', UNCHANGED <<egInflight, profile>>,
         \A r \in EgRequest : egPhase[r] \in {"open", "streaming"} => egPhase'[r] \in {"open", "streaming"}
  PROVE  EgInv'
  <1>1. \A n \in EgNode : NodeHolders(n)' = NodeHolders(n)
    BY DEF NodeHolders
  <1>2. \A n \in EgNode, k \in Nat : AdmittedUnder(n, k)' = AdmittedUnder(n, k)
    BY <1>1 DEF AdmittedUnder
  <1> QED BY <1>1, <1>2 DEF EgInv, PlaceOf

\* A place is taken under a limit greater than the places taken before.
LEMMA PlaceTaken ==
  ASSUME EgInv, NEW r \in EgRequest, TakePlace(r)
  PROVE  EgInv'
  <1> USE DEF EgInv, EgTypeOK
  <1>1. PICK m \in NodeAvailable(known[r]) : Reserve(r, known[r], m)
    BY DEF TakePlace
  <1> DEFINE limit == known[r][m]
  <1>2. PICK S \in SUBSET EgNode : known[r] \in [S -> Limits]
    BY DEF NodeMap
  <1>3. m \in EgNode /\ limit \in Limits /\ limit \in Nat /\ (limit = 0 \/ egInflight[m] < limit)
    BY <1>2, EgFacts DEF NodeAvailable
  <1>4. /\ profile' = [profile EXCEPT ![r] = [node |-> m, limit |-> limit]]
        /\ egInflight' = [egInflight EXCEPT ![m] = @ + (IF limit > 0 THEN 1 ELSE 0)]
    BY <1>1 DEF Reserve
  <1>5. egPhase[r] = "waiting" /\ egPhase' = [egPhase EXCEPT ![r] = "open"]
    BY DEF TakePlace, EgGo
  <1> HIDE DEF limit
  <1>6. profile'[r] = [node |-> m, limit |-> limit] /\ \A q \in EgRequest : q # r => profile'[q] = profile[q]
    BY <1>4
  <1>7. profile[r].limit = 0
    BY <1>5, Profiles DEF PlaceOf
  <1>8. \A n \in EgNode : r \notin NodeHolders(n)
    BY <1>7 DEF NodeHolders
  <1>9. ASSUME NEW n \in EgNode
        PROVE  NodeHolders(n)' = NodeHolders(n) \cup (IF n = m /\ limit > 0 THEN {r} ELSE {})
    BY <1>3, <1>6, <1>7 DEF NodeHolders
  <1>10. ASSUME NEW n \in EgNode, n = m, limit > 0
         PROVE  /\ IsFiniteSet(NodeHolders(n)')
                /\ Cardinality(NodeHolders(n)') = Cardinality(NodeHolders(n)) + 1
    <2>1. NodeHolders(n)' = NodeHolders(n) \cup {r} /\ r \notin NodeHolders(n)
      BY <1>8, <1>9, <1>10
    <2>2. IsFiniteSet(NodeHolders(n))
      BY HoldersFinite
    <2> QED BY <2>1, <2>2, FS_AddElement
  <1>11. ASSUME NEW n \in EgNode
         PROVE  egInflight'[n] = Cardinality(NodeHolders(n)')
    <2>1. CASE n = m /\ limit > 0
      <3>1. Cardinality(NodeHolders(n)') = Cardinality(NodeHolders(n)) + 1
        BY <1>10, <2>1
      <3> QED BY <1>4, <2>1, <3>1
    <2>2. CASE ~(n = m /\ limit > 0)
      <3>1. NodeHolders(n)' = NodeHolders(n)
        BY <1>9, <2>2
      <3>2. egInflight'[n] = egInflight[n]
        BY <1>3, <1>4, <2>2
      <3> QED BY <3>1, <3>2
    <2> QED BY <2>1, <2>2
  <1>12. ASSUME NEW n \in EgNode, NEW k \in Nat
         PROVE  Cardinality(AdmittedUnder(n, k)') <= k
    <2>1. CASE n = m /\ limit > 0 /\ limit <= k
      <3>1. AdmittedUnder(n, k)' \in SUBSET (NodeHolders(n)')
        BY DEF AdmittedUnder
      <3>2. Cardinality(NodeHolders(n)') = egInflight[n] + 1 /\ IsFiniteSet(NodeHolders(n)')
        BY <1>10, <2>1
      <3>3. Cardinality(AdmittedUnder(n, k)') \in Nat
            /\ Cardinality(AdmittedUnder(n, k)') <= Cardinality(NodeHolders(n)')
        BY <3>1, <3>2, FS_Subset, FS_CardinalityType
      <3> QED BY <1>3, <2>1, <3>2, <3>3
    <2>2. CASE ~(n = m /\ limit > 0 /\ limit <= k)
      <3>1. AdmittedUnder(n, k)' = AdmittedUnder(n, k)
        BY <1>6, <1>8, <1>9, <2>2 DEF AdmittedUnder, NodeHolders
      <3> QED BY <3>1
    <2> QED BY <2>1, <2>2
  <1>13. EgTypeOK'
    <2>1. known' \in [EgRequest -> NodeMap]
      BY NoNodes DEF TakePlace
    <2>2. egInflight' \in [EgNode -> 0..Cardinality(EgRequest)]
      <3>1. \A n \in EgNode : Cardinality(NodeHolders(n)') \in 0..Cardinality(EgRequest)
        <4>1. \A n \in EgNode : NodeHolders(n)' \in SUBSET EgRequest
          BY DEF NodeHolders
        <4>2. \A H \in SUBSET EgRequest : Cardinality(H) \in 0..Cardinality(EgRequest)
          BY FS_Subset, FS_CardinalityType, ProxyEgressAssumption, EgFacts
        <4> QED BY <4>1, <4>2
      <3>2. \A n \in EgNode : egInflight'[n] \in 0..Cardinality(EgRequest)
        BY <1>11, <3>1
      <3> QED BY <1>4, <3>2
    <2> QED BY <1>3, <1>4, <1>5, <2>1, <2>2 DEF TakePlace
  <1>14. ASSUME NEW q \in EgRequest PROVE PlaceOf(q)'
    BY <1>3, <1>5, <1>6 DEF PlaceOf
  <1> QED BY <1>11, <1>12, <1>13, <1>14

\* A place is given back under the node and the limit it was taken under.
LEMMA PlaceGivenBack ==
  ASSUME EgInv, NEW r \in EgRequest, egPhase[r] \in {"open", "streaming"},
         egInflight' = Released(r), profile' = [profile EXCEPT ![r] = NoPlace],
         NEW next \in {"done", "new"}, egPhase' = [egPhase EXCEPT ![r] = next],
         UNCHANGED <<nodes, known, egEdits>>
  PROVE  EgInv'
  <1> USE DEF EgInv, EgTypeOK
  <1> DEFINE m == profile[r].node
             limit == profile[r].limit
  <1>1. limit \in Nat /\ (limit > 0 => m \in EgNode)
    BY Profiles DEF PlaceOf
  <1>2. \A q \in EgRequest : q # r => profile'[q] = profile[q]
    OBVIOUS
  <1>3. profile'[r].limit = 0
    BY DEF NoPlace
  <1>4. ASSUME NEW n \in EgNode PROVE NodeHolders(n)' = NodeHolders(n) \ {r}
    BY <1>2, <1>3 DEF NodeHolders
  <1>5. ASSUME NEW n \in EgNode PROVE r \in NodeHolders(n) <=> (n = m /\ limit > 0)
    BY DEF NodeHolders
  <1>6. egInflight' = IF limit = 0 THEN egInflight
                        ELSE [egInflight EXCEPT ![m] = IF @ <= 1 THEN 0 ELSE @ - 1]
    BY DEF Released
  <1> HIDE DEF m, limit
  <1>7. ASSUME NEW n \in EgNode PROVE egInflight'[n] = Cardinality(NodeHolders(n)')
    <2>0. IsFiniteSet(NodeHolders(n)) /\ egInflight[n] \in Nat
      BY HoldersFinite
    <2>1. CASE n = m /\ limit > 0
      <3>1. Cardinality(NodeHolders(n)') = Cardinality(NodeHolders(n)) - 1
        BY <1>4, <1>5, <2>0, <2>1, FS_RemoveElement
      <3>2. Cardinality(NodeHolders(n)) # 0
        BY <1>5, <2>0, <2>1, FS_EmptySet
      <3>3. egInflight[n] >= 1
        BY <2>0, <3>2
      <3> QED BY <1>6, <2>0, <2>1, <3>1, <3>3
    <2>2. CASE ~(n = m /\ limit > 0)
      <3>1. NodeHolders(n)' = NodeHolders(n)
        BY <1>4, <1>5, <2>2
      <3>2. egInflight'[n] = egInflight[n]
        BY <1>1, <1>6, <2>2
      <3> QED BY <3>1, <3>2
    <2> QED BY <2>1, <2>2
  <1>8. ASSUME NEW n \in EgNode, NEW k \in Nat PROVE Cardinality(AdmittedUnder(n, k)') <= k
    <2>1. AdmittedUnder(n, k)' \in SUBSET AdmittedUnder(n, k)
      BY <1>2, <1>4 DEF AdmittedUnder, NodeHolders
    <2>2. /\ IsFiniteSet(AdmittedUnder(n, k)) /\ Cardinality(AdmittedUnder(n, k)) \in Nat
          /\ Cardinality(AdmittedUnder(n, k)) <= k
      BY HoldersFinite
    <2>3. /\ Cardinality(AdmittedUnder(n, k)') <= Cardinality(AdmittedUnder(n, k))
          /\ Cardinality(AdmittedUnder(n, k)') \in Nat
      BY <2>1, <2>2, FS_Subset, FS_CardinalityType
    <2> QED BY <2>2, <2>3
  <1>9. EgTypeOK'
    <2>1. egInflight' \in [EgNode -> 0..Cardinality(EgRequest)]
      <3>1. CASE limit = 0
        BY <1>6, <3>1
      <3>2. CASE limit # 0
        <4>1. m \in EgNode
          BY <1>1, <3>2
        <4> QED BY <1>6, <3>2, <4>1, EgFacts
      <3> QED BY <3>1, <3>2
    <2> QED BY <2>1 DEF NoPlace
  <1>10. ASSUME NEW q \in EgRequest PROVE PlaceOf(q)'
    BY <1>2, <1>3 DEF PlaceOf
  <1> QED BY <1>7, <1>8, <1>9, <1>10

LEMMA EgStepInv == EgInv /\ [EgNext]_egVars => EgInv'
  <1> SUFFICES ASSUME EgInv, [EgNext]_egVars PROVE EgInv'
    OBVIOUS
  <1>1. CASE UNCHANGED egVars
    BY <1>1, EgKept DEF egVars, EgInv, EgTypeOK
  <1>2. ASSUME NEW r \in EgRequest, ResolveGroup(r) PROVE EgInv'
    <2>1. \E phase \in {"waiting", "open"} : egPhase' = [egPhase EXCEPT ![r] = phase]
      BY <1>2 DEF ResolveGroup, EgGo
    <2>2. known' \in [EgRequest -> NodeMap]
      BY <1>2 DEF ResolveGroup, EgInv, EgTypeOK
    <2>3. EgTypeOK'
      BY <1>2, <2>1, <2>2 DEF ResolveGroup, EgInv, EgTypeOK
    <2> QED BY <1>2, <2>1, <2>3, EgKept DEF ResolveGroup, EgInv, EgTypeOK
  <1>3. ASSUME NEW r \in EgRequest, TakePlace(r) PROVE EgInv'
    BY <1>3, PlaceTaken
  <1>4. ASSUME NEW r \in EgRequest, OpenFails(r) \/ StreamEnds(r) PROVE EgInv'
    BY <1>4, PlaceGivenBack DEF OpenFails, StreamEnds, EgGo
  <1>5. ASSUME NEW r \in EgRequest, OpenSession(r) PROVE EgInv'
    BY <1>5, EgKept DEF OpenSession, EgGo, EgInv, EgTypeOK
  <1>6. CASE EditNodes
    BY <1>6, EgKept, EgFacts DEF EditNodes, EgInv, EgTypeOK
  <1> QED BY <1>1, <1>2, <1>3, <1>4, <1>5, <1>6 DEF EgNext, EgStep

\* Every counted place of a node has a request that will give it back, and the places
\* now taken are within the limit of one of their holders, whatever is edited
\* meanwhile (acquire_image_egress and release_image_egress).
THEOREM PlacesAreAlwaysHeld == EgSpec => []PlacesAreHeld
  <1>1. EgInv => PlacesAreHeld
    <2> SUFFICES ASSUME EgInv, NEW n \in EgNode, NodeHolders(n) # {}
                 PROVE  \E r \in NodeHolders(n) : egInflight[n] <= profile[r].limit
      BY DEF EgInv, PlacesAreHeld
    <2>1. egInflight[n] = Cardinality(NodeHolders(n)) /\ Cardinality(NodeHolders(n)) \in Nat
          /\ IsFiniteSet(NodeHolders(n))
      BY HoldersFinite DEF EgInv
    <2>2. egInflight[n] - 1 \in Nat
      <3>1. Cardinality(NodeHolders(n)) # 0
        BY <2>1, FS_EmptySet
      <3> QED BY <2>1, <3>1
    <2>3. Cardinality(AdmittedUnder(n, egInflight[n] - 1)) <= egInflight[n] - 1
      BY <2>2 DEF EgInv
    <2>4. AdmittedUnder(n, egInflight[n] - 1) # NodeHolders(n)
      BY <2>1, <2>2, <2>3
    <2>5. PICK r \in NodeHolders(n) : ~(profile[r].limit <= egInflight[n] - 1)
      BY <2>4 DEF AdmittedUnder
    <2>6. profile[r].limit \in Nat
      BY Profiles DEF NodeHolders, EgInv
    <2> QED BY <2>1, <2>5, <2>6
  <1> QED BY <1>1, EgInitInv, EgStepInv, PTL DEF EgSpec

------------------------------------------------------------------------------
(* The workers that register accounts *)

\* Who is at work has an address, and submits a code it has seen; and as long as no
\* lease was touched from outside, an address that is held is neither free nor stale, and
\* so is the recipient of a code that was submitted by a mail that names it: whoever
\* holds that address has seen the mail.
SpentIsKnown ==
  \A m \in spent : m.named =>
    /\ state[m.to] # "unused"
    /\ \A w \in MailWorker : box[w] = m.to => m \in seen[w]

SoleInv ==
  /\ WorkerTypeOK
  /\ \A w \in MailWorker : box[w] = NoAddress <=> at[w] = "idle"
  /\ \A w \in MailWorker : code[w] \in seen[w] \cup {NoMail}
  /\ ~touched =>
       /\ stale = {}
       /\ \A w \in MailWorker : box[w] # NoAddress => state[box[w]] # "unused"
       /\ \A v, w \in MailWorker : v # w /\ box[v] # NoAddress => box[v] # box[w]
       /\ SpentIsKnown

LEMMA WorkerInitInv == WorkerInit => SoleInv
  <1> SUFFICES ASSUME WorkerInit PROVE SoleInv
    OBVIOUS
  <1>1. WorkerTypeOK
    <2>1. deeds \in 0..MaxDeeds /\ sends \in 0..MaxSends /\ lastSend \in [MailWorker -> 0..MaxSends]
      BY RegisterWorkerAssumption DEF WorkerInit
    <2> QED BY <2>1 DEF WorkerInit, WorkerTypeOK, Mailboxes, State, Failure, Fatal
  <1> QED BY <1>1 DEF WorkerInit, SoleInv, SpentIsKnown

LEMMA MailCodeTypes ==
  ASSUME WorkerTypeOK, NEW w \in MailWorker, box[w] \in Address, MailCode(w)
  PROVE  /\ sent' \subseteq Letter /\ inbox' \subseteq Mail /\ sends' \in 0..MaxSends
         /\ lastSend' \in [MailWorker -> 0..MaxSends]
  <1>1. sends' \in 1..MaxSends
    BY RegisterWorkerAssumption DEF WorkerTypeOK, MailCode
  <1>2. [to |-> box[w], number |-> sends'] \in Letter
    BY <1>1 DEF Letter
  <1> QED BY <1>1, <1>2 DEF WorkerTypeOK, MailCode

LEMMA LeaveTypes ==
  ASSUME WorkerTypeOK, NEW w \in MailWorker, Leave(w)
  PROVE  /\ at' \in [MailWorker -> {"idle", "authorize", "send", "login", "wait", "validate", "create",
                        "exchange", "mark", "markFailed", "markLogin", "add", "verify"}]
         /\ box' \in [MailWorker -> Address \cup {NoAddress}]
         /\ flow' \in [MailWorker -> {"signup", "login"}]
         /\ retried' \in [MailWorker -> BOOLEAN] /\ error' \in [MailWorker -> Failure]
         /\ old' \in [MailWorker -> SUBSET Mail] /\ seen' \in [MailWorker -> SUBSET Mail]
         /\ code' \in [MailWorker -> Mail \cup {NoMail}]
  BY DEF WorkerTypeOK, Leave, GotoStep, Failure, Fatal

LEMMA WorkerTypeStep == SoleInv /\ [WorkerNext]_workerVars => WorkerTypeOK'
  <1> SUFFICES ASSUME SoleInv, [WorkerNext]_workerVars PROVE WorkerTypeOK'
    OBVIOUS
  <1> USE DEF SoleInv, WorkerTypeOK, GotoStep, SetState, poolVars, workVars, codeVars, mailVars,
              historyVars, State, Failure, Fatal
  <1>a. \A w \in MailWorker : at[w] # "idle" => box[w] \in Address
    OBVIOUS
  <1>1. CASE UNCHANGED workerVars
    BY <1>1 DEF workerVars
  <1>2. ASSUME NEW w \in MailWorker, Lease(w) PROVE WorkerTypeOK'
    <2>1. old' \in [MailWorker -> SUBSET Mail]
      BY <1>2 DEF Lease, Dated
    <2>2. PICK a \in Address : SetState(a, "in_use") /\ box' = [box EXCEPT ![w] = a]
      BY <1>2 DEF Lease
    <2>3. /\ at' = [at EXCEPT ![w] = "authorize"]
          /\ UNCHANGED <<mailPool, flow, retried, error, seen, code, mailVars, historyVars>>
      BY <1>2 DEF Lease
    <2> QED BY <2>1, <2>2, <2>3
  <1>3. ASSUME NEW w \in MailWorker, Authorize(w) \/ StartSignup(w) \/ StartLogin(w)
        PROVE  WorkerTypeOK'
    <2>1. old' \in [MailWorker -> SUBSET Mail]
      <3>1. PICK past \in SUBSET inbox : old' = [old EXCEPT ![w] = @ \cup past]
        BY <1>3 DEF Authorize, StartSignup, StartLogin, SetBoundary, Dated
      <3> QED BY <3>1
    <2>2. /\ sent' \subseteq Letter /\ inbox' \subseteq Mail /\ sends' \in 0..MaxSends
          /\ lastSend' \in [MailWorker -> 0..MaxSends]
      <3>1. MailCode(w) \/ UNCHANGED mailVars
        BY <1>3 DEF Authorize, StartSignup, StartLogin
      <3>2. box[w] \in Address
        BY <1>3, <1>a DEF Authorize, StartSignup, StartLogin
      <3> QED BY <3>1, <3>2, MailCodeTypes
    <2>3. error' \in [MailWorker -> Failure] /\ flow' \in [MailWorker -> {"signup", "login"}]
      BY <1>3 DEF Authorize, StartSignup, StartLogin, Fails
    <2>4. at' \in [MailWorker -> {"idle", "authorize", "send", "login", "wait", "validate", "create",
                        "exchange", "mark", "markFailed", "markLogin", "add", "verify"}]
      BY <1>3 DEF Authorize, StartSignup, StartLogin, Fails
    <2>5. UNCHANGED <<poolVars, box, retried, seen, code, historyVars>>
      BY <1>3 DEF Authorize, StartSignup, StartLogin
    <2> QED BY <2>1, <2>2, <2>3, <2>4, <2>5
  <1>4. ASSUME NEW w \in MailWorker, WaitForCode(w) PROVE WorkerTypeOK'
    BY <1>4 DEF WaitForCode, Candidates, MessagesOf, Fails
  <1>5. ASSUME NEW w \in MailWorker, Validate(w) PROVE WorkerTypeOK'
    <2>1. /\ UNCHANGED <<poolVars, box, flow, codeVars, mailVars, historyVars>>
          /\ retried' = retried \/ retried' = [retried EXCEPT ![w] = TRUE]
          /\ error' = error \/ error' = [error EXCEPT ![w] = "failed"]
          /\ \E p \in {"create", "exchange", "login", "markFailed"} : at' = [at EXCEPT ![w] = p]
      BY <1>5 DEF Validate, Fails
    <2>2. retried' \in [MailWorker -> BOOLEAN]
      BY <2>1
    <2>3. error' \in [MailWorker -> Failure]
      BY <2>1
    <2>4. at' \in [MailWorker -> {"idle", "authorize", "send", "login", "wait", "validate", "create",
                        "exchange", "mark", "markFailed", "markLogin", "add", "verify"}]
      BY <2>1
    <2> QED BY <2>1, <2>2, <2>3, <2>4
  <1>6. ASSUME NEW w \in MailWorker, CreateAccount(w) \/ ExchangeTokens(w) PROVE WorkerTypeOK'
    BY <1>6 DEF CreateAccount, ExchangeTokens, Fails
  <1>7. ASSUME NEW w \in MailWorker, MarkUsed(w) PROVE WorkerTypeOK'
    BY <1>7, <1>a DEF MarkUsed
  <1>8. ASSUME NEW w \in MailWorker, MarkFailed(w) PROVE WorkerTypeOK'
    <2>1. box[w] \in Address /\ error[w] \in Failure
      BY <1>8, <1>a DEF MarkFailed
    <2>2. state' \in [Address -> State] /\ stale' \subseteq Address
      BY <1>8, <2>1 DEF MarkFailed
    <2>3. \/ GotoStep(w, "markLogin") /\ UNCHANGED <<box, flow, retried, error, codeVars>>
          \/ Leave(w)
      BY <1>8 DEF MarkFailed
    <2>4. UNCHANGED <<mailPool, mailVars, historyVars>>
      BY <1>8 DEF MarkFailed
    <2> QED BY <2>2, <2>3, <2>4, LeaveTypes
  <1>9. ASSUME NEW w \in MailWorker, MarkLogin(w) PROVE WorkerTypeOK'
    <2>1. Login(box[w]) \in Address
      BY <1>9, <1>a, RegisterWorkerAssumption DEF MarkLogin
    <2>2. state' \in [Address -> State] /\ stale' \subseteq Address
      BY <1>9, <2>1 DEF MarkLogin
    <2> QED BY <1>9, <2>2, LeaveTypes DEF MarkLogin
  <1>10. ASSUME NEW w \in MailWorker, AddAccount(w) \/ Verify(w) PROVE WorkerTypeOK'
    BY <1>10, LeaveTypes DEF AddAccount, Verify
  <1>11. CASE Deliver
    <2>1. PICK l \in sent, h \in Headers :
            /\ sent' = sent \ {l}
            /\ inbox' = inbox \cup
                 {[to |-> l.to, number |-> l.number, named |-> h.named, dated |-> h.dated]}
      BY <1>11 DEF Deliver
    <2>2. [to |-> l.to, number |-> l.number, named |-> h.named, dated |-> h.dated] \in Mail
      BY RegisterWorkerAssumption DEF Letter, Mail
    <2> QED BY <1>11, <2>1, <2>2 DEF Deliver
  <1>12. CASE HourPasses
    BY <1>12, RegisterWorkerAssumption DEF HourPasses, TouchLeases, Deed
  <1>13. CASE ResetPool \/ ImportCredential
    <2>0. TouchLeases
      BY <1>13 DEF ResetPool, ImportCredential
    <2>1. deeds' \in 0..MaxDeeds /\ touched' \in BOOLEAN
      BY <2>0, RegisterWorkerAssumption DEF TouchLeases, Deed
    <2>2. PICK addresses, states : Clear(addresses, states)
      BY <1>13 DEF ResetPool, ImportCredential
    <2>3. state' \in [Address -> State] /\ stale' \subseteq Address
      BY <2>2 DEF Clear
    <2>4. mailPool' \subseteq Mailboxes /\ consumed' \subseteq Address
      BY <1>13 DEF ResetPool, ImportCredential
    <2>5. UNCHANGED <<workVars, codeVars, mailVars, spent>>
      BY <1>13 DEF ResetPool, ImportCredential
    <2> QED BY <2>1, <2>3, <2>4, <2>5
  <1>14. CASE PrunePool \/ RestartWorkers
    <2>1. CASE PrunePool
      BY <2>1, RegisterWorkerAssumption DEF PrunePool, Deed
    <2>2. CASE RestartWorkers
      <3>1. deeds' \in 0..MaxDeeds
        BY <2>2, RegisterWorkerAssumption DEF RestartWorkers, Deed
      <3> QED BY <2>2, <3>1 DEF RestartWorkers
    <2> QED BY <1>14, <2>1, <2>2
  <1> QED
    BY <1>1, <1>2, <1>3, <1>4, <1>5, <1>6, <1>7, <1>8, <1>9, <1>10, <1>11, <1>12, <1>13, <1>14
       DEF WorkerNext, Registers

\* What is submitted stays known: the mail is only taken by whoever holds the address it
\* names, who is alone with it, and the address is not leased again.
LEMMA SpentStep ==
  ASSUME SoleInv, [WorkerNext]_workerVars, WorkerTypeOK', ~touched'
  PROVE  SpentIsKnown'
  <1> USE DEF SoleInv, WorkerTypeOK, SpentIsKnown, GotoStep, SetState, poolVars, workVars, codeVars,
              mailVars, historyVars, Failure, Fatal, Mail
  <1>0. \A m \in spent : m.to \in Address /\ m.to # NoAddress
    BY RegisterWorkerAssumption
  <1>1. CASE UNCHANGED workerVars
    BY <1>1 DEF workerVars
  <1>2. ASSUME NEW w \in MailWorker, Lease(w) PROVE SpentIsKnown'
    BY <1>2, <1>0 DEF Lease, MailAvailable, EntryAvailable
  <1>3. ASSUME NEW w \in MailWorker,
               Authorize(w) \/ StartSignup(w) \/ StartLogin(w) \/ CreateAccount(w) \/ ExchangeTokens(w)
                 \/ Validate(w) \/ AddAccount(w)
        PROVE  SpentIsKnown'
    <2>1. UNCHANGED <<poolVars, box, seen, historyVars>>
      BY <1>3 DEF Authorize, StartSignup, StartLogin, CreateAccount, ExchangeTokens, Validate, AddAccount
    <2> QED BY <2>1
  <1>4. ASSUME NEW w \in MailWorker, WaitForCode(w) PROVE SpentIsKnown'
    <2>1. UNCHANGED <<poolVars, box, touched>> /\ ~touched
      BY <1>4 DEF WaitForCode
    <2>2. CASE UNCHANGED <<seen, spent>>
      BY <2>1, <2>2
    <2>3. ASSUME NEW n \in Candidates(w),
                 seen' = [seen EXCEPT ![w] = @ \cup {n}], spent' = spent \cup {n}
          PROVE  SpentIsKnown'
      <3>1. n \in Mail /\ (n.named => n.to = box[w])
        BY DEF Candidates, MessagesOf, MatchesEmail
      <3>2. n.named => n.to # NoAddress
        BY <3>1, RegisterWorkerAssumption
      <3> QED BY <2>1, <2>3, <3>1, <3>2
    <2> QED BY <1>4, <2>2, <2>3 DEF WaitForCode, Fails
  <1>5. ASSUME NEW w \in MailWorker, MarkUsed(w) PROVE SpentIsKnown'
    BY <1>5 DEF MarkUsed
  <1>6. ASSUME NEW w \in MailWorker, MarkFailed(w) \/ MarkLogin(w) PROVE SpentIsKnown'
    <2>1. UNCHANGED <<touched, spent>> /\ \E a : SetState(a, error[w])
      BY <1>6 DEF MarkFailed, MarkLogin
    <2>2. UNCHANGED <<box, seen>> \/ Leave(w)
      BY <1>6 DEF MarkFailed, MarkLogin
    <2> QED BY <1>0, <2>1, <2>2 DEF Leave
  <1>7. ASSUME NEW w \in MailWorker, Verify(w) PROVE SpentIsKnown'
    BY <1>0, <1>7 DEF Verify, Leave
  <1>8. CASE Deliver \/ PrunePool
    BY <1>8 DEF Deliver, PrunePool
  <1>9. CASE RestartWorkers
    BY <1>0, <1>9 DEF RestartWorkers
  <1>10. CASE HourPasses \/ ResetPool \/ ImportCredential
    BY <1>10 DEF HourPasses, ResetPool, ImportCredential, TouchLeases
  <1> QED
    BY <1>1, <1>2, <1>3, <1>4, <1>5, <1>6, <1>7, <1>8, <1>9, <1>10 DEF WorkerNext, Registers

LEMMA SoleStep == SoleInv /\ [WorkerNext]_workerVars => SoleInv'
  <1> SUFFICES ASSUME SoleInv, [WorkerNext]_workerVars PROVE SoleInv'
    OBVIOUS
  <1>t. WorkerTypeOK' /\ (~touched' => SpentIsKnown')
    BY WorkerTypeStep, SpentStep
  <1> USE <1>t DEF SoleInv, WorkerTypeOK, GotoStep, SetState, poolVars, workVars, codeVars, mailVars,
              historyVars, Failure, Fatal
  <1>1. CASE UNCHANGED workerVars
    BY <1>1 DEF workerVars
  <1>2. ASSUME NEW w \in MailWorker, Lease(w) PROVE SoleInv'
    BY <1>2, RegisterWorkerAssumption DEF Lease, MailAvailable, EntryAvailable
  <1>3. ASSUME NEW w \in MailWorker,
               Authorize(w) \/ StartSignup(w) \/ StartLogin(w) \/ CreateAccount(w) \/ ExchangeTokens(w)
                 \/ Validate(w) \/ AddAccount(w)
        PROVE  SoleInv'
    <2>1. /\ at[w] # "idle" /\ \E p : p # "idle" /\ at' = [at EXCEPT ![w] = p]
          /\ UNCHANGED <<poolVars, box, seen, code, historyVars>>
      BY <1>3 DEF Authorize, StartSignup, StartLogin, CreateAccount, ExchangeTokens, Validate, AddAccount,
                  Fails
    <2> QED BY <2>1
  <1>4. ASSUME NEW w \in MailWorker, WaitForCode(w) PROVE SoleInv'
    BY <1>4 DEF WaitForCode, Fails
  <1>5. ASSUME NEW w \in MailWorker, MarkUsed(w) PROVE SoleInv'
    BY <1>5 DEF MarkUsed
  <1>6. ASSUME NEW w \in MailWorker, MarkFailed(w) \/ MarkLogin(w) PROVE SoleInv'
    <2>1. CASE MarkFailed(w)
      <3>1. at[w] = "markFailed" /\ SetState(box[w], error[w]) /\ UNCHANGED <<mailPool, mailVars, historyVars>>
        BY <2>1 DEF MarkFailed
      <3>2. CASE at' = [at EXCEPT ![w] = "markLogin"] /\ UNCHANGED <<box, flow, retried, error, codeVars>>
        BY <3>1, <3>2
      <3>3. CASE Leave(w)
        BY <3>1, <3>3 DEF Leave
      <3> QED BY <2>1, <3>2, <3>3 DEF MarkFailed
    <2>2. CASE MarkLogin(w)
      BY <2>2 DEF MarkLogin, Leave
    <2> QED BY <1>6, <2>1, <2>2
  <1>7. ASSUME NEW w \in MailWorker, Verify(w) PROVE SoleInv'
    BY <1>7 DEF Verify, Leave
  <1>8. CASE Deliver
    BY <1>8 DEF Deliver
  <1>9. CASE HourPasses \/ ResetPool \/ ImportCredential
    BY <1>9 DEF HourPasses, ResetPool, ImportCredential, TouchLeases
  <1>10. CASE PrunePool \/ RestartWorkers
    BY <1>10 DEF PrunePool, RestartWorkers
  <1> QED
    BY <1>1, <1>2, <1>3, <1>4, <1>5, <1>6, <1>7, <1>8, <1>9, <1>10 DEF WorkerNext, Registers

LEMMA SoleInvariant == WorkerSpec => []SoleInv
  BY WorkerInitInv, SoleStep, PTL DEF WorkerSpec

\* Two workers never hold one address, unless a lease was ended or cleared from outside:
\* create_mailbox and mark_mailbox_result, of any number of workers, through restarts.
THEOREM HoldersAreSole == WorkerSpec => []SoleHolder
  <1>1. SoleInv => SoleHolder
    BY DEF SoleInv, SoleHolder
  <1> QED BY <1>1, SoleInvariant, PTL

\* Under that condition the code of a mail that names its recipient is submitted once
\* (wait_for_code), for any number of workers, aliases and mails: the worker that takes
\* it holds the address, and would have seen the mail if it had been submitted.
THEOREM CodesAreSubmittedOnce == WorkerSpec => SubmittedOnce
  <1> DEFINE Once == ~touched =>
        \A w \in MailWorker :
          at[w] = "wait" /\ at'[w] = "validate" /\ code'[w].named => code'[w] \notin spent
  <1>1. ASSUME SoleInv, [WorkerNext]_workerVars, ~touched, NEW w \in MailWorker,
               at[w] = "wait", at'[w] = "validate", code'[w].named
        PROVE  code'[w] \notin spent
    <2>1. WaitForCode(w)
      <3> USE DEF GotoStep, Fails, SoleInv, WorkerTypeOK
      <3>1. CASE UNCHANGED workerVars
        BY <1>1, <3>1 DEF workerVars, workVars
      <3>2. CASE \E v \in MailWorker : Registers(v)
        <4>1. PICK v \in MailWorker : Registers(v)
          BY <3>2
        <4>2. v = w
          BY <1>1, <4>1 DEF Registers, Lease, Authorize, StartSignup, StartLogin, WaitForCode, Validate,
             CreateAccount, ExchangeTokens, MarkUsed, MarkFailed, MarkLogin, AddAccount, Verify, Leave
        <4> QED BY <1>1, <4>1, <4>2 DEF Registers, Lease, Authorize, StartSignup, StartLogin, Validate,
             CreateAccount, ExchangeTokens, MarkUsed, MarkFailed, MarkLogin, AddAccount, Verify
      <3>3. CASE Deliver \/ HourPasses \/ ResetPool \/ ImportCredential \/ PrunePool \/ RestartWorkers
        BY <1>1, <3>3 DEF Deliver, HourPasses, ResetPool, ImportCredential, PrunePool, RestartWorkers, workVars
      <3> QED BY <1>1, <3>1, <3>2, <3>3 DEF WorkerNext
    <2>2. PICK m \in Candidates(w) : code' = [code EXCEPT ![w] = m]
      BY <1>1, <2>1 DEF WaitForCode, Fails, GotoStep, SoleInv, WorkerTypeOK
    <2>3. code'[w] = m /\ m.to = box[w] /\ m \notin seen[w]
      BY <1>1, <2>2 DEF SoleInv, WorkerTypeOK, Candidates, MessagesOf, MatchesEmail
    <2> QED BY <1>1, <2>3 DEF SoleInv, SpentIsKnown
  <1>2. SoleInv /\ [WorkerNext]_workerVars => [Once]_workerVars
    BY <1>1
  <1> QED BY <1>2, SoleInvariant, PTL DEF WorkerSpec, SubmittedOnce

------------------------------------------------------------------------------
(* The stored images (Gallery)                                             *)
(*                                                                         *)
(* Proofs about the stored images: for any set of images and any number of *)
(* changes of the mode and of deaths, an image whose save has returned is  *)
(* served until it is removed.                                             *)
(*                                                                         *)
(* A promise of a copy is kept by the entry, and by the entries that a     *)
(* running sync will write; nobody but a deletion takes the copy, and it   *)
(* takes the promise too.  A promise of a file only comes with an entry    *)
(* that knows of no copy, so that a sync which knows of one has made it.   *)

USE GalleryAssumption

FilePromise(p) ==
  promised[p] = "file" =>
    p \in file /\ ~entry[p].webdav /\ (syncing /\ held[p].webdav => p \in remote)

CopyPromise(p) ==
  promised[p] = "copy" => p \in remote /\ entry[p].webdav /\ (syncing => held[p].webdav)

\* A save that is about to write its entry has the copy it will claim.
CopyMade(p) ==
  /\ saver[p] = "file" => saveMode[p] # "webdav"
  /\ saver[p] = "book" /\ saveMode[p] # "local" /\ p \notin deleted => p \in remote

PromiseInv ==
  \A p \in Picture :
    /\ FilePromise(p) /\ CopyPromise(p) /\ CopyMade(p)
    /\ p \in deleted => promised[p] = "nothing"

\* A deletion that removed a file has been noted.
DoomInv == deleter = "index" /\ unlinked => doomed \in deleted

GalleryInv == GalleryTypeOK /\ PromiseInv /\ DoomInv

LEMMA NoEntryFact == NoEntry \in Entry /\ ~NoEntry.local /\ ~NoEntry.webdav
  BY DEF Entry, NoEntry

LEMMA GalleryInitInv == GalleryInit => GalleryInv
  <1> SUFFICES ASSUME GalleryInit PROVE GalleryInv
    OBVIOUS
  <1>1. GalleryTypeOK
    <2>1. 0 \in 0..MaxModes /\ 0 \in 0..MaxHalts
      OBVIOUS
    <2>2. /\ entry \in [Picture -> Entry] /\ held \in [Picture -> Entry]
          /\ saveMode \in [Picture -> Mode]
      BY NoEntryFact DEF GalleryInit, Mode
    <2> QED BY <2>1, <2>2 DEF GalleryInit, GalleryTypeOK
  <1>2. PromiseInv /\ DoomInv
    BY DEF GalleryInit, PromiseInv, FilePromise, CopyPromise, CopyMade, DoomInv
  <1> QED BY <1>1, <1>2 DEF GalleryInv

\* A listing changes an entry's word on the file only.
LEMMA ListingKeepsCopies ==
  ASSUME GalleryTypeOK, NEW p \in Picture, NEW refresh \in BOOLEAN, NEW verify \in BOOLEAN
  PROVE  Refreshed(p, refresh, verify) \in Entry /\ Refreshed(p, refresh, verify).webdav = entry[p].webdav
  <1> DEFINE e == IF refresh /\ entry[p] = NoEntry /\ p \in file THEN [local |-> TRUE, webdav |-> FALSE] ELSE entry[p]
  <1>1. e \in Entry /\ e.webdav = entry[p].webdav
    BY NoEntryFact DEF GalleryTypeOK, Entry
  <1>2. [e EXCEPT !.local = p \in file] \in Entry /\ [e EXCEPT !.local = p \in file].webdav = e.webdav
    <2> HIDE DEF e
    <2>1. e \in [local : BOOLEAN, webdav : BOOLEAN] /\ (p \in file) \in BOOLEAN
      BY <1>1 DEF Entry
    <2> QED BY <2>1, Zenon DEF Entry
  <1>3. Refreshed(p, refresh, verify) = IF verify /\ e # NoEntry THEN [e EXCEPT !.local = p \in file] ELSE e
    BY DEF Refreshed
  <1> HIDE DEF e
  <1> QED BY <1>1, <1>2, <1>3

LEMMA UnlinkedFiles ==
  ASSUME GalleryTypeOK, NEW P \in SUBSET Picture, Unlink(P)
  PROVE  /\ file' \subseteq Picture /\ promised' \in [Picture -> {"nothing", "file", "copy"}]
         /\ \A p \in Picture : /\ promised'[p] = "file" => promised[p] = "file" /\ (p \in file => p \in file')
                               /\ promised'[p] = "copy" => promised[p] = "copy"
                               /\ promised[p] = "nothing" => promised'[p] = "nothing"
  BY DEF GalleryTypeOK, Unlink

LEMMA CleanedFiles ==
  ASSUME GalleryTypeOK, CleanOld
  PROVE  /\ file' \subseteq Picture /\ promised' \in [Picture -> {"nothing", "file", "copy"}]
         /\ \A p \in Picture : /\ promised'[p] = "file" => promised[p] = "file" /\ (p \in file => p \in file')
                               /\ promised'[p] = "copy" => promised[p] = "copy"
                               /\ promised[p] = "nothing" => promised'[p] = "nothing"
  <1>1. PICK P \in SUBSET {p \in file : ~Saving(p)} : Unlink(P)
    BY DEF CleanOld
  <1>2. P \in SUBSET Picture
    BY DEF GalleryTypeOK
  <1> QED BY <1>1, <1>2, UnlinkedFiles

LEMMA GalleryTypeStep == GalleryInv /\ [GalleryNext]_galleryVars => GalleryTypeOK'
  <1> SUFFICES ASSUME GalleryInv, [GalleryNext]_galleryVars PROVE GalleryTypeOK'
    OBVIOUS
  <1> USE DEF GalleryInv, GalleryTypeOK, Entry, Mode,
              saveVars, syncVars, deleteVars, thumbVars, boundVars
  <1>1. CASE UNCHANGED galleryVars
    BY <1>1 DEF galleryVars
  <1>2. ASSUME NEW p \in Picture, SaveBegins(p) PROVE GalleryTypeOK'
    BY <1>2, CleanedFiles DEF SaveBegins
  <1>3. ASSUME NEW p \in Picture, SaveWrites(p) PROVE GalleryTypeOK'
    BY <1>3 DEF SaveWrites
  <1>4. ASSUME NEW p \in Picture, SavePuts(p) PROVE GalleryTypeOK'
    BY <1>4 DEF SavePuts
  <1>5. ASSUME NEW p \in Picture, SaveFails(p) PROVE GalleryTypeOK'
    BY <1>5 DEF SaveFails
  <1>6. ASSUME NEW p \in Picture, SaveBooks(p) PROVE GalleryTypeOK'
    BY <1>6 DEF SaveBooks, Booked, Stored
  <1>7. ASSUME NEW p \in Picture, DeleteBegins(p) PROVE GalleryTypeOK'
    BY <1>7 DEF DeleteBegins
  <1>8. CASE DeleteIndexed
    <2>1. doomed \in Picture
      BY <1>8 DEF DeleteIndexed
    <2>2. entry' \in [Picture -> Entry]
      BY <1>8, <2>1, NoEntryFact DEF DeleteIndexed
    <2>3. promised' \in [Picture -> {"nothing", "file", "copy"}] /\ deleted' \subseteq Picture
      BY <1>8, <2>1 DEF DeleteIndexed
    <2>4. remote' \subseteq Picture
      BY <1>8 DEF DeleteIndexed
    <2>5. /\ deleter' \in {"idle", "index", "rest"} /\ doomed' \in Picture \cup {NoPicture}
          /\ deleter' = "idle" <=> doomed' = NoPicture
      BY <1>8, <2>1 DEF DeleteIndexed
    <2> QED BY <1>8, <2>2, <2>3, <2>4, <2>5 DEF DeleteIndexed
  <1>9. CASE DeleteEnds
    BY <1>9 DEF DeleteEnds
  <1>10. CASE List
    BY <1>10, ListingKeepsCopies DEF List
  <1>11. CASE SyncBegins
    BY <1>11 DEF SyncBegins
  <1>12. ASSUME NEW p \in Picture, SyncFile(p) PROVE GalleryTypeOK'
    <2>1. [local |-> TRUE, webdav |-> TRUE] \in Entry
      OBVIOUS
    <2>2. [held EXCEPT ![p] = [local |-> TRUE, webdav |-> TRUE]] \in [Picture -> Entry]
      BY <2>1
    <2>3. held' \in [Picture -> Entry]
      BY <1>12, <2>2 DEF SyncFile
    <2> QED BY <1>12, <2>3 DEF SyncFile
  <1>13. CASE SyncEnds
    BY <1>13, NoEntryFact DEF SyncEnds
  <1>14. ASSUME NEW p \in Picture, Shrink(p) PROVE GalleryTypeOK'
    BY <1>14 DEF Shrink
  <1>15. CASE ShrinkEnds
    BY <1>15 DEF ShrinkEnds
  <1>16. ASSUME NEW p \in Picture, ThumbBegins(p) PROVE GalleryTypeOK'
    BY <1>16 DEF ThumbBegins
  <1>17. ASSUME NEW p \in Picture, ThumbEnds(p) PROVE GalleryTypeOK'
    BY <1>17 DEF ThumbEnds
  <1>18. CASE SetTags
    BY <1>18 DEF SetTags
  <1>19. CASE UpkeepBegins
    BY <1>19, CleanedFiles DEF UpkeepBegins
  <1>20. CASE UpkeepLists
    BY <1>20, ListingKeepsCopies DEF UpkeepLists
  <1>21. CASE UpkeepThumbs
    BY <1>21 DEF UpkeepThumbs
  <1>22. ASSUME NEW p \in Picture, FreeSpace(p) PROVE GalleryTypeOK'
    BY <1>22, UnlinkedFiles DEF FreeSpace
  <1>23. CASE ChangeMode
    BY <1>23 DEF ChangeMode
  <1>24. CASE Halt
    <2>1. held' \in [Picture -> Entry]
      BY <1>24, NoEntryFact DEF Halt
    <2>2. saver' \in [Picture -> {"new", "file", "put", "book", "done", "failed"}]
      BY <1>24 DEF Halt
    <2>3. saveMode' \in [Picture -> Mode]
      BY <1>24 DEF Halt
    <2>4. halts' \in 0..MaxHalts
      BY <1>24 DEF Halt
    <2> QED BY <1>24, <2>1, <2>2, <2>3, <2>4 DEF Halt
  <1> QED
    BY <1>1, <1>2, <1>3, <1>4, <1>5, <1>6, <1>7, <1>8, <1>9, <1>10, <1>11, <1>12, <1>13, <1>14, <1>15, <1>16, <1>17, <1>18, <1>19, <1>20, <1>21, <1>22, <1>23, <1>24 DEF GalleryNext

LEMMA PromiseStep == GalleryInv /\ [GalleryNext]_galleryVars => PromiseInv'
  <1> SUFFICES ASSUME GalleryInv, [GalleryNext]_galleryVars PROVE PromiseInv'
    OBVIOUS
  <1> USE DEF GalleryInv, GalleryTypeOK, PromiseInv, FilePromise, CopyPromise, CopyMade, DoomInv, Entry, Mode,
              saveVars, syncVars, deleteVars, thumbVars, boundVars
  <1>1. CASE UNCHANGED galleryVars
    BY <1>1 DEF galleryVars
  <1>2. ASSUME NEW p \in Picture, SaveBegins(p) PROVE PromiseInv'
    BY <1>2, CleanedFiles DEF SaveBegins
  <1>3. ASSUME NEW p \in Picture, SaveWrites(p) PROVE PromiseInv'
    BY <1>3 DEF SaveWrites
  <1>4. ASSUME NEW p \in Picture, SavePuts(p) PROVE PromiseInv'
    BY <1>4 DEF SavePuts
  <1>5. ASSUME NEW p \in Picture, SaveFails(p) PROVE PromiseInv'
    BY <1>5 DEF SaveFails
  <1>6. ASSUME NEW p \in Picture, SaveBooks(p) PROVE PromiseInv'
    <2>1. \A q \in Picture : q # p => entry'[q] = entry[q] /\ promised'[q] = promised[q]
      BY <1>6 DEF SaveBooks, Booked
    <2>2. entry'[p].webdav = (saveMode[p] # "local")
      BY <1>6 DEF SaveBooks, Booked, Stored
    <2>3. \A q \in Picture : q # p => saver'[q] = saver[q] /\ saveMode'[q] = saveMode[q]
      BY <1>6 DEF SaveBooks
    <2>4. saver'[p] = "done" /\ promised'[p] = (IF p \in deleted THEN "nothing" ELSE IF saveMode[p] # "local" THEN "copy"
                                                ELSE IF p \in file THEN "file" ELSE "nothing")
      BY <1>6 DEF SaveBooks
    <2>5. ~syncing /\ ~syncing' /\ file' = file /\ remote' = remote /\ deleted' = deleted /\ saver[p] = "book"
      BY <1>6 DEF SaveBooks
    <2>6. ASSUME NEW q \in Picture
          PROVE  /\ FilePromise(q)' /\ CopyPromise(q)' /\ CopyMade(q)'
                 /\ q \in deleted' => promised'[q] = "nothing"
      <3>1. CASE q = p
        BY <3>1, <2>2, <2>4, <2>5
      <3>2. CASE q # p
        BY <3>2, <2>1, <2>3, <2>5
      <3> QED BY <3>1, <3>2
    <2> QED BY <2>6
  <1>7. ASSUME NEW p \in Picture, DeleteBegins(p) PROVE PromiseInv'
    BY <1>7 DEF DeleteBegins
  <1>8. CASE DeleteIndexed
    BY <1>8, NoEntryFact DEF DeleteIndexed
  <1>9. CASE DeleteEnds
    BY <1>9 DEF DeleteEnds
  <1>10. CASE List
    BY <1>10, ListingKeepsCopies DEF List
  <1>11. CASE SyncBegins
    BY <1>11 DEF SyncBegins
  <1>12. ASSUME NEW p \in Picture, SyncFile(p) PROVE PromiseInv'
    BY <1>12 DEF SyncFile
  <1>13. CASE SyncEnds
    BY <1>13, NoEntryFact DEF SyncEnds
  <1>14. ASSUME NEW p \in Picture, Shrink(p) PROVE PromiseInv'
    BY <1>14 DEF Shrink
  <1>15. CASE ShrinkEnds
    BY <1>15 DEF ShrinkEnds
  <1>16. ASSUME NEW p \in Picture, ThumbBegins(p) PROVE PromiseInv'
    BY <1>16 DEF ThumbBegins
  <1>17. ASSUME NEW p \in Picture, ThumbEnds(p) PROVE PromiseInv'
    BY <1>17 DEF ThumbEnds
  <1>18. CASE SetTags
    BY <1>18 DEF SetTags
  <1>19. CASE UpkeepBegins
    BY <1>19, CleanedFiles DEF UpkeepBegins
  <1>20. CASE UpkeepLists
    BY <1>20, ListingKeepsCopies DEF UpkeepLists
  <1>21. CASE UpkeepThumbs
    BY <1>21 DEF UpkeepThumbs
  <1>22. ASSUME NEW p \in Picture, FreeSpace(p) PROVE PromiseInv'
    BY <1>22, UnlinkedFiles DEF FreeSpace
  <1>23. CASE ChangeMode
    BY <1>23 DEF ChangeMode
  <1>24. CASE Halt
    BY <1>24, NoEntryFact DEF Halt
  <1> QED
    BY <1>1, <1>2, <1>3, <1>4, <1>5, <1>6, <1>7, <1>8, <1>9, <1>10, <1>11, <1>12, <1>13, <1>14, <1>15, <1>16, <1>17, <1>18, <1>19, <1>20, <1>21, <1>22, <1>23, <1>24 DEF GalleryNext

LEMMA DoomStep == GalleryInv /\ [GalleryNext]_galleryVars => DoomInv'
  <1> SUFFICES ASSUME GalleryInv, [GalleryNext]_galleryVars PROVE DoomInv'
    OBVIOUS
  <1> USE DEF GalleryInv, GalleryTypeOK, DoomInv,
              saveVars, syncVars, deleteVars, thumbVars, boundVars
  <1>1. CASE UNCHANGED galleryVars
    BY <1>1 DEF galleryVars
  <1>2. ASSUME NEW p \in Picture, SaveBegins(p) PROVE DoomInv'
    BY <1>2, CleanedFiles DEF SaveBegins
  <1>3. ASSUME NEW p \in Picture, SaveWrites(p) PROVE DoomInv'
    BY <1>3 DEF SaveWrites
  <1>4. ASSUME NEW p \in Picture, SavePuts(p) PROVE DoomInv'
    BY <1>4 DEF SavePuts
  <1>5. ASSUME NEW p \in Picture, SaveFails(p) PROVE DoomInv'
    BY <1>5 DEF SaveFails
  <1>6. ASSUME NEW p \in Picture, SaveBooks(p) PROVE DoomInv'
    BY <1>6 DEF SaveBooks, Booked, Stored
  <1>7. ASSUME NEW p \in Picture, DeleteBegins(p) PROVE DoomInv'
    BY <1>7 DEF DeleteBegins
  <1>8. CASE DeleteIndexed
    BY <1>8, NoEntryFact DEF DeleteIndexed
  <1>9. CASE DeleteEnds
    BY <1>9 DEF DeleteEnds
  <1>10. CASE List
    BY <1>10, ListingKeepsCopies DEF List
  <1>11. CASE SyncBegins
    BY <1>11 DEF SyncBegins
  <1>12. ASSUME NEW p \in Picture, SyncFile(p) PROVE DoomInv'
    BY <1>12 DEF SyncFile
  <1>13. CASE SyncEnds
    BY <1>13, NoEntryFact DEF SyncEnds
  <1>14. ASSUME NEW p \in Picture, Shrink(p) PROVE DoomInv'
    BY <1>14 DEF Shrink
  <1>15. CASE ShrinkEnds
    BY <1>15 DEF ShrinkEnds
  <1>16. ASSUME NEW p \in Picture, ThumbBegins(p) PROVE DoomInv'
    BY <1>16 DEF ThumbBegins
  <1>17. ASSUME NEW p \in Picture, ThumbEnds(p) PROVE DoomInv'
    BY <1>17 DEF ThumbEnds
  <1>18. CASE SetTags
    BY <1>18 DEF SetTags
  <1>19. CASE UpkeepBegins
    BY <1>19, CleanedFiles DEF UpkeepBegins
  <1>20. CASE UpkeepLists
    BY <1>20, ListingKeepsCopies DEF UpkeepLists
  <1>21. CASE UpkeepThumbs
    BY <1>21 DEF UpkeepThumbs
  <1>22. ASSUME NEW p \in Picture, FreeSpace(p) PROVE DoomInv'
    BY <1>22, UnlinkedFiles DEF FreeSpace
  <1>23. CASE ChangeMode
    BY <1>23 DEF ChangeMode
  <1>24. CASE Halt
    BY <1>24, NoEntryFact DEF Halt
  <1> QED
    BY <1>1, <1>2, <1>3, <1>4, <1>5, <1>6, <1>7, <1>8, <1>9, <1>10, <1>11, <1>12, <1>13, <1>14, <1>15, <1>16, <1>17, <1>18, <1>19, <1>20, <1>21, <1>22, <1>23, <1>24 DEF GalleryNext

LEMMA GalleryStep == GalleryInv /\ [GalleryNext]_galleryVars => GalleryInv'
  BY GalleryTypeStep, PromiseStep, DoomStep DEF GalleryInv

LEMMA InvServes == GalleryInv => StoredIsServed
  BY DEF GalleryInv, GalleryTypeOK, PromiseInv, FilePromise, CopyPromise, StoredIsServed, Served

\* An image whose save has returned is served until somebody deletes it, or
\* the upkeep removes its only file.
THEOREM GalleryServes == GallerySpec => []StoredIsServed
  <1>1. GallerySpec => []GalleryInv
    BY GalleryInitInv, GalleryStep, PTL DEF GallerySpec
  <1> QED BY <1>1, InvServes, PTL
==============================================================================
