-------------------------------- MODULE MCSupply --------------------------------
(***************************************************************************)
(* Where accounts come from and what their use costs, for TLC: an          *)
(* account's renewal next to its requests (AccountPool), the requests of   *)
(* the Firefly channel (FireflyRequest), and the usage ledger              *)
(* (UsageLedger).  The parts share no state: a behaviour is one of one     *)
(* part.                                                                   *)
(***************************************************************************)
EXTENDS AccountPool, FireflyRequest, UsageLedger, TLC

CONSTANTS a1, w1, f1, f2, x, y

VARIABLE part

partVars == <<part, vars, fqVars, usageVars>>

\* Requests are interchangeable, and so are accounts.
SupplySymmetry == Permutations(FqRequest) \cup Permutations(FqAccount)

\* The Firefly part may stop when its requests are all over, and no other part.
AtRest ==
  /\ part = "firefly" /\ \A r \in FqRequest : fqStep[r] = "done"
  /\ UNCHANGED partVars

SupplyInit ==
  /\ part \in {"pool", "firefly", "ledger"}
  /\ Init /\ FqInit /\ UsageInit

SupplyNext ==
  \/ part = "pool" /\ Next /\ UNCHANGED <<part, fqVars, usageVars>>
  \/ part = "firefly" /\ FqNext /\ UNCHANGED <<part, vars, usageVars>>
  \/ part = "ledger" /\ UsageNext /\ UNCHANGED <<part, vars, fqVars>>
  \/ AtRest

SupplySpec == SupplyInit /\ [][SupplyNext]_partVars
=============================================================================
