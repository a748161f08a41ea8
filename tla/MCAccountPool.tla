---------------------------- MODULE MCAccountPool ----------------------------
(* Instances of AccountPool for TLC. *)
EXTENDS AccountPool, TLC

CONSTANTS a1, a2, w1, w2, w3

\* Requests are interchangeable, and so are accounts.
PoolSymmetry == Permutations(Worker) \cup Permutations(Account)
=============================================================================
