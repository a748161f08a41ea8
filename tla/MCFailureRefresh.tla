--------------------------- MODULE MCFailureRefresh ---------------------------
(* Instances of FailureRefresh for TLC. *)
EXTENDS FailureRefresh
=============================================================================
