---------------------------- MODULE MCOAuthRefresh ----------------------------
(* Instances of OAuthRefresh for TLC. *)
EXTENDS OAuthRefresh
=============================================================================
