---------------------------- MODULE MCTrustState ----------------------------
(* TrustState for TLC. *)
EXTENDS TrustState
=============================================================================
