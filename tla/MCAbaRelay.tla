----------------------------- MODULE MCAbaRelay -----------------------------
(* AbaRelay for model checking: the configurations only give it constants. *)
EXTENDS AbaRelay
=============================================================================
