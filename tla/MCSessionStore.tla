--------------------------- MODULE MCSessionStore ---------------------------
(* SessionStore for TLC: every session runs between one ABA and one HC. *)
EXTENDS SessionStore, TLC

CONSTANTS a1, h1

SharedAba == [s \in Sessions |-> a1]
SharedHc == [s \in Sessions |-> h1]

TxSymmetry == Permutations(Tx)
=============================================================================
