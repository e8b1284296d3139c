---------------------------- MODULE MCConnections ----------------------------
(* Connections for TLC: connections of one endpoint, which replays to itself. *)
EXTENDS Connections, TLC

CONSTANT aba

Routes == [c \in Conns |-> aba]

Renaming == Permutations(Conns) \cup Permutations(Workers)
=============================================================================
