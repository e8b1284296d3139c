---------------------------- MODULE MCCredentials ----------------------------
(* Instances of Credentials for TLC. The requests are interchangeable. *)
EXTENDS Credentials, TLC

CONSTANT RaceTime   \* a bound: how long the client signs more than one proof

Renaming == Permutations(Requests)

(* Requests with several proofs race early on; one proof is followed for as *)
(* long as its replay row lives and beyond.                                 *)
Explored == now <= RaceTime \/ Cardinality(proofs) <= 1
=============================================================================
