---------------------------- MODULE MCOnboarding ----------------------------
(* Onboarding for TLC: every endpoint is made with one signing key. *)
EXTENDS Onboarding, TLC

CONSTANT device

OneKey == [o \in Enrollments \cup Challenges |-> device]

Renaming == Permutations(Requests) \cup Permutations(Enrollments) \cup Permutations(Users)
=============================================================================
