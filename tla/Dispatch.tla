------------------------------ MODULE Dispatch ------------------------------
(***************************************************************************)
(* What the ABA promises about the messages of a session (journal.rs and   *)
(* docs/architecture/ABA.md 18.3): a message is acknowledged only once it  *)
(* is safe, it is handed to the Agent at most once and only after the      *)
(* intention is safe, and it ends answered, uncertain or forgotten.        *)
(***************************************************************************)
CONSTANT Messages

VARIABLES
    phase,  \* message -> how far it came
    acked,  \* messages acknowledged to the HC
    given   \* messages handed to the Agent

vars == <<phase, acked, given>>

Phases == {"UNSEEN", "RECEIVED", "DISPATCH_STARTED", "RESPONDED", "UNCERTAIN", "FORGOTTEN"}

Init ==
    /\ phase = [m \in Messages |-> "UNSEEN"]
    /\ acked = {} /\ given = {}

Move(m, from, to) == phase[m] \in from /\ phase' = [phase EXCEPT ![m] = to]

Accept(m) == Move(m, {"UNSEEN"}, "RECEIVED") /\ UNCHANGED <<acked, given>>

Start(m) == Move(m, {"RECEIVED"}, "DISPATCH_STARTED") /\ UNCHANGED <<acked, given>>

Hand(m) ==
    /\ phase[m] = "DISPATCH_STARTED" /\ m \notin given
    /\ given' = given \cup {m}
    /\ UNCHANGED <<phase, acked>>

Answer(m) ==
    /\ m \in given
    /\ Move(m, {"DISPATCH_STARTED"}, "RESPONDED")
    /\ UNCHANGED <<acked, given>>

(* Nobody knows whether the Agent carried these messages out. *)
Lose(M) ==
    /\ \A m \in M : phase[m] = "DISPATCH_STARTED"
    /\ phase' = [m \in Messages |-> IF m \in M THEN "UNCERTAIN" ELSE phase[m]]
    /\ UNCHANGED <<acked, given>>

Acknowledge(M) ==
    /\ \A m \in M : phase[m] # "UNSEEN"
    /\ acked' = acked \cup M
    /\ UNCHANGED <<phase, given>>

(* The session of these messages was closed. *)
Forget(M) ==
    /\ phase' = [m \in Messages |-> IF m \in M THEN "FORGOTTEN" ELSE phase[m]]
    /\ UNCHANGED <<acked, given>>

Next ==
    \/ \E m \in Messages : Accept(m) \/ Start(m) \/ Hand(m) \/ Answer(m)
    \/ \E M \in SUBSET Messages : Lose(M) \/ Acknowledge(M) \/ Forget(M)

Spec == Init /\ [][Next]_vars
=============================================================================
