----------------------------- MODULE MCDelivery -----------------------------
(***************************************************************************)
(* Delivery for TLC; the constants are numbers and come from the           *)
(* configuration.                                                          *)
(***************************************************************************)
EXTENDS Delivery

(* A session without trouble is explored to its last frame, one with troubles to a *)
(* frame less for each of them.                                                    *)
Explored ==
    LET one(trouble) == IF trouble THEN 1 ELSE 0 IN
    sealed + one(~Open) + one(halted # "no") + one(~held) + one(stale # {}) <= Frames
=============================================================================
