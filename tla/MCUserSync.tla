----------------------------- MODULE MCUserSync -----------------------------
(* Two users, so that a call of the core can fail half way through its slice. *)
EXTENDS UserSync
CONSTANTS u1, u2
=============================================================================
