----------------------------- MODULE MCTraffic ------------------------------
(* Two users, so that the walk over the counters has a middle. *)
EXTENDS Traffic
CONSTANTS u1, u2
=============================================================================
