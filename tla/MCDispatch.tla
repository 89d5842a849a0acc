----------------------------- MODULE MCDispatch -----------------------------
(* Two connections of a user, whose own limit may be absent or below the node's. *)
EXTENDS Dispatch, TLC
CONSTANTS c1, c2
Sym == Permutations(Conns)
=============================================================================
