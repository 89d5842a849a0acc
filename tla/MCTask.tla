------------------------------- MODULE MCTask -------------------------------
(***************************************************************************)
(* Three starts: a restart from inside Execute, and a second one while the *)
(* first loop is still there; two Execute goroutines, a leftover one and a *)
(* new one.                                                                *)
(***************************************************************************)
EXTENDS Task
CONSTANTS e1, e2
=============================================================================
