--------------------------- MODULE MCDeviceReport ---------------------------
(***************************************************************************)
(* Small instances of DeviceReport: two writers, so that one may change a  *)
(* table while another has still to set the mark, and a queue of two, so   *)
(* that it is often full.                                                  *)
(***************************************************************************)
EXTENDS DeviceReport

CONSTANTS u1, i1, i2, w1, w2

\* No action tells addresses or writers apart.
Sym == Permutations(IPs) \cup Permutations(Writers)
=============================================================================
