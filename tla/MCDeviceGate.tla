---------------------------- MODULE MCDeviceGate ----------------------------
(***************************************************************************)
(* Small instances of DeviceGate.  All users share one shard, the case in  *)
(* which the gate lock, the throttle and the purge couple them.            *)
(***************************************************************************)
EXTENDS DeviceGate, TLC

CONSTANTS u1, i1, i2, c1, c2, s1

\* A user whose limit is one device: every second address finds the gate full.
Limit1 == [u \in Users |-> {1}]

\* A user whose limit the panel may move, 0 included: unlimited, past the gate.
Limit012 == [u \in Users |-> {0, 1, 2}]

OneShard == [u \in Users |-> s1]

\* Connections and addresses are interchangeable: no action tells them apart.
Sym == Permutations(Conns) \cup Permutations(IPs)
=============================================================================
