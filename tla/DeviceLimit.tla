----------------------------- MODULE DeviceLimit -----------------------------
(***************************************************************************)
(* What the device gate promises, without its locks, tables, goroutines    *)
(* and counters.  A user has a set of devices on the node, which grows by  *)
(* one device at a time, within a limit the panel gave the user, and never *)
(* by a device that was kicked and whose cooldown lasts.  DeviceGate       *)
(* implements this specification: its instance there maps the connection   *)
(* counts to the devices and the active cooldown entries to the banned     *)
(* addresses.                                                              *)
(***************************************************************************)
EXTENDS Integers, FiniteSets

CONSTANTS
    Users,         \* users of the node
    IPs,           \* addresses, the devices of a user
    DeviceLimits   \* per user, the limits the panel may send

VARIABLES
    devices,       \* the devices of each user that are online
    banned         \* the devices of each user in their cooldown

vars == <<devices, banned>>

\* A user who may be unlimited is promised nothing.
Metered == {u \in Users : \A l \in DeviceLimits[u] : l > 0}

WithinLimit(u, ds) == \E l \in DeviceLimits[u] : Cardinality(ds) <= l

Init ==
    /\ devices = [u \in Users |-> {}]
    /\ banned = [u \in Users |-> {}]

\* A connection from a new address is counted.
Join(u, i) ==
    /\ u \in Metered => i \notin banned[u] /\ WithinLimit(u, devices[u] \cup {i})
    /\ devices' = [devices EXCEPT ![u] = @ \cup {i}]

\* The last connection from an address ends.
Leave(u, i) == devices' = [devices EXCEPT ![u] = @ \ {i}]

\* The user is deleted: its devices are forgotten, and later its cooldowns.
Forget(u) == devices' = [devices EXCEPT ![u] = {}]

Pardon(u) == banned' = [banned EXCEPT ![u] = {}]

\* An evicted device starts its cooldown; the cooldown elapses.
Ban(u, i) == banned' = [banned EXCEPT ![u] = @ \cup {i}]

Lift(u, i) == banned' = [banned EXCEPT ![u] = @ \ {i}]

\* Devices come and go, or bans do, of one user at a time; never both at once.
DevicesChange ==
    /\ devices' # devices /\ UNCHANGED banned
    /\ \E u \in Users : Forget(u) \/ \E i \in IPs : Join(u, i) \/ Leave(u, i)

BansChange ==
    /\ banned' # banned /\ UNCHANGED devices
    /\ \E u \in Users : Pardon(u) \/ \E i \in IPs : Ban(u, i) \/ Lift(u, i)

Next == DevicesChange \/ BansChange

Spec == Init /\ [][Next]_vars
=============================================================================
