----------------------------- MODULE DeviceGate -----------------------------
(***************************************************************************)
(* The device gate of one node: limiter.Limiter (limiter/limiter.go) with  *)
(* the connections that pass through it (dispatcher/default.go).           *)
(*                                                                         *)
(* A connection is a goroutine that loads the user's limit (CheckLimit),   *)
(* takes the gate lock of the user's shard, checks the cooldown list, the  *)
(* panel's global device table, the local table and, when the global table *)
(* is stale, the REST alive list (TryOpenConn, checkDeviceGate), counts    *)
(* itself (ConnOpened), registers its link (AddLink), and much later       *)
(* un-counts itself (ConnClosed).  Every shared structure has a lock of    *)
(* its own, so every access to one is a step of its own here.              *)
(*                                                                         *)
(* Concurrently: the eviction goroutines (kickDevice), the deletion and    *)
(* re-creation of a user (Xray.DelUsers / AddUsers, Limiter.UpdateUser),   *)
(* the panel's pushes (UpdateGlobalDevices, SetAliveList, sync.kick), the  *)
(* reporter's purge (purgeExpiredCooldowns), and the passing of time.      *)
(*                                                                         *)
(* A user stands for its id and its taguuid alike.  Clock readings are     *)
(* abstracted to the comparisons the code makes: a cooldown entry is       *)
(* active or expired, the global table is fresh or stale, a shard is       *)
(* throttled or not, and time may flip each of them at any step.  The      *)
(* deviceDirty flag, which nothing here reads, and the report.kick message *)
(* are DeviceReport's subject.                                             *)
(***************************************************************************)
EXTENDS Integers, FiniteSets

CONSTANTS
    Users,         \* users of the node
    IPs,           \* source addresses, the "devices" that are counted
    Conns,         \* connection goroutines
    Shards,        \* gate lock shards
    ShardOf,       \* the shard of a user: uid & (gateShards-1)
    DeviceLimits,  \* per user, the device_limit values the panel may send
    Deletable,     \* the users the panel may delete and re-create
    AliveCounts,   \* the counts the REST alive list may hold
    Networks,      \* TRUE for TCP, FALSE for UDP: what connections may ask for
    None           \* no connection, no address, no limit, no request

ASSUME UsersAssumption == IsFiniteSet(Users)
ASSUME IPsAssumption == IsFiniteSet(IPs)
ASSUME ConnsAssumption == IsFiniteSet(Conns)
ASSUME NoneAssumption == None \notin Conns \cup IPs
ASSUME ShardAssumption == ShardOf \in [Users -> Shards]
ASSUME LimitsAssumption ==
    /\ DeviceLimits \in [Users -> SUBSET Int]
    /\ \A u \in Users : DeviceLimits[u] # {} /\ None \notin DeviceLimits[u]
ASSUME DeletableAssumption == Deletable \subseteq Users
ASSUME NetworksAssumption == Networks \subseteq BOOLEAN
ASSUME AliveAssumption == AliveCounts \subseteq Nat /\ 0 \in AliveCounts

VARIABLES
    info,       \* UserLimitInfo: the device limit of a known user, or None
    ref,        \* refShards: user -> address -> open TCP connections
    cool,       \* kickCooldown: user -> address -> "none", "active", "expired"
    coolCount,  \* cooldownCount
    global,     \* globalDevices (globalCount is its cardinality)
    fresh,      \* globalLastUpdate is at most globalDevicesStaleAfter ago
    alive,      \* AliveList
    gate,       \* gateLocks: the connection holding a shard's lock, or None
    throttled,  \* kickThrottle: the shards that evicted within the last second
    kicks,      \* kickDevice goroutines: [user, ip, stage]
    deleting,   \* UpdateUser's progress through a deleted user
    pc,         \* where a connection goroutine stands
    req,        \* its request [user, ip, tcp, lim], or None
    seen        \* the global snapshot it took, and the victim it picked

connVars == <<pc, req, seen>>
panelVars == <<global, fresh, alive>>
vars == <<info, ref, cool, coolCount, global, fresh, alive, gate,
          throttled, kicks, deleting, pc, req, seen>>

-----------------------------------------------------------------------------
Request == [user: Users, ip: IPs, tcp: BOOLEAN, lim: Int]
Snapshot == [fresh: BOOLEAN, ips: SUBSET IPs, victim: IPs \cup {None}]
NoSnapshot == [fresh |-> FALSE, ips |-> {}, victim |-> None]
Kick == [user: Users, ip: IPs, stage: {"local", "cooldown"}]
DeleteStages == {"none", "info", "alive", "refs", "global", "cooldown", "gone"}
CoolStates == {"none", "active", "expired"}

\* The places of a connection goroutine:
\*   idle      not running, or rejected
\*   lock      waiting for the gate lock     global    about to read the global table
\*   local     about to read the local table alive     about to read the alive list
\*   admit     about to count itself         unlinked  not yet in its LinkManager
\*   live      in its LinkManager            ending    its pipes are closed
\*   closing   in ConnClosed, user found
Places == {"idle", "lock", "global", "local", "alive", "admit", "unlinked", "live",
           "ending", "closing"}

\* The devices of a user: the keys of its map in refShards.  ConnClosed deletes a
\* key whose count is no longer positive, so the keys are the positive entries.
Devices(u) == {i \in IPs : ref[u][i] > 0}

\* A TCP connection of a user with a limit runs its gate under the shard's lock;
\* UDP sessions and unlimited users never take it.
Gated(c) == req[c].tcp /\ req[c].lim > 0
InGate(c) == pc[c] \in {"global", "local", "alive", "admit"} /\ Gated(c)

UserTypes ==
    /\ info \in [Users -> Int \cup {None}]
    /\ \A u \in Users : info[u] \in DeviceLimits[u] \cup {None}
    /\ deleting \in [Users -> DeleteStages]

TableTypes ==
    /\ ref \in [Users -> [IPs -> Nat]]
    /\ cool \in [Users -> [IPs -> CoolStates]]
    /\ coolCount \in Int
    /\ global \in [Users -> SUBSET IPs]
    /\ alive \in [Users -> AliveCounts]

GateTypes ==
    /\ fresh \in BOOLEAN
    /\ gate \in [Shards -> Conns \cup {None}]
    /\ throttled \in SUBSET Shards
    /\ kicks \in SUBSET Kick

ConnTypes ==
    /\ pc \in [Conns -> Places]
    /\ req \in [Conns -> Request \cup {None}]
    /\ seen \in [Conns -> Snapshot]
    /\ \A c \in Conns :
         pc[c] # "idle" => /\ req[c] \in Request
                           /\ req[c].lim \in DeviceLimits[req[c].user]

TypeOK == UserTypes /\ TableTypes /\ GateTypes /\ ConnTypes

\* AddLimiter: the tables of a new limiter are empty, its global table has never
\* been updated (stale), and every user of the pulled list has its limit.
Init ==
    /\ info \in {f \in [Users -> UNION {DeviceLimits[u] : u \in Users}] :
                    \A u \in Users : f[u] \in DeviceLimits[u]}
    /\ ref = [u \in Users |-> [i \in IPs |-> 0]]
    /\ cool = [u \in Users |-> [i \in IPs |-> "none"]]
    /\ coolCount = 0
    /\ global = [u \in Users |-> {}]
    /\ fresh = FALSE
    /\ alive \in [Users -> AliveCounts]
    /\ gate = [s \in Shards |-> None]
    /\ throttled = {}
    /\ kicks = {}
    /\ deleting = [u \in Users |-> "none"]
    /\ pc = [c \in Conns |-> "idle"]
    /\ req = [c \in Conns |-> None]
    /\ seen = [c \in Conns |-> NoSnapshot]

-----------------------------------------------------------------------------
\* Seeded fault: the two sizes are added without removing the common addresses.
Bug_GateFullNoDedup(local, globalIPs, limit) ==
    Cardinality(local) + Cardinality(globalIPs) >= limit

(* The verdict of checkDeviceGate on a fresh global table, as the code computes it:
   two bounds that avoid the walk over the table, then the exact union.            *)
GateFull(local, globalIPs, limit) ==
    \/ Cardinality(local) >= limit
    \/ Cardinality(globalIPs) >= limit
    \/ /\ ~(Cardinality(local) + Cardinality(globalIPs) < limit)
       /\ Cardinality(local) + Cardinality(globalIPs \ local) >= limit

\* pickVictim: a local device if there is one, else one of the global table.
pickVictim(local, globalIPs) ==
    IF local # {} THEN local ELSE IF globalIPs # {} THEN globalIPs ELSE {None}

\* The cooldown entries, expired or not, of a set of users.
Listed(us) == {x \in us \X IPs : cool[x[1]][x[2]] # "none"}

inCooldown(u, i) == coolCount # 0 /\ cool[u][i] = "active"

-----------------------------------------------------------------------------
(* The connection goroutine. *)

\* CheckLimit up to the gate: the limit is read once, under UserLimitInfo.mu, and
\* used from here on.  An unknown user is rejected.
CheckLimit(c, u, i, t) ==
    /\ pc[c] = "idle"
    /\ info[u] # None
    /\ req' = [req EXCEPT ![c] = [user |-> u, ip |-> i, tcp |-> t, lim |-> info[u]]]
    /\ pc' = [pc EXCEPT ![c] = CASE t /\ info[u] > 0 -> "lock"
                                 [] t /\ info[u] <= 0 -> "admit"
                                 [] ~t /\ info[u] > 0 -> "global"
                                 [] ~t /\ info[u] <= 0 -> "unlinked"]
    /\ UNCHANGED <<info, ref, cool, coolCount, panelVars, gate, throttled, kicks,
                   deleting, seen>>

\* Seeded fault: a rejected attempt returns without unlocking the gate.
Bug_RejectKeepsLock(c) ==
    /\ pc' = [pc EXCEPT ![c] = "idle"]
    /\ req' = [req EXCEPT ![c] = None]
    /\ seen' = [seen EXCEPT ![c] = NoSnapshot]
    /\ UNCHANGED gate

\* The end of a rejected attempt: the deferred Unlock, and getLink's error return.
Reject(c) ==
    /\ pc' = [pc EXCEPT ![c] = "idle"]
    /\ req' = [req EXCEPT ![c] = None]
    /\ seen' = [seen EXCEPT ![c] = NoSnapshot]
    /\ gate' = IF Gated(c) THEN [gate EXCEPT ![ShardOf[req[c].user]] = None] ELSE gate

\* Seeded fault: the verdict and the count are not under one lock.
Bug_TryOpenConnUnlocked(c) ==
    /\ pc[c] = "lock"
    /\ IF inCooldown(req[c].user, req[c].ip)
       THEN Reject(c)
       ELSE /\ pc' = [pc EXCEPT ![c] = "global"]
            /\ UNCHANGED <<req, seen, gate>>
    /\ UNCHANGED <<info, ref, cool, coolCount, panelVars, throttled, kicks, deleting>>

\* Seeded fault: the cooldown list is not consulted.
Bug_TryOpenConnNoCooldown(c) ==
    /\ pc[c] = "lock"
    /\ gate[ShardOf[req[c].user]] = None
    /\ gate' = [gate EXCEPT ![ShardOf[req[c].user]] = c]
    /\ pc' = [pc EXCEPT ![c] = "global"]
    /\ UNCHANGED <<info, ref, cool, coolCount, panelVars, throttled, kicks, deleting, req, seen>>

\* TryOpenConn: take the shard's lock, then the cooldown check.
TryOpenConn(c) ==
    /\ pc[c] = "lock"
    /\ gate[ShardOf[req[c].user]] = None
    /\ IF inCooldown(req[c].user, req[c].ip)
       THEN Reject(c)
       ELSE /\ gate' = [gate EXCEPT ![ShardOf[req[c].user]] = c]
            /\ pc' = [pc EXCEPT ![c] = "global"]
            /\ UNCHANGED <<req, seen>>
    /\ UNCHANGED <<info, ref, cool, coolCount, panelVars, throttled, kicks, deleting>>

\* checkDeviceGate: the global table is read under globalLock, and used after it;
\* a stale table's addresses are not used at all.
ReadGlobal(c) ==
    /\ pc[c] = "global"
    /\ seen' = [seen EXCEPT ![c] =
                   [fresh |-> fresh, victim |-> None,
                    ips |-> IF fresh THEN global[req[c].user] ELSE {}]]
    /\ pc' = [pc EXCEPT ![c] = "local"]
    /\ UNCHANGED <<info, ref, cool, coolCount, panelVars, gate, throttled, kicks,
                   deleting, req>>

\* TryOpenConn on a full gate: at most one eviction a second and shard, in a
\* goroutine of its own.  UDP sessions evict nobody.
RejectAndKick(c, victim) ==
    LET s == ShardOf[req[c].user]
        evict == req[c].tcp /\ victim # None /\ s \notin throttled
    IN  /\ Reject(c)
        /\ throttled' = IF evict THEN throttled \cup {s} ELSE throttled
        /\ kicks' = IF evict
                    THEN kicks \cup {[user |-> req[c].user, ip |-> victim, stage |-> "local"]}
                    ELSE kicks

\* The gate lets the connection through: TCP counts itself next, UDP never does.
Pass(c) ==
    /\ pc' = [pc EXCEPT ![c] = IF req[c].tcp THEN "admit" ELSE "unlinked"]
    /\ UNCHANGED <<gate, req, throttled, kicks>>

\* checkDeviceGate under the read lock of refShard.
ReadLocal(c) ==
    LET local == Devices(req[c].user)
        lim == req[c].lim
        snap == seen[c]
    IN  /\ pc[c] = "local"
        /\ \/ /\ req[c].ip \in local
              /\ Pass(c) /\ seen' = [seen EXCEPT ![c] = NoSnapshot]
           \/ /\ req[c].ip \notin local /\ snap.fresh /\ req[c].ip \in snap.ips
              /\ RejectAndKick(c, None)
           \/ /\ req[c].ip \notin local /\ snap.fresh /\ req[c].ip \notin snap.ips
              /\ IF GateFull(local, snap.ips, lim)
                 THEN \E v \in pickVictim(local, snap.ips) : RejectAndKick(c, v)
                 ELSE Pass(c) /\ seen' = [seen EXCEPT ![c] = NoSnapshot]
           \/ /\ req[c].ip \notin local /\ ~snap.fresh
              /\ \E v \in pickVictim(local, {}) :
                   IF Cardinality(local) < lim
                   THEN /\ pc' = [pc EXCEPT ![c] = "alive"]
                        /\ seen' = [seen EXCEPT ![c] = [@ EXCEPT !.victim = v]]
                        /\ UNCHANGED <<gate, req, throttled, kicks>>
                   ELSE RejectAndKick(c, v)
        /\ UNCHANGED <<info, ref, cool, coolCount, panelVars, deleting>>

\* checkDeviceGate's fallback: GetAliveCount after refShard's lock is released.
ReadAlive(c) ==
    /\ pc[c] = "alive"
    /\ IF alive[req[c].user] >= req[c].lim
       THEN RejectAndKick(c, seen[c].victim)
       ELSE Pass(c) /\ seen' = [seen EXCEPT ![c] = NoSnapshot]
    /\ UNCHANGED <<info, ref, cool, coolCount, panelVars, deleting>>

\* Seeded fault: an admitted connection keeps the gate lock.
Bug_ConnOpenedKeepsLock(c) ==
    /\ pc[c] = "admit"
    /\ ref' = [ref EXCEPT ![req[c].user][req[c].ip] = @ + 1]
    /\ pc' = [pc EXCEPT ![c] = "unlinked"]
    /\ UNCHANGED <<info, cool, coolCount, panelVars, gate, throttled, kicks, deleting, req, seen>>

\* ConnOpened, then TryOpenConn's deferred Unlock.
ConnOpened(c) ==
    /\ pc[c] = "admit"
    /\ ref' = [ref EXCEPT ![req[c].user][req[c].ip] = @ + 1]
    /\ pc' = [pc EXCEPT ![c] = "unlinked"]
    /\ gate' = IF Gated(c) THEN [gate EXCEPT ![ShardOf[req[c].user]] = None] ELSE gate
    /\ UNCHANGED <<info, cool, coolCount, panelVars, throttled, kicks, deleting, req, seen>>

\* getLink / DispatchLink: the connection enters its LinkManager.
AddLink(c) ==
    /\ pc[c] = "unlinked"
    /\ pc' = [pc EXCEPT ![c] = "live"]
    /\ UNCHANGED <<info, ref, cool, coolCount, panelVars, gate, throttled, kicks,
                   deleting, req, seen>>

\* The outbound handler returns, or an audit rule rejects the destination.
End(c) ==
    /\ pc[c] = "live"
    /\ pc' = [pc EXCEPT ![c] = "ending"]
    /\ UNCHANGED <<info, ref, cool, coolCount, panelVars, gate, throttled, kicks,
                   deleting, req, seen>>

\* routedDispatch's deferred ConnClosed: it looks the user up first; without an
\* entry nothing is un-counted.  A UDP session was never counted.
ConnClosedLookup(c) ==
    /\ pc[c] = "ending"
    /\ IF req[c].tcp /\ info[req[c].user] # None
       THEN pc' = [pc EXCEPT ![c] = "closing"] /\ UNCHANGED req
       ELSE pc' = [pc EXCEPT ![c] = "idle"] /\ req' = [req EXCEPT ![c] = None]
    /\ UNCHANGED <<info, ref, cool, coolCount, panelVars, gate, throttled, kicks,
                   deleting, seen>>

\* Seeded fault: the address is dropped with its first closed connection.
Bug_ConnClosedDropsAddress(c) ==
    /\ pc[c] = "closing"
    /\ ref' = [ref EXCEPT ![req[c].user][req[c].ip] = 0]
    /\ pc' = [pc EXCEPT ![c] = "idle"]
    /\ req' = [req EXCEPT ![c] = None]
    /\ UNCHANGED <<info, cool, coolCount, panelVars, gate, throttled, kicks, deleting, seen>>

\* Seeded fault: a count that is already zero is decremented all the same.
Bug_ConnClosedNoFloor(c) ==
    /\ pc[c] = "closing"
    /\ ref' = [ref EXCEPT ![req[c].user][req[c].ip] = @ - 1]
    /\ pc' = [pc EXCEPT ![c] = "idle"]
    /\ req' = [req EXCEPT ![c] = None]
    /\ UNCHANGED <<info, cool, coolCount, panelVars, gate, throttled, kicks, deleting, seen>>

\* ConnClosed, second half: the count of the address under refShard's lock; a count
\* that reaches zero, or was gone, leaves no entry.
ConnClosed(c) ==
    /\ pc[c] = "closing"
    /\ ref' = [ref EXCEPT ![req[c].user][req[c].ip] = IF @ > 0 THEN @ - 1 ELSE 0]
    /\ pc' = [pc EXCEPT ![c] = "idle"]
    /\ req' = [req EXCEPT ![c] = None]
    /\ UNCHANGED <<info, cool, coolCount, panelVars, gate, throttled, kicks, deleting, seen>>

-----------------------------------------------------------------------------
(* Evictions. *)

\* KickByUserIP / CloseByIP: the registered links of the user from that address.
CloseLinks(u, ips) ==
    pc' = [c \in Conns |->
             IF pc[c] = "live" /\ req[c].user = u /\ req[c].ip \in ips
             THEN "ending" ELSE pc[c]]

\* kickDevice, first half: the local links are closed.
KickDeviceLocal(k) ==
    /\ k \in kicks /\ k.stage = "local"
    /\ CloseLinks(k.user, {k.ip})
    /\ kicks' = (kicks \ {k}) \cup {[k EXCEPT !.stage = "cooldown"]}
    /\ UNCHANGED <<info, ref, cool, coolCount, panelVars, gate, throttled, deleting, req, seen>>

\* Seeded fault: the cooldown list is written without the gate lock.
Bug_KickUnlocked(k) ==
    /\ k \in kicks /\ k.stage = "cooldown"
    /\ coolCount' = IF cool[k.user][k.ip] = "none" THEN coolCount + 1 ELSE coolCount
    /\ cool' = [cool EXCEPT ![k.user][k.ip] = "active"]
    /\ kicks' = kicks \ {k}
    /\ UNCHANGED <<info, ref, panelVars, gate, throttled, deleting, connVars>>

\* kickDevice, second half: under the gate lock the address starts its cooldown; an
\* address already listed is refreshed, not counted twice.
KickDeviceCooldown(k) ==
    /\ k \in kicks /\ k.stage = "cooldown"
    /\ gate[ShardOf[k.user]] = None
    /\ coolCount' = IF cool[k.user][k.ip] = "none" THEN coolCount + 1 ELSE coolCount
    /\ cool' = [cool EXCEPT ![k.user][k.ip] = "active"]
    /\ kicks' = kicks \ {k}
    /\ UNCHANGED <<info, ref, panelVars, gate, throttled, deleting, connVars>>

\* sync.kick, another node's eviction forwarded by the panel: KickLocal only.
SyncKick(u, i) ==
    /\ CloseLinks(u, {i})
    /\ UNCHANGED <<info, ref, cool, coolCount, panelVars, gate, throttled, kicks,
                   deleting, req, seen>>

\* The listed entries of a shard's users whose cooldown is over.
Expired(s) == {x \in Listed(Users) : ShardOf[x[1]] = s /\ cool[x[1]][x[2]] = "expired"}

\* purgeExpiredCooldowns, one shard under its lock.
PurgeExpiredCooldowns(s) ==
    /\ coolCount # 0
    /\ gate[s] = None
    /\ Expired(s) # {}
    /\ coolCount' = coolCount - Cardinality(Expired(s))
    /\ cool' = [u \in Users |-> [i \in IPs |->
                   IF <<u, i>> \in Expired(s) THEN "none" ELSE cool[u][i]]]
    /\ UNCHANGED <<info, ref, panelVars, gate, throttled, kicks, deleting, connVars>>

-----------------------------------------------------------------------------
(* The panel. *)

\* sync.devices replaces the whole table and refreshes it.
UpdateGlobalDevices ==
    /\ global' \in [Users -> SUBSET IPs]
    /\ fresh' = TRUE
    /\ UNCHANGED <<info, ref, cool, coolCount, alive, gate, throttled, kicks, deleting, connVars>>

\* The REST alive list replaces the old one.
SetAliveList ==
    /\ alive' \in [Users -> AliveCounts]
    /\ UNCHANGED <<info, ref, cool, coolCount, global, fresh, gate, throttled, kicks,
                   deleting, connVars>>

\* Xray.DelUsers closes every registered link of a deleted user (CloseAll); the
\* limiter still knows the user until UpdateUser runs.
DelUsers(u) ==
    /\ u \in Deletable /\ deleting[u] = "none"
    /\ deleting' = [deleting EXCEPT ![u] = "info"]
    /\ CloseLinks(u, IPs)
    /\ UNCHANGED <<info, ref, cool, coolCount, panelVars, gate, throttled, kicks, req, seen>>

\* UpdateUser on a deleted user: five structures, one lock after the other.
UpdateUserDelInfo(u) ==
    /\ deleting[u] = "info"
    /\ info' = [info EXCEPT ![u] = None]
    /\ deleting' = [deleting EXCEPT ![u] = "alive"]
    /\ UNCHANGED <<ref, cool, coolCount, panelVars, gate, throttled, kicks, connVars>>

UpdateUserDelAlive(u) ==
    /\ deleting[u] = "alive"
    /\ alive' = [alive EXCEPT ![u] = 0]
    /\ deleting' = [deleting EXCEPT ![u] = "refs"]
    /\ UNCHANGED <<info, ref, cool, coolCount, global, fresh, gate, throttled, kicks, connVars>>

UpdateUserDelRefs(u) ==
    /\ deleting[u] = "refs"
    /\ ref' = [ref EXCEPT ![u] = [i \in IPs |-> 0]]
    /\ deleting' = [deleting EXCEPT ![u] = "global"]
    /\ UNCHANGED <<info, cool, coolCount, panelVars, gate, throttled, kicks, connVars>>

UpdateUserDelGlobal(u) ==
    /\ deleting[u] = "global"
    /\ global' = [global EXCEPT ![u] = {}]
    /\ deleting' = [deleting EXCEPT ![u] = "cooldown"]
    /\ UNCHANGED <<info, ref, cool, coolCount, fresh, alive, gate, throttled, kicks, connVars>>

\* Seeded fault: the deleted user's entries stay counted.
Bug_DelCooldownKeepsCount(u) ==
    /\ deleting[u] = "cooldown"
    /\ gate[ShardOf[u]] = None
    /\ cool' = [cool EXCEPT ![u] = [i \in IPs |-> "none"]]
    /\ deleting' = [deleting EXCEPT ![u] = "gone"]
    /\ UNCHANGED <<info, ref, coolCount, panelVars, gate, throttled, kicks, connVars>>

UpdateUserDelCooldown(u) ==
    /\ deleting[u] = "cooldown"
    /\ gate[ShardOf[u]] = None
    /\ coolCount' = coolCount - Cardinality(Listed({u}))
    /\ cool' = [cool EXCEPT ![u] = [i \in IPs |-> "none"]]
    /\ deleting' = [deleting EXCEPT ![u] = "gone"]
    /\ UNCHANGED <<info, ref, panelVars, gate, throttled, kicks, connVars>>

\* UpdateUser on an added user.
UpdateUserAdd(u) ==
    /\ deleting[u] = "gone"
    /\ \E l \in DeviceLimits[u] : info' = [info EXCEPT ![u] = l]
    /\ deleting' = [deleting EXCEPT ![u] = "none"]
    /\ UNCHANGED <<ref, cool, coolCount, panelVars, gate, throttled, kicks, connVars>>

\* UpdateUser on a modified user: a new limit, read by the connections to come.
UpdateUserModify(u) ==
    /\ info[u] # None
    /\ \E l \in DeviceLimits[u] : l # info[u] /\ info' = [info EXCEPT ![u] = l]
    /\ UNCHANGED <<ref, cool, coolCount, panelVars, gate, throttled, kicks, deleting, connVars>>

-----------------------------------------------------------------------------
(* Time. *)

GlobalGoesStale ==
    /\ fresh /\ fresh' = FALSE
    /\ UNCHANGED <<info, ref, cool, coolCount, global, alive, gate, throttled, kicks,
                   deleting, connVars>>

CooldownElapses(u, i) ==
    /\ cool[u][i] = "active"
    /\ cool' = [cool EXCEPT ![u][i] = "expired"]
    /\ UNCHANGED <<info, ref, coolCount, panelVars, gate, throttled, kicks, deleting, connVars>>

ThrottleElapses(s) ==
    /\ s \in throttled
    /\ throttled' = throttled \ {s}
    /\ UNCHANGED <<info, ref, cool, coolCount, panelVars, gate, kicks, deleting, connVars>>

-----------------------------------------------------------------------------
ConnStep(c) ==
    \/ \E u \in Users, i \in IPs, t \in Networks : CheckLimit(c, u, i, t)
    \/ TryOpenConn(c)
    \/ ReadGlobal(c)
    \/ ReadLocal(c)
    \/ ReadAlive(c)
    \/ ConnOpened(c)
    \/ AddLink(c)
    \/ End(c)
    \/ ConnClosedLookup(c)
    \/ ConnClosed(c)

KickStep ==
    \/ \E k \in kicks : KickDeviceLocal(k) \/ KickDeviceCooldown(k)
    \/ \E u \in Users, i \in IPs : SyncKick(u, i)
    \/ \E s \in Shards : PurgeExpiredCooldowns(s)

UserStep(u) ==
    \/ DelUsers(u)
    \/ UpdateUserDelInfo(u)
    \/ UpdateUserDelAlive(u)
    \/ UpdateUserDelRefs(u)
    \/ UpdateUserDelGlobal(u)
    \/ UpdateUserDelCooldown(u)
    \/ UpdateUserAdd(u)
    \/ UpdateUserModify(u)

Tick ==
    \/ GlobalGoesStale
    \/ \E u \in Users, i \in IPs : CooldownElapses(u, i)
    \/ \E s \in Shards : ThrottleElapses(s)

Next ==
    \/ \E c \in Conns : ConnStep(c)
    \/ KickStep
    \/ \E u \in Users : UserStep(u)
    \/ UpdateGlobalDevices
    \/ SetAliveList
    \/ Tick

Spec == Init /\ [][Next]_vars

-----------------------------------------------------------------------------
(* Properties. *)

\* The users that are never unlimited.
Metered == {u \in Users : \A l \in DeviceLimits[u] : l > 0}

\* The counted connections of a user from an address: past ConnOpened, before the
\* end of ConnClosed.
Counted(u, i) ==
    {c \in Conns : /\ pc[c] \in {"unlinked", "live", "ending", "closing"}
                   /\ req[c].tcp /\ req[c].user = u /\ req[c].ip = i}

\* A metered user never has more devices on the node than the largest limit the
\* panel gave it, however its connections, kicks, deletions and limit changes
\* interleave: TryOpenConn's verdict and count are atomic per user.
DeviceCap ==
    \A u \in Metered : \E l \in DeviceLimits[u] : Cardinality(Devices(u)) <= l

\* No TCP connection of a limited user is counted while its address is in its
\* cooldown, even one that passed TryOpenConn's check before the kick.
CooldownRefuses ==
    [][\A c \in Conns :
          pc[c] = "admit" /\ pc'[c] = "unlinked" /\ Gated(c)
              => cool[req[c].user][req[c].ip] # "active"]_vars

\* cooldownCount is the number of cooldown entries; inCooldown, purge and
\* LocalDeviceSnapshot skip the list when it is zero, so an undercount would
\* disarm all three.
CoolCountExact == coolCount = Cardinality(Listed(Users))

\* For a user who is never deleted, an address is counted once for each open TCP
\* connection from it: every ConnOpened meets exactly one ConnClosed.
RefcountExact ==
    \A u \in Users \ Deletable, i \in IPs : ref[u][i] = Cardinality(Counted(u, i))

\* checkDeviceGate's O(1) bounds never change its verdict: on a fresh table, a new
\* address passes exactly when it is not in the table and local \cup global is
\* smaller than the limit.
GateVerdict ==
    [][\A c \in Conns :
          /\ pc[c] = "local" /\ pc'[c] # "local"
          /\ seen[c].fresh /\ req[c].ip \notin Devices(req[c].user)
          => (pc'[c] # "idle"
                <=> /\ req[c].ip \notin seen[c].ips
                    /\ Cardinality(Devices(req[c].user) \cup seen[c].ips) < req[c].lim)]_vars

\* What the gate is for, as a specification of its own: the devices are the addresses
\* that are counted, the banned ones those whose cooldown lasts.
Limit == INSTANCE DeviceLimit WITH
    devices <- [u \in Users |-> Devices(u)],
    banned <- [u \in Users |-> {i \in IPs : cool[u][i] = "active"}]

\* Every behaviour of the gate is one DeviceLimit allows: each step of a connection,
\* kick, purge, deletion or timer is a join, leave, ban, lift, or nothing, of one user.
ImplementsDeviceLimit == Limit!Spec

\* Why they hold, as an inductive invariant.  The verdict and the count of a gated
\* attempt are under the lock of its user's shard ...
GateLocked ==
    \A c \in Conns :
        /\ pc[c] = "lock" => Gated(c)
        /\ pc[c] = "admit" => req[c].tcp
        /\ InGate(c) => gate[ShardOf[req[c].user]] = c

\* ... so a kick that comes after its cooldown check waits for it ...
GateNotCooling ==
    \A c \in Conns : InGate(c) => cool[req[c].user][req[c].ip] # "active"

\* ... and the room it found is still there when it counts itself.
GateRoom ==
    \A c \in Conns :
        pc[c] \in {"alive", "admit"} /\ req[c].tcp /\ req[c].user \in Metered
        => \E l \in DeviceLimits[req[c].user] :
              Cardinality(Devices(req[c].user) \cup {req[c].ip}) <= l

-----------------------------------------------------------------------------
(* Liveness.  A goroutine that can run does (WF).  A goroutine waiting for a gate
   lock gets it although others keep taking it: Go's sync.Mutex hands the lock to a
   waiter that has waited for 1ms (SF).  The purge has no fairness: it runs in a round
   of the device report only, which needs a connected WebSocket (controller.go:245).  *)
ConnRuns(c) ==
    \/ ReadGlobal(c) \/ ReadLocal(c) \/ ReadAlive(c) \/ ConnOpened(c)
    \/ AddLink(c) \/ ConnClosedLookup(c) \/ ConnClosed(c)

Fairness ==
    /\ \A c \in Conns : SF_vars(TryOpenConn(c)) /\ WF_vars(ConnRuns(c))
    /\ \A k \in Kick : IF k.stage = "local" THEN WF_vars(KickDeviceLocal(k))
                                            ELSE SF_vars(KickDeviceCooldown(k))

FairSpec == Spec /\ Fairness

\* Every connection attempt is decided: the gate locks never deadlock and nobody
\* waits for one forever.
AttemptDecided ==
    \A c \in Conns :
        pc[c] \in {"lock", "global", "local", "alive", "admit"} ~> pc[c] \in {"idle", "unlinked"}

\* An eviction that was decided lands: its victim enters the cooldown.
EvictionLands ==
    \A u \in Users, i \in IPs :
        [user |-> u, ip |-> i, stage |-> "local"] \in kicks ~> cool[u][i] = "active"

=============================================================================
