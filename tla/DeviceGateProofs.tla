-------------------------- MODULE DeviceGateProofs --------------------------
(***************************************************************************)
(* What holds of the device gate for every set of users, addresses and     *)
(* connections, every sharding and every set of limits, and that the gate  *)
(* implements DeviceLimit.                                                 *)
(***************************************************************************)
EXTENDS DeviceGate, FiniteSetTheorems, TLAPS

-----------------------------------------------------------------------------
(* Type correctness. *)

\* The initial tables of AddLimiter are well typed.
LEMMA InitTypeOK == Init => TypeOK
<1> SUFFICES ASSUME Init PROVE TypeOK
    OBVIOUS
<1>1. UserTypes
  BY LimitsAssumption DEF Init, UserTypes, DeleteStages
<1>2. TableTypes
  <2>1. ref \in [Users -> [IPs -> Nat]]
    BY DEF Init
  <2>2. cool \in [Users -> [IPs -> CoolStates]]
    BY DEF Init, CoolStates
  <2> QED BY <2>1, <2>2 DEF Init, TableTypes
<1>3. GateTypes
  BY DEF Init, GateTypes
<1>4. ConnTypes
  BY DEF Init, ConnTypes, Places, Snapshot, NoSnapshot
<1> QED BY <1>1, <1>2, <1>3, <1>4 DEF TypeOK

\* A rejected attempt leaves its goroutine and the lock well typed.
LEMMA RejectType ==
    ASSUME TypeOK, NEW c \in Conns, Reject(c)
    PROVE  ConnTypes' /\ gate' \in [Shards -> Conns \cup {None}]
BY DEF TypeOK, Reject, ConnTypes, GateTypes, Places, NoSnapshot, Snapshot

\* So does an attempt that is rejected with an eviction.
LEMMA RejectAndKickType ==
    ASSUME TypeOK, NEW c \in Conns, pc[c] # "idle",
           NEW victim \in IPs \cup {None}, RejectAndKick(c, victim), fresh' = fresh
    PROVE  ConnTypes' /\ GateTypes'
<1>1. ConnTypes' /\ gate' \in [Shards -> Conns \cup {None}]
  BY RejectType DEF RejectAndKick
<1>2. req[c].user \in Users /\ ShardOf[req[c].user] \in Shards
  BY ShardAssumption DEF TypeOK, ConnTypes, Request
<1>3. throttled' \in SUBSET Shards
  BY <1>2 DEF RejectAndKick, TypeOK, GateTypes
<1>4. kicks' \in SUBSET Kick
  BY <1>2 DEF RejectAndKick, TypeOK, GateTypes, Kick
<1> QED BY <1>1, <1>3, <1>4 DEF TypeOK, GateTypes

\* And an attempt that the gate lets through.
LEMMA PassType ==
    ASSUME TypeOK, NEW c \in Conns, pc[c] # "idle", Pass(c),
           seen' = [seen EXCEPT ![c] = NoSnapshot], fresh' = fresh
    PROVE  ConnTypes' /\ GateTypes'
BY DEF TypeOK, Pass, ConnTypes, GateTypes, Places, NoSnapshot, Snapshot

\* The cooldown list is finite.
LEMMA ListedFinite ==
    ASSUME NEW us \in SUBSET Users
    PROVE  IsFiniteSet(Listed(us))
<1>1. IsFiniteSet(us)
  BY UsersAssumption, FS_Subset
<1>2. IsFiniteSet(us \X IPs)
  BY <1>1, IPsAssumption, FS_Product
<1> QED BY <1>2, FS_Subset DEF Listed

\* The victim is an address, or none.
LEMMA VictimType ==
    ASSUME NEW local \in SUBSET IPs, NEW globalIPs \in SUBSET IPs
    PROVE  pickVictim(local, globalIPs) \subseteq IPs \cup {None}
BY DEF pickVictim

\* Every step of a connection goroutine keeps the types.
LEMMA ConnStepType ==
    ASSUME TypeOK, NEW c \in Conns, ConnStep(c)
    PROVE  TypeOK'
<1> USE DEF TypeOK
<1>1. ASSUME NEW u \in Users, NEW i \in IPs, NEW t \in Networks, CheckLimit(c, u, i, t)
      PROVE  TypeOK'
  <2>1. info[u] \in Int /\ info[u] \in DeviceLimits[u] /\ t \in BOOLEAN
    BY <1>1, NetworksAssumption DEF CheckLimit, UserTypes
  <2>2. ConnTypes'
    BY <1>1, <2>1 DEF CheckLimit, ConnTypes, Request, Places
  <2> QED BY <1>1, <2>2 DEF CheckLimit, UserTypes, TableTypes, GateTypes, panelVars
<1>2. CASE TryOpenConn(c)
  <2>1. ConnTypes' /\ gate' \in [Shards -> Conns \cup {None}]
    <3>1. CASE Reject(c)
      BY <3>1, RejectType
    <3>2. CASE ~Reject(c)
      BY <1>2, <3>2 DEF TryOpenConn, ConnTypes, GateTypes, Places
    <3> QED BY <3>1, <3>2
  <2> QED BY <1>2, <2>1 DEF TryOpenConn, UserTypes, TableTypes, GateTypes, panelVars
<1>3. CASE ReadGlobal(c)
  <2>1. ConnTypes'
    BY <1>3 DEF ReadGlobal, ConnTypes, TableTypes, GateTypes, Snapshot, Places, Request
  <2> QED BY <1>3, <2>1 DEF ReadGlobal, UserTypes, TableTypes, GateTypes, panelVars
<1>4. CASE ReadLocal(c)
  <2>1. /\ pc[c] = "local" /\ fresh' = fresh
        /\ Devices(req[c].user) \in SUBSET IPs
        /\ seen[c].ips \in SUBSET IPs
    BY <1>4 DEF ReadLocal, ConnTypes, Snapshot, Devices, panelVars
  <2>2. ASSUME NEW v \in IPs \cup {None}, RejectAndKick(c, v)
        PROVE  ConnTypes' /\ GateTypes'
    BY <2>1, <2>2, RejectAndKickType
  <2>3. ASSUME Pass(c), seen' = [seen EXCEPT ![c] = NoSnapshot]
        PROVE  ConnTypes' /\ GateTypes'
    BY <2>1, <2>3, PassType
  <2>4. ASSUME NEW v \in IPs \cup {None}, pc' = [pc EXCEPT ![c] = "alive"],
               seen' = [seen EXCEPT ![c] = [@ EXCEPT !.victim = v]],
               UNCHANGED <<gate, req, throttled, kicks>>
        PROVE  ConnTypes' /\ GateTypes'
    BY <2>1, <2>4 DEF ConnTypes, GateTypes, Snapshot, Places
  <2>5. pickVictim(Devices(req[c].user), seen[c].ips) \subseteq IPs \cup {None}
    BY <2>1, VictimType
  <2>6. pickVictim(Devices(req[c].user), {}) \subseteq IPs \cup {None}
    BY <2>1, VictimType
  <2>7. ConnTypes' /\ GateTypes'
    <3> DEFINE local == Devices(req[c].user)
               snap == seen[c]
    <3>1. CASE req[c].ip \in local
      BY <1>4, <3>1, <2>3 DEF ReadLocal
    <3>2. CASE req[c].ip \notin local /\ snap.fresh /\ req[c].ip \in snap.ips
      BY <1>4, <3>2, <2>2 DEF ReadLocal
    <3>3. CASE req[c].ip \notin local /\ snap.fresh /\ req[c].ip \notin snap.ips
      BY <1>4, <3>3, <2>2, <2>3, <2>5 DEF ReadLocal
    <3>4. CASE req[c].ip \notin local /\ ~snap.fresh
      BY <1>4, <3>4, <2>2, <2>4, <2>6 DEF ReadLocal
    <3> QED BY <3>1, <3>2, <3>3, <3>4
  <2> QED BY <1>4, <2>7 DEF ReadLocal, UserTypes, TableTypes, panelVars
<1>5. CASE ReadAlive(c)
  <2>1. pc[c] = "alive" /\ fresh' = fresh /\ seen[c].victim \in IPs \cup {None}
    BY <1>5 DEF ReadAlive, ConnTypes, Snapshot, panelVars
  <2>2. ConnTypes' /\ GateTypes'
    BY <1>5, <2>1, RejectAndKickType, PassType DEF ReadAlive
  <2> QED BY <1>5, <2>2 DEF ReadAlive, UserTypes, TableTypes, panelVars
<1>6. CASE ConnOpened(c)
  <2>1. req[c].user \in Users /\ req[c].ip \in IPs
    BY <1>6 DEF ConnOpened, ConnTypes, Request
  <2>2. ref' \in [Users -> [IPs -> Nat]]
    BY <1>6, <2>1 DEF ConnOpened, TableTypes
  <2>3. ConnTypes' /\ gate' \in [Shards -> Conns \cup {None}]
    BY <1>6 DEF ConnOpened, ConnTypes, GateTypes, Places
  <2> QED BY <1>6, <2>2, <2>3 DEF ConnOpened, UserTypes, TableTypes, GateTypes, panelVars
<1>7. CASE AddLink(c) \/ End(c)
  <2>1. ConnTypes'
    BY <1>7 DEF AddLink, End, ConnTypes, Places
  <2> QED BY <1>7, <2>1 DEF AddLink, End, UserTypes, TableTypes, GateTypes, panelVars
<1>8. CASE ConnClosedLookup(c)
  <2>1. ConnTypes'
    BY <1>8 DEF ConnClosedLookup, ConnTypes, Places
  <2> QED BY <1>8, <2>1 DEF ConnClosedLookup, UserTypes, TableTypes, GateTypes, panelVars
<1>9. CASE ConnClosed(c)
  <2>1. req[c].user \in Users /\ req[c].ip \in IPs
    BY <1>9 DEF ConnClosed, ConnTypes, Request
  <2>2. ref' \in [Users -> [IPs -> Nat]]
    BY <1>9, <2>1 DEF ConnClosed, TableTypes
  <2>3. ConnTypes'
    BY <1>9 DEF ConnClosed, ConnTypes, Places
  <2> QED BY <1>9, <2>2, <2>3 DEF ConnClosed, UserTypes, TableTypes, GateTypes, panelVars
<1> QED BY <1>1, <1>2, <1>3, <1>4, <1>5, <1>6, <1>7, <1>8, <1>9 DEF ConnStep

\* Closing links changes no goroutine's request.
LEMMA CloseLinksType ==
    ASSUME TypeOK, NEW u \in Users, NEW ips \in SUBSET IPs, CloseLinks(u, ips),
           UNCHANGED <<req, seen>>
    PROVE  ConnTypes'
BY DEF TypeOK, CloseLinks, ConnTypes, Places

\* Evictions and the purge keep the types.
LEMMA KickStepType == TypeOK /\ KickStep => TypeOK'
<1> SUFFICES ASSUME TypeOK, KickStep PROVE TypeOK'
    OBVIOUS
<1> USE DEF TypeOK
<1>1. ASSUME NEW k \in kicks, KickDeviceLocal(k) PROVE TypeOK'
  <2>1. k \in Kick /\ k.user \in Users /\ {k.ip} \in SUBSET IPs
    BY DEF GateTypes, Kick
  <2>2. ConnTypes'
    BY <1>1, <2>1, CloseLinksType DEF KickDeviceLocal
  <2>3. kicks' \in SUBSET Kick
    BY <1>1, <2>1 DEF KickDeviceLocal, GateTypes, Kick
  <2> QED BY <1>1, <2>2, <2>3 DEF KickDeviceLocal, UserTypes, TableTypes, GateTypes, panelVars
<1>2. ASSUME NEW k \in kicks, KickDeviceCooldown(k) PROVE TypeOK'
  <2>1. k \in Kick /\ k.user \in Users /\ k.ip \in IPs
    BY DEF GateTypes, Kick
  <2>2. cool' \in [Users -> [IPs -> CoolStates]]
    BY <1>2, <2>1 DEF KickDeviceCooldown, TableTypes, CoolStates
  <2> QED BY <1>2, <2>2 DEF KickDeviceCooldown, UserTypes, TableTypes, GateTypes, ConnTypes,
             panelVars, connVars
<1>3. ASSUME NEW u \in Users, NEW i \in IPs, SyncKick(u, i) PROVE TypeOK'
  <2>1. ConnTypes'
    BY <1>3, CloseLinksType DEF SyncKick
  <2> QED BY <1>3, <2>1 DEF SyncKick, UserTypes, TableTypes, GateTypes, panelVars
<1>4. ASSUME NEW s \in Shards, PurgeExpiredCooldowns(s) PROVE TypeOK'
  <2>1. cool' \in [Users -> [IPs -> CoolStates]]
    BY <1>4 DEF PurgeExpiredCooldowns, TableTypes, CoolStates
  <2>2. coolCount' \in Int
    BY <1>4, ListedFinite, FS_Subset, FS_CardinalityType
       DEF PurgeExpiredCooldowns, TableTypes, Expired
  <2> QED BY <1>4, <2>1, <2>2 DEF PurgeExpiredCooldowns, UserTypes, TableTypes, GateTypes,
             ConnTypes, panelVars, connVars
<1> QED BY <1>1, <1>2, <1>3, <1>4 DEF KickStep

\* The deletion, re-creation and modification of a user keep the types.
LEMMA UserStepType ==
    ASSUME TypeOK, NEW u \in Users, UserStep(u)
    PROVE  TypeOK'
<1> USE DEF TypeOK
<1>1. CASE DelUsers(u)
  <2>1. ConnTypes'
    BY <1>1, CloseLinksType DEF DelUsers
  <2> QED BY <1>1, <2>1 DEF DelUsers, UserTypes, TableTypes, GateTypes, DeleteStages, panelVars
<1>2. CASE UpdateUserDelInfo(u)
  BY <1>2 DEF UpdateUserDelInfo, UserTypes, TableTypes, GateTypes, ConnTypes, DeleteStages,
     panelVars, connVars
<1>3. CASE UpdateUserDelAlive(u)
  BY <1>3, AliveAssumption DEF UpdateUserDelAlive, UserTypes, TableTypes, GateTypes, ConnTypes,
     DeleteStages, connVars
<1>4. CASE UpdateUserDelRefs(u)
  <2>1. ref' \in [Users -> [IPs -> Nat]]
    BY <1>4 DEF UpdateUserDelRefs, TableTypes
  <2> QED BY <1>4, <2>1 DEF UpdateUserDelRefs, UserTypes, TableTypes, GateTypes, ConnTypes,
             DeleteStages, panelVars, connVars
<1>5. CASE UpdateUserDelGlobal(u)
  BY <1>5 DEF UpdateUserDelGlobal, UserTypes, TableTypes, GateTypes, ConnTypes, DeleteStages,
     connVars
<1>6. CASE UpdateUserDelCooldown(u)
  <2>1. cool' \in [Users -> [IPs -> CoolStates]]
    BY <1>6 DEF UpdateUserDelCooldown, TableTypes, CoolStates
  <2>2. coolCount' \in Int
    BY <1>6, ListedFinite, FS_CardinalityType DEF UpdateUserDelCooldown, TableTypes
  <2> QED BY <1>6, <2>1, <2>2 DEF UpdateUserDelCooldown, UserTypes, TableTypes, GateTypes,
             ConnTypes, DeleteStages, panelVars, connVars
<1>7. CASE UpdateUserAdd(u) \/ UpdateUserModify(u)
  <2>1. UserTypes'
    BY <1>7, LimitsAssumption DEF UpdateUserAdd, UpdateUserModify, UserTypes, DeleteStages
  <2> QED BY <1>7, <2>1 DEF UpdateUserAdd, UpdateUserModify, TableTypes, GateTypes, ConnTypes,
             panelVars, connVars
<1> QED BY <1>1, <1>2, <1>3, <1>4, <1>5, <1>6, <1>7 DEF UserStep

\* Every step keeps the types.
LEMMA NextTypeOK == TypeOK /\ [Next]_vars => TypeOK'
<1> SUFFICES ASSUME TypeOK, [Next]_vars PROVE TypeOK'
    OBVIOUS
<1>1. CASE UpdateGlobalDevices \/ SetAliveList
  BY <1>1 DEF UpdateGlobalDevices, SetAliveList, TypeOK, UserTypes, TableTypes, GateTypes,
     ConnTypes, connVars
<1>2. CASE Tick
  <2>1. ASSUME NEW u \in Users, NEW i \in IPs, CooldownElapses(u, i)
        PROVE  TypeOK'
    <3>1. cool' \in [Users -> [IPs -> CoolStates]]
      BY <2>1 DEF CooldownElapses, TypeOK, TableTypes, CoolStates
    <3> QED BY <2>1, <3>1 DEF CooldownElapses, TypeOK, UserTypes, TableTypes, GateTypes,
               ConnTypes, panelVars, connVars
  <2>2. CASE GlobalGoesStale \/ \E s \in Shards : ThrottleElapses(s)
    BY <2>2 DEF GlobalGoesStale, ThrottleElapses, TypeOK, UserTypes, TableTypes, GateTypes,
       ConnTypes, panelVars, connVars
  <2> QED BY <1>2, <2>1, <2>2 DEF Tick
<1>3. CASE UNCHANGED vars
  BY <1>3 DEF vars, TypeOK, UserTypes, TableTypes, GateTypes, ConnTypes
<1> QED BY <1>1, <1>2, <1>3, ConnStepType, KickStepType, UserStepType DEF Next

\* Type correctness: every table, lock and goroutine of the gate keeps its type, and
\* every running attempt has a request with a limit the panel gave its user.
THEOREM TypeCorrect == Spec => []TypeOK
BY InitTypeOK, NextTypeOK, PTL DEF Spec

-----------------------------------------------------------------------------
(* The gate locks. *)

\* What the steps that are not a connection's own keep: every gate lock, every
\* request, and every goroutine except the ones whose links are closed.
GateKept ==
    /\ UNCHANGED <<gate, req, seen>>
    /\ \A c \in Conns : pc'[c] = pc[c] \/ (pc[c] = "live" /\ pc'[c] = "ending")

\* Closing links keeps the gate.
LEMMA CloseLinksKeepsGate ==
    ASSUME NEW u, NEW ips, CloseLinks(u, ips), UNCHANGED <<gate, req, seen>>
    PROVE  GateKept
BY DEF CloseLinks, GateKept

\* Evictions, deletions, pushes of the panel and time keep the gate.
LEMMA OthersKeepGate ==
    ASSUME \/ KickStep
           \/ \E u \in Users : UserStep(u)
           \/ UpdateGlobalDevices \/ SetAliveList \/ Tick
           \/ UNCHANGED vars
    PROVE  GateKept
<1>2. ASSUME UNCHANGED <<gate, connVars>>
      PROVE  GateKept
  BY <1>2 DEF connVars, GateKept
<1>3. ASSUME NEW k \in kicks, KickDeviceLocal(k) \/ KickDeviceCooldown(k)
      PROVE  GateKept
  BY <1>2, <1>3, CloseLinksKeepsGate DEF KickDeviceLocal, KickDeviceCooldown
<1>4. ASSUME NEW u \in Users, NEW i \in IPs, SyncKick(u, i)
      PROVE  GateKept
  BY <1>4, CloseLinksKeepsGate DEF SyncKick
<1>5. ASSUME NEW s \in Shards, PurgeExpiredCooldowns(s)
      PROVE  GateKept
  BY <1>2, <1>5 DEF PurgeExpiredCooldowns
<1>6. ASSUME NEW u \in Users, UserStep(u)
      PROVE  GateKept
  BY <1>2, <1>6, CloseLinksKeepsGate DEF UserStep, DelUsers, UpdateUserDelInfo,
     UpdateUserDelAlive, UpdateUserDelRefs, UpdateUserDelGlobal, UpdateUserDelCooldown,
     UpdateUserAdd, UpdateUserModify
<1>7. CASE UpdateGlobalDevices \/ SetAliveList \/ Tick \/ UNCHANGED vars
  BY <1>2, <1>7 DEF UpdateGlobalDevices, SetAliveList, Tick, GlobalGoesStale, CooldownElapses,
     ThrottleElapses, vars, connVars
<1> QED BY <1>3, <1>4, <1>5, <1>6, <1>7 DEF KickStep

\* The three outcomes of the local check: rejected, let through with room for the
\* address, or sent on to the alive list with room for the address.
LEMMA ReadLocalOutcomes ==
    ASSUME NEW c \in Conns, ReadLocal(c)
    PROVE  /\ pc[c] = "local"
           /\ UNCHANGED <<info, ref, cool, coolCount, deleting>>
           /\ \/ Reject(c)
              \/ Pass(c) /\ \/ req[c].ip \in Devices(req[c].user)
                            \/ ~(Cardinality(Devices(req[c].user)) >= req[c].lim)
              \/ /\ pc' = [pc EXCEPT ![c] = "alive"]
                 /\ UNCHANGED <<gate, req>>
                 /\ Cardinality(Devices(req[c].user)) < req[c].lim
<1> DEFINE local == Devices(req[c].user)
           snap == seen[c]
<1>0. pc[c] = "local" /\ UNCHANGED <<info, ref, cool, coolCount, deleting>>
  BY DEF ReadLocal
<1>1. CASE req[c].ip \in local
  BY <1>0, <1>1 DEF ReadLocal
<1>2. CASE req[c].ip \notin local /\ snap.fresh /\ req[c].ip \in snap.ips
  BY <1>0, <1>2 DEF ReadLocal, RejectAndKick
<1>3. CASE req[c].ip \notin local /\ snap.fresh /\ req[c].ip \notin snap.ips
  <2>1. CASE GateFull(local, snap.ips, req[c].lim)
    <3>1. PICK v : RejectAndKick(c, v)
      BY <1>3, <2>1 DEF ReadLocal
    <3> QED BY <1>0, <3>1 DEF RejectAndKick
  <2>2. CASE ~GateFull(local, snap.ips, req[c].lim)
    <3>1. Pass(c)
      BY <1>3, <2>2 DEF ReadLocal
    <3> QED BY <1>0, <2>2, <3>1 DEF GateFull
  <2> QED BY <2>1, <2>2
<1>4. CASE req[c].ip \notin local /\ ~snap.fresh
  <2>1. PICK v : IF Cardinality(local) < req[c].lim
                 THEN pc' = [pc EXCEPT ![c] = "alive"] /\ UNCHANGED <<gate, req>>
                 ELSE RejectAndKick(c, v)
    BY <1>4 DEF ReadLocal
  <2> QED BY <1>0, <2>1 DEF RejectAndKick
<1> QED BY <1>1, <1>2, <1>3, <1>4

\* The two outcomes of the alive list.
LEMMA ReadAliveOutcomes ==
    ASSUME NEW c \in Conns, ReadAlive(c)
    PROVE  /\ pc[c] = "alive"
           /\ UNCHANGED <<info, ref, cool, coolCount, deleting>>
           /\ Reject(c) \/ Pass(c)
BY DEF ReadAlive, RejectAndKick

\* A connection's step leaves the other connections alone; it takes a free lock,
\* gives its own back, or leaves the locks as they are.
ConnFrame(c) ==
    /\ \A d \in Conns \ {c} : pc'[d] = pc[d] /\ req'[d] = req[d]
    /\ \/ gate' = gate
       \/ /\ gate[ShardOf[req[c].user]] \in {c, None}
          /\ \E h : gate' = [gate EXCEPT ![ShardOf[req[c].user]] = h]

LEMMA ConnKeepsOthers ==
    ASSUME TypeOK, GateLocked, NEW c \in Conns, ConnStep(c)
    PROVE  ConnFrame(c)
<1> USE DEF TypeOK, ConnTypes, GateTypes
<1>1. ASSUME Reject(c), Gated(c) => gate[ShardOf[req[c].user]] \in {c, None}
      PROVE  ConnFrame(c)
  BY <1>1 DEF Reject, ConnFrame
<1>2. pc[c] \in {"local", "alive", "admit"} /\ Gated(c) => gate[ShardOf[req[c].user]] = c
  BY DEF GateLocked, InGate
<1>3. ASSUME Pass(c) PROVE ConnFrame(c)
  BY <1>3 DEF Pass, ConnFrame
<1>4. ASSUME NEW u \in Users, NEW i \in IPs, NEW t \in Networks, CheckLimit(c, u, i, t)
      PROVE  ConnFrame(c)
  BY <1>4 DEF CheckLimit, ConnFrame
<1>5. CASE TryOpenConn(c)
  <2>1. gate[ShardOf[req[c].user]] = None
    BY <1>5 DEF TryOpenConn
  <2>2. CASE Reject(c)
    BY <1>1, <2>1, <2>2
  <2>3. CASE ~Reject(c)
    BY <1>5, <2>1, <2>3 DEF TryOpenConn, ConnFrame
  <2> QED BY <2>2, <2>3
<1>6. CASE ReadLocal(c)
  <2>1. ASSUME pc' = [pc EXCEPT ![c] = "alive"], UNCHANGED <<gate, req>>
        PROVE  ConnFrame(c)
    BY <2>1 DEF ConnFrame
  <2> QED BY <1>1, <1>2, <1>3, <1>6, <2>1, ReadLocalOutcomes
<1>7. CASE ReadAlive(c)
  BY <1>1, <1>2, <1>3, <1>7, ReadAliveOutcomes
<1>8. CASE ConnOpened(c)
  BY <1>2, <1>8 DEF ConnOpened, ConnFrame
<1>9. CASE ReadGlobal(c) \/ AddLink(c) \/ End(c) \/ ConnClosedLookup(c) \/ ConnClosed(c)
  BY <1>9 DEF ReadGlobal, AddLink, End, ConnClosedLookup, ConnClosed, ConnFrame
<1> QED BY <1>4, <1>5, <1>6, <1>7, <1>8, <1>9 DEF ConnStep

\* A connection's own conjuncts of GateLocked.
LockedFor(c) ==
    /\ pc[c] = "lock" => Gated(c)
    /\ pc[c] = "admit" => req[c].tcp
    /\ InGate(c) => gate[ShardOf[req[c].user]] = c

\* A connection's step keeps them for itself.
LEMMA ConnOwnLock ==
    ASSUME TypeOK, NEW c \in Conns, LockedFor(c), ConnStep(c)
    PROVE  LockedFor(c)'
<1> USE DEF TypeOK, ConnTypes, GateTypes
<1>1. ASSUME pc'[c] \in {"idle", "unlinked", "live", "ending", "closing"}
      PROVE  LockedFor(c)'
  BY <1>1 DEF InGate, LockedFor
<1>2. ASSUME NEW u \in Users, NEW i \in IPs, NEW t \in Networks, CheckLimit(c, u, i, t)
      PROVE  LockedFor(c)'
  <2>1. info[u] \in Int /\ t \in BOOLEAN
    BY <1>2, NetworksAssumption DEF CheckLimit, UserTypes
  <2> QED BY <1>2, <2>1 DEF CheckLimit, InGate, Gated, LockedFor
<1>3. CASE TryOpenConn(c)
  <2>1. CASE Reject(c)
    BY <1>1, <2>1 DEF Reject
  <2>2. CASE ~Reject(c)
    <3>1. req[c].user \in Users /\ ShardOf[req[c].user] \in Shards
      BY <1>3, ShardAssumption DEF TryOpenConn, Request
    <3> QED BY <1>3, <2>2, <3>1 DEF TryOpenConn, InGate, Gated, LockedFor
  <2> QED BY <2>1, <2>2
<1>4. ASSUME pc[c] \in {"local", "alive"}, Pass(c)
      PROVE  LockedFor(c)'
  BY <1>4 DEF Pass, LockedFor, InGate, Gated
<1>5. ASSUME Reject(c)
      PROVE  LockedFor(c)'
  BY <1>1, <1>5 DEF Reject
<1>6. CASE ReadLocal(c)
  <2>1. ASSUME pc[c] = "local", pc' = [pc EXCEPT ![c] = "alive"], UNCHANGED <<gate, req>>
        PROVE  LockedFor(c)'
    BY <2>1 DEF LockedFor, InGate, Gated
  <2> QED BY <1>4, <1>5, <1>6, <2>1, ReadLocalOutcomes
<1>7. CASE ReadAlive(c)
  BY <1>4, <1>5, <1>7, ReadAliveOutcomes
<1>8. CASE ReadGlobal(c)
  BY <1>8 DEF ReadGlobal, LockedFor, InGate, Gated
<1>9. CASE ConnOpened(c) \/ AddLink(c) \/ End(c) \/ ConnClosedLookup(c) \/ ConnClosed(c)
  <2>1. pc'[c] \in {"idle", "unlinked", "live", "ending", "closing"}
    BY <1>9 DEF ConnOpened, AddLink, End, ConnClosedLookup, ConnClosed
  <2> QED BY <1>1, <2>1
<1> QED BY <1>2, <1>3, <1>6, <1>7, <1>8, <1>9 DEF ConnStep

\* No two attempts are between the verdict and the count of one shard: a gated
\* attempt in the gate holds its user's shard lock (TryOpenConn's lk).
THEOREM GateExclusion == Spec => []GateLocked
<1>1. Init => GateLocked
  BY DEF Init, GateLocked, InGate
<1>2. TypeOK /\ GateLocked /\ [Next]_vars => GateLocked'
  <2> SUFFICES ASSUME TypeOK, GateLocked, [Next]_vars PROVE GateLocked'
      OBVIOUS
  <2>1. ASSUME NEW c \in Conns, ConnStep(c) PROVE GateLocked'
    <3> SUFFICES ASSUME NEW d \in Conns PROVE LockedFor(d)'
        BY DEF GateLocked, LockedFor
    <3>0. LockedFor(d)
      BY DEF GateLocked, LockedFor
    <3>1. CASE d = c
      BY <2>1, <3>0, <3>1, ConnOwnLock
    <3>2. CASE d # c
      <4>1. pc'[d] = pc[d] /\ req'[d] = req[d]
        BY <2>1, <3>2, ConnKeepsOthers DEF ConnFrame
      <4>2. ASSUME InGate(d) PROVE gate'[ShardOf[req[d].user]] = gate[ShardOf[req[d].user]]
        <5>1. gate[ShardOf[req[d].user]] = d /\ d # c /\ d # None
          BY <3>0, <3>2, <4>2, NoneAssumption DEF LockedFor
        <5>2. CASE gate' = gate
          BY <5>2
        <5>3. CASE /\ gate[ShardOf[req[c].user]] \in {c, None}
                   /\ \E h : gate' = [gate EXCEPT ![ShardOf[req[c].user]] = h]
          <6>1. ShardOf[req[c].user] # ShardOf[req[d].user]
            BY <5>1, <5>3
          <6>2. PICK h : gate' = [gate EXCEPT ![ShardOf[req[c].user]] = h]
            BY <5>3
          <6>3. req[d].user \in Users /\ ShardOf[req[d].user] \in Shards
            BY <4>2, ShardAssumption DEF InGate, TypeOK, ConnTypes, Request
          <6> QED BY <6>1, <6>2, <6>3 DEF TypeOK, GateTypes
        <5> QED BY <2>1, <5>2, <5>3, ConnKeepsOthers DEF ConnFrame
      <4> QED BY <3>0, <4>1, <4>2 DEF LockedFor, InGate, Gated
    <3> QED BY <3>1, <3>2
  <2>2. CASE ~\E c \in Conns : ConnStep(c)
    <3>1. GateKept
      BY <2>2, OthersKeepGate DEF Next
    <3> QED BY <3>1 DEF GateKept, GateLocked, InGate, Gated
  <2> QED BY <2>1, <2>2
<1> QED BY <1>1, <1>2, TypeCorrect, PTL DEF Spec

-----------------------------------------------------------------------------
(* The cooldown list. *)

\* The steps that leave the cooldown list alone.
LEMMA CoolKept ==
    ASSUME Next,
           ~\E k \in kicks : KickDeviceCooldown(k),
           ~\E s \in Shards : PurgeExpiredCooldowns(s),
           ~\E u \in Users : UpdateUserDelCooldown(u),
           ~\E u \in Users, i \in IPs : CooldownElapses(u, i)
    PROVE  UNCHANGED <<cool, coolCount>>
<1>1. ASSUME NEW c \in Conns, ConnStep(c) PROVE UNCHANGED <<cool, coolCount>>
  BY <1>1, ReadLocalOutcomes, ReadAliveOutcomes DEF ConnStep, CheckLimit, TryOpenConn,
     ReadGlobal, ConnOpened, AddLink, End, ConnClosedLookup, ConnClosed
<1>2. CASE KickStep
  BY <1>2 DEF KickStep, KickDeviceLocal, SyncKick
<1>3. ASSUME NEW u \in Users, UserStep(u) PROVE UNCHANGED <<cool, coolCount>>
  BY <1>3 DEF UserStep, DelUsers, UpdateUserDelInfo, UpdateUserDelAlive, UpdateUserDelRefs,
     UpdateUserDelGlobal, UpdateUserAdd, UpdateUserModify
<1>4. CASE UpdateGlobalDevices \/ SetAliveList \/ Tick
  BY <1>4 DEF UpdateGlobalDevices, SetAliveList, Tick, GlobalGoesStale, ThrottleElapses
<1> QED BY <1>1, <1>2, <1>3, <1>4 DEF Next

\* Removing entries from a finite list lowers its size by their number.
LEMMA CardinalityDifference ==
    ASSUME NEW S, IsFiniteSet(S), NEW T \in SUBSET S
    PROVE  Cardinality(S \ T) = Cardinality(S) - Cardinality(T)
<1>1. IsFiniteSet(T) /\ IsFiniteSet(S \ T)
  BY FS_Subset
<1>2. (S \ T) \cup T = S /\ (S \ T) \cap T = {}
  OBVIOUS
<1>3. Cardinality(S) = Cardinality(S \ T) + Cardinality(T) - 0
  BY <1>1, <1>2, FS_Union, FS_EmptySet
<1> QED BY <1>1, <1>3, FS_CardinalityType

\* cooldownCount counts the cooldown list exactly, whatever kicks, purges and
\* deletions of users interleave.
THEOREM CooldownCounted == Spec => []CoolCountExact
<1>1. Init => CoolCountExact
  <2> SUFFICES ASSUME Init PROVE CoolCountExact
      OBVIOUS
  <2>1. Listed(Users) = {}
    BY DEF Init, Listed
  <2> QED BY <2>1, FS_EmptySet DEF Init, CoolCountExact
<1>2. TypeOK /\ CoolCountExact /\ [Next]_vars => CoolCountExact'
  <2> SUFFICES ASSUME TypeOK, CoolCountExact, [Next]_vars PROVE CoolCountExact'
      OBVIOUS
  <2>0. IsFiniteSet(Listed(Users)) /\ cool \in [Users -> [IPs -> CoolStates]] /\ coolCount \in Int
    BY ListedFinite DEF TypeOK, TableTypes
  <2>1. ASSUME NEW k \in kicks, KickDeviceCooldown(k) PROVE CoolCountExact'
    <3>1. k.user \in Users /\ k.ip \in IPs
      BY DEF TypeOK, GateTypes, Kick
    <3>2. Listed(Users)' = Listed(Users) \cup {<<k.user, k.ip>>}
      BY <2>0, <2>1, <3>1 DEF Listed, KickDeviceCooldown
    <3>3. <<k.user, k.ip>> \in Listed(Users) <=> cool[k.user][k.ip] # "none"
      BY <3>1 DEF Listed
    <3> QED BY <2>0, <2>1, <3>2, <3>3, FS_AddElement DEF CoolCountExact, KickDeviceCooldown
  <2>2. ASSUME NEW s \in Shards, PurgeExpiredCooldowns(s) PROVE CoolCountExact'
    <3>1. Expired(s) \in SUBSET Listed(Users)
      BY DEF Expired
    <3>2. Listed(Users)' = Listed(Users) \ Expired(s)
      BY <2>0, <2>2 DEF Listed, PurgeExpiredCooldowns
    <3> QED BY <2>0, <2>2, <3>1, <3>2, CardinalityDifference
            DEF CoolCountExact, PurgeExpiredCooldowns
  <2>3. ASSUME NEW u \in Users, UpdateUserDelCooldown(u) PROVE CoolCountExact'
    <3>1. Listed({u}) \in SUBSET Listed(Users)
      BY DEF Listed
    <3>2. Listed(Users)' = Listed(Users) \ Listed({u})
      BY <2>0, <2>3 DEF Listed, UpdateUserDelCooldown
    <3> QED BY <2>0, <2>3, <3>1, <3>2, CardinalityDifference
            DEF CoolCountExact, UpdateUserDelCooldown
  <2>4. ASSUME NEW u \in Users, NEW i \in IPs, CooldownElapses(u, i) PROVE CoolCountExact'
    <3>1. Listed(Users)' = Listed(Users)
      BY <2>0, <2>4 DEF Listed, CooldownElapses
    <3> QED BY <2>4, <3>1 DEF CoolCountExact, CooldownElapses
  <2>5. CASE UNCHANGED <<cool, coolCount>>
    BY <2>5 DEF CoolCountExact, Listed
  <2> QED BY <2>1, <2>2, <2>3, <2>4, <2>5, CoolKept DEF vars
<1> QED BY <1>1, <1>2, TypeCorrect, PTL DEF Spec

\* With an exact count, inCooldown's shortcut on an empty list misses nothing.
LEMMA ShortcutSound ==
    ASSUME TypeOK, CoolCountExact, NEW u \in Users, NEW i \in IPs, cool[u][i] = "active"
    PROVE  inCooldown(u, i)
<1>1. <<u, i>> \in Listed(Users)
  BY DEF Listed
<1>2. coolCount # 0
  BY <1>1, ListedFinite, FS_EmptySet DEF CoolCountExact
<1> QED BY <1>2 DEF inCooldown

\* A connection that enters the gate, or moves on in it, is not in its cooldown.
LEMMA ConnNotCooling ==
    ASSUME TypeOK, CoolCountExact, NEW c \in Conns, ConnStep(c), InGate(c)',
           InGate(c) => cool[req[c].user][req[c].ip] # "active"
    PROVE  req'[c] = req[c] /\ cool[req[c].user][req[c].ip] # "active"
<1> USE DEF TypeOK, ConnTypes
<1>1. ASSUME NEW u \in Users, NEW i \in IPs, NEW t \in Networks, CheckLimit(c, u, i, t)
      PROVE  FALSE
  <2>1. info[u] \in Int /\ t \in BOOLEAN
    BY <1>1, NetworksAssumption DEF CheckLimit, UserTypes
  <2> QED BY <1>1, <2>1 DEF CheckLimit, InGate, Gated
<1>2. ASSUME Reject(c) PROVE FALSE
  BY <1>2 DEF Reject, InGate
<1>3. CASE TryOpenConn(c)
  <2>1. req[c].user \in Users /\ req[c].ip \in IPs
    BY <1>3 DEF TryOpenConn, Request
  <2> QED BY <1>2, <1>3, <2>1, ShortcutSound DEF TryOpenConn
<1>4. ASSUME pc[c] \in {"local", "alive"}, Pass(c)
      PROVE  req' = req /\ InGate(c)
  BY <1>4 DEF Pass, InGate, Gated
<1>5. CASE ReadLocal(c)
  <2>1. ASSUME pc[c] = "local", UNCHANGED req PROVE InGate(c)
    BY <2>1 DEF InGate, Gated
  <2> QED BY <1>2, <1>4, <1>5, <2>1, ReadLocalOutcomes
<1>6. CASE ReadAlive(c)
  BY <1>2, <1>4, <1>6, ReadAliveOutcomes
<1>7. CASE ReadGlobal(c)
  BY <1>7 DEF ReadGlobal, InGate, Gated
<1>8. CASE ConnOpened(c) \/ AddLink(c) \/ End(c) \/ ConnClosedLookup(c) \/ ConnClosed(c)
  BY <1>8 DEF ConnOpened, AddLink, End, ConnClosedLookup, ConnClosed, InGate
<1> QED BY <1>1, <1>3, <1>5, <1>6, <1>7, <1>8 DEF ConnStep

\* A gated attempt that passed the cooldown check is not overtaken by a kick.
THEOREM NoCoolingInGate == Spec => []GateNotCooling
<1>1. Init => GateNotCooling
  BY DEF Init, GateNotCooling, InGate
<1>2. TypeOK /\ GateLocked /\ CoolCountExact /\ GateNotCooling /\ [Next]_vars => GateNotCooling'
  <2> SUFFICES ASSUME TypeOK, GateLocked, CoolCountExact, GateNotCooling, [Next]_vars,
                      NEW d \in Conns, InGate(d)'
               PROVE  cool'[req'[d].user][req'[d].ip] # "active"
      BY DEF GateNotCooling
  <2>1. ASSUME NEW c \in Conns, ConnStep(c)
        PROVE  cool'[req'[d].user][req'[d].ip] # "active"
    <3>1. cool' = cool
      BY <2>1, ReadLocalOutcomes, ReadAliveOutcomes DEF ConnStep, CheckLimit, TryOpenConn,
         ReadGlobal, ConnOpened, AddLink, End, ConnClosedLookup, ConnClosed
    <3>2. CASE d = c
      BY <2>1, <3>1, <3>2, ConnNotCooling DEF GateNotCooling
    <3>3. CASE d # c
      <4>1. pc'[d] = pc[d] /\ req'[d] = req[d]
        BY <2>1, <3>3, ConnKeepsOthers DEF ConnFrame
      <4> QED BY <3>1, <4>1 DEF GateNotCooling, InGate, Gated
    <3> QED BY <3>2, <3>3
  <2>2. CASE ~\E c \in Conns : ConnStep(c)
    <3>1. req' = req /\ InGate(d)
      BY <2>2, OthersKeepGate DEF Next, GateKept, InGate, Gated
    <3>2. /\ cool[req[d].user][req[d].ip] # "active"
          /\ gate[ShardOf[req[d].user]] # None
          /\ req[d].user \in Users /\ req[d].ip \in IPs
      BY <3>1, NoneAssumption DEF GateNotCooling, GateLocked, InGate, TypeOK, ConnTypes, Request
    <3>3. cool \in [Users -> [IPs -> CoolStates]]
      BY DEF TypeOK, TableTypes
    <3>4. ASSUME NEW k \in kicks, KickDeviceCooldown(k)
          PROVE  cool'[req[d].user][req[d].ip] # "active"
      <4>1. k.user \in Users /\ k.ip \in IPs
        BY DEF TypeOK, GateTypes, Kick
      <4>2. k.user # req[d].user
        BY <3>2, <3>4 DEF KickDeviceCooldown
      <4> QED BY <3>2, <3>3, <3>4, <4>1, <4>2 DEF KickDeviceCooldown
    <3>5. ASSUME NEW s \in Shards, PurgeExpiredCooldowns(s)
          PROVE  cool'[req[d].user][req[d].ip] # "active"
      BY <3>2, <3>3, <3>5 DEF PurgeExpiredCooldowns
    <3>6. ASSUME NEW u \in Users, UpdateUserDelCooldown(u)
          PROVE  cool'[req[d].user][req[d].ip] # "active"
      BY <3>2, <3>3, <3>6 DEF UpdateUserDelCooldown
    <3>7. ASSUME NEW u \in Users, NEW i \in IPs, CooldownElapses(u, i)
          PROVE  cool'[req[d].user][req[d].ip] # "active"
      BY <3>2, <3>3, <3>7 DEF CooldownElapses
    <3>8. ASSUME UNCHANGED <<cool, coolCount>>
          PROVE  cool'[req[d].user][req[d].ip] # "active"
      BY <3>2, <3>8
    <3> QED BY <3>1, <3>4, <3>5, <3>6, <3>7, <3>8, CoolKept DEF vars
  <2> QED BY <2>1, <2>2
<1> QED BY <1>1, <1>2, TypeCorrect, GateExclusion, CooldownCounted, PTL DEF Spec

\* No TCP connection of a limited user is counted while its address cools down.
THEOREM CooldownEnforced == Spec => CooldownRefuses
<1>1. GateNotCooling /\ [Next]_vars
         => [\A c \in Conns :
                pc[c] = "admit" /\ pc'[c] = "unlinked" /\ Gated(c)
                   => cool[req[c].user][req[c].ip] # "active"]_vars
  BY DEF GateNotCooling, InGate
<1> QED BY <1>1, NoCoolingInGate, PTL DEF Spec, CooldownRefuses

-----------------------------------------------------------------------------
(* The device cap. *)

\* The devices of a user are a finite set of addresses.
LEMMA DevicesFinite ==
    ASSUME NEW u
    PROVE  /\ IsFiniteSet(Devices(u)) /\ Cardinality(Devices(u)) \in Nat
           /\ Devices(u) \subseteq IPs
<1>1. Devices(u) \in SUBSET IPs
  BY DEF Devices
<1> QED BY <1>1, IPsAssumption, FS_Subset, FS_CardinalityType

\* Only ConnOpened adds a device, and it adds the connection's own.
LEMMA DevicesStep ==
    ASSUME TypeOK, [Next]_vars, NEW u \in Users
    PROVE  \/ Devices(u)' \subseteq Devices(u)
           \/ \E c \in Conns : /\ ConnOpened(c)
                               /\ u = req[c].user
                               /\ Devices(u)' = Devices(u) \cup {req[c].ip}
<1> USE DEF TypeOK, TableTypes
<1>1. ASSUME NEW c \in Conns, ConnOpened(c)
      PROVE  \/ Devices(u)' \subseteq Devices(u)
             \/ u = req[c].user /\ Devices(u)' = Devices(u) \cup {req[c].ip}
  <2>1. req[c].user \in Users /\ req[c].ip \in IPs
    BY <1>1 DEF ConnOpened, ConnTypes, Request
  <2>2. CASE u = req[c].user
    <3>1. \A i \in IPs : ref'[u][i] = IF i = req[c].ip THEN ref[u][i] + 1 ELSE ref[u][i]
      BY <1>1, <2>1, <2>2 DEF ConnOpened
    <3>2. \A i \in IPs : ref[u][i] \in Nat
      OBVIOUS
    <3> QED BY <2>1, <2>2, <3>1, <3>2 DEF Devices
  <2>3. CASE u # req[c].user
    BY <1>1, <2>1, <2>3 DEF ConnOpened, Devices
  <2> QED BY <2>2, <2>3
<1>2. ASSUME NEW c \in Conns, ConnClosed(c)
      PROVE  Devices(u)' \subseteq Devices(u)
  <2>1. req[c].user \in Users /\ req[c].ip \in IPs
    BY <1>2 DEF ConnClosed, ConnTypes, Request
  <2>2. \A i \in IPs : ref'[u][i] > 0 => ref[u][i] > 0
    <3>1. \A i \in IPs : ref[u][i] \in Nat
      OBVIOUS
    <3> QED BY <1>2, <2>1, <3>1 DEF ConnClosed
  <2> QED BY <2>2 DEF Devices
<1>3. ASSUME NEW c \in Conns, ConnStep(c), ~ConnOpened(c), ~ConnClosed(c)
      PROVE  ref' = ref
  BY <1>3, ReadLocalOutcomes, ReadAliveOutcomes DEF ConnStep, CheckLimit, TryOpenConn,
     ReadGlobal, AddLink, End, ConnClosedLookup
<1>4. ASSUME NEW v \in Users, UserStep(v)
      PROVE  Devices(u)' \subseteq Devices(u)
  <2>1. CASE UpdateUserDelRefs(v)
    BY <2>1 DEF UpdateUserDelRefs, Devices
  <2>2. CASE ~UpdateUserDelRefs(v)
    <3>1. ref' = ref
      BY <1>4, <2>2 DEF UserStep, DelUsers, UpdateUserDelInfo, UpdateUserDelAlive,
         UpdateUserDelGlobal, UpdateUserDelCooldown, UpdateUserAdd, UpdateUserModify
    <3> QED BY <3>1 DEF Devices
  <2> QED BY <2>1, <2>2
<1>5. ASSUME KickStep \/ UpdateGlobalDevices \/ SetAliveList \/ Tick \/ UNCHANGED vars
      PROVE  ref' = ref
  BY <1>5 DEF KickStep, KickDeviceLocal, KickDeviceCooldown, SyncKick, PurgeExpiredCooldowns,
     UpdateGlobalDevices, SetAliveList, Tick, GlobalGoesStale, CooldownElapses,
     ThrottleElapses, vars
<1>6. ref' = ref => Devices(u)' \subseteq Devices(u)
  BY DEF Devices
<1> QED BY <1>1, <1>2, <1>3, <1>4, <1>5, <1>6 DEF Next

\* A set of addresses within one of the limits of a user; so is every subset of it.
Fits(u, S) == \E l \in DeviceLimits[u] : Cardinality(S) <= l

LEMMA FitsSubset ==
    ASSUME NEW u \in Users, NEW S \in SUBSET IPs, NEW T \in SUBSET S, Fits(u, S)
    PROVE  Fits(u, T)
<1>1. IsFiniteSet(S) /\ IsFiniteSet(T) /\ Cardinality(T) <= Cardinality(S)
  BY IPsAssumption, FS_Subset
<1>2. Cardinality(S) \in Nat /\ Cardinality(T) \in Nat
  BY <1>1, FS_CardinalityType
<1> QED BY <1>1, <1>2, LimitsAssumption DEF Fits

\* A set that is smaller than a limit takes one more element.
LEMMA OneMoreFits ==
    ASSUME NEW S, IsFiniteSet(S), NEW x, NEW l \in Int, ~(Cardinality(S) >= l)
    PROVE  Cardinality(S \cup {x}) <= l
<1>1. Cardinality(S) \in Nat
  BY FS_CardinalityType
<1>2. Cardinality(S \cup {x}) = Cardinality(S) \/ Cardinality(S \cup {x}) = Cardinality(S) + 1
  BY FS_AddElement
<1> QED BY <1>1, <1>2

\* The room a metered user's attempt has found, in terms of Fits.
RoomFor(c) ==
    pc[c] \in {"alive", "admit"} /\ req[c].tcp /\ req[c].user \in Metered
    => Fits(req[c].user, Devices(req[c].user) \cup {req[c].ip})

\* Both parts of the cap, in terms of Fits.
LEMMA CapInFits ==
    /\ GateRoom <=> \A c \in Conns : RoomFor(c)
    /\ DeviceCap <=> \A u \in Metered : Fits(u, Devices(u))
BY DEF GateRoom, RoomFor, DeviceCap, Fits

\* An attempt that the local check lets through has room.
LEMMA ConnFindsRoom ==
    ASSUME TypeOK, DeviceCap, NEW c \in Conns, ConnStep(c), RoomFor(c), ref' = ref
    PROVE  RoomFor(c)'
<1> USE DEF TypeOK, ConnTypes
<1>0. \A u : Devices(u)' = Devices(u)
  BY DEF Devices
<1>1. ASSUME pc'[c] \notin {"alive", "admit"} PROVE RoomFor(c)'
  BY <1>1 DEF RoomFor
<1>2. ASSUME NEW u \in Users, NEW i \in IPs, NEW t \in Networks, CheckLimit(c, u, i, t)
      PROVE  RoomFor(c)'
  <2>1. info[u] \in Int /\ info[u] \in DeviceLimits[u] /\ t \in BOOLEAN
    BY <1>2, NetworksAssumption DEF CheckLimit, UserTypes
  <2>2. pc'[c] = "admit" => u \notin Metered
    BY <1>2, <2>1 DEF CheckLimit, Metered
  <2>3. pc'[c] # "alive" /\ req'[c].user = u
    BY <1>2, <2>1 DEF CheckLimit
  <2> QED BY <2>2, <2>3 DEF RoomFor
<1>3. ASSUME Reject(c) PROVE RoomFor(c)'
  BY <1>1, <1>3 DEF Reject
<1>4. CASE ReadLocal(c)
  <2>1. /\ pc[c] = "local" /\ req[c].user \in Users /\ req[c].ip \in IPs
        /\ req[c].lim \in Int /\ req[c].lim \in DeviceLimits[req[c].user]
    BY <1>4 DEF ReadLocal, Request
  <2> DEFINE u == req[c].user
             D == Devices(u)
  <2>2. ASSUME u \in Metered, req' = req,
               req[c].ip \in D \/ ~(Cardinality(D) >= req[c].lim)
        PROVE  RoomFor(c)'
    <3>1. Fits(u, D \cup {req[c].ip})
      <4>1. CASE req[c].ip \in D
        <5>1. D \cup {req[c].ip} = D
          BY <4>1
        <5> QED BY <2>2, <5>1, CapInFits
      <4>2. CASE ~(Cardinality(D) >= req[c].lim)
        <5>2. Cardinality(D \cup {req[c].ip}) <= req[c].lim
          BY <2>1, <4>2, DevicesFinite, OneMoreFits
        <5> QED BY <2>1, <5>2 DEF Fits
      <4> QED BY <2>2, <4>1, <4>2
    <3> QED BY <1>0, <2>2, <3>1 DEF RoomFor
  <2>3. ASSUME u \notin Metered, req' = req PROVE RoomFor(c)'
    BY <2>3 DEF RoomFor
  <2>4. Cardinality(D) < req[c].lim => ~(Cardinality(D) >= req[c].lim)
    BY <2>1, DevicesFinite
  <2>5. Pass(c) => req' = req
    BY DEF Pass
  <2>6. CASE Reject(c)
    BY <1>3, <2>6
  <2>7. CASE Pass(c) /\ (req[c].ip \in D \/ ~(Cardinality(D) >= req[c].lim))
    BY <2>2, <2>3, <2>5, <2>7
  <2>8. CASE UNCHANGED <<gate, req>> /\ Cardinality(D) < req[c].lim
    BY <2>2, <2>3, <2>4, <2>8
  <2> QED BY <1>4, <2>6, <2>7, <2>8, ReadLocalOutcomes
<1>5. CASE ReadAlive(c)
  <2>1. ASSUME pc[c] = "alive", Pass(c) PROVE RoomFor(c)'
    BY <1>0, <2>1 DEF Pass, RoomFor
  <2> QED BY <1>3, <1>5, <2>1, ReadAliveOutcomes
<1>6. CASE TryOpenConn(c)
  BY <1>1, <1>3, <1>6 DEF TryOpenConn
<1>7. CASE ReadGlobal(c) \/ ConnOpened(c) \/ AddLink(c) \/ End(c) \/ ConnClosedLookup(c)
           \/ ConnClosed(c)
  <2>1. pc'[c] \notin {"alive", "admit"}
    BY <1>7 DEF ReadGlobal, ConnOpened, AddLink, End, ConnClosedLookup, ConnClosed
  <2> QED BY <1>1, <2>1
<1> QED BY <1>2, <1>4, <1>5, <1>6, <1>7 DEF ConnStep

\* Two attempts of one metered user are never both between room and count.
LEMMA RoomIsExclusive ==
    ASSUME TypeOK, GateLocked, NEW c \in Conns, NEW d \in Conns, c # d,
           pc[c] = "admit", pc[d] \in {"alive", "admit"}, req[d].tcp,
           req[c].user = req[d].user
    PROVE  req[d].user \notin Metered
<1> SUFFICES ASSUME req[d].user \in Metered PROVE FALSE
    OBVIOUS
<1>1. /\ req[c].lim \in DeviceLimits[req[c].user] /\ req[c].lim > 0
      /\ req[d].lim \in DeviceLimits[req[d].user] /\ req[d].lim > 0
  BY DEF TypeOK, ConnTypes, Metered
<1>2. req[c].tcp
  BY DEF GateLocked
<1>3. InGate(c) /\ InGate(d)
  BY <1>1, <1>2 DEF InGate, Gated
<1> QED BY <1>3 DEF GateLocked

\* The cap and its strengthening are inductive.
LEMMA CapInductive ==
    TypeOK /\ GateLocked /\ DeviceCap /\ GateRoom /\ [Next]_vars => DeviceCap' /\ GateRoom'
<1> SUFFICES ASSUME TypeOK, GateLocked, DeviceCap, GateRoom, [Next]_vars
             PROVE  DeviceCap' /\ GateRoom'
    OBVIOUS
<1>0. /\ \A c \in Conns : RoomFor(c)
      /\ \A u \in Metered : Fits(u, Devices(u))
  BY CapInFits
<1>1. \A u \in Metered : Fits(u, Devices(u)')
  <2> SUFFICES ASSUME NEW u \in Metered PROVE Fits(u, Devices(u)')
      OBVIOUS
  <2>0. u \in Users /\ Devices(u) \in SUBSET IPs
    BY DevicesFinite DEF Metered
  <2>1. CASE Devices(u)' \subseteq Devices(u)
    BY <1>0, <2>0, <2>1, FitsSubset
  <2>2. ASSUME NEW c \in Conns, ConnOpened(c), u = req[c].user,
               Devices(u)' = Devices(u) \cup {req[c].ip}
        PROVE  Fits(u, Devices(u)')
    <3>1. pc[c] = "admit" /\ req[c].tcp
      BY <2>2 DEF ConnOpened, GateLocked
    <3> QED BY <1>0, <2>2, <3>1 DEF RoomFor
  <2> QED BY <2>0, <2>1, <2>2, DevicesStep
<1>2. \A d \in Conns : RoomFor(d)'
  <2> SUFFICES ASSUME NEW d \in Conns PROVE RoomFor(d)'
      OBVIOUS
  <2>1. CASE ConnStep(d) /\ ref' = ref
    BY <1>0, <2>1, ConnFindsRoom
  <2>2. CASE ConnStep(d) /\ ref' # ref
    <3>1. pc'[d] \notin {"alive", "admit"}
      BY <2>2, ReadLocalOutcomes, ReadAliveOutcomes DEF ConnStep, CheckLimit, TryOpenConn,
         ReadGlobal, ConnOpened, AddLink, End, ConnClosedLookup, ConnClosed, TypeOK, ConnTypes
    <3> QED BY <3>1 DEF RoomFor
  <2>3. CASE ~ConnStep(d)
    <3>1. pc'[d] \in {"alive", "admit"} => pc'[d] = pc[d] /\ req'[d] = req[d]
      <4>1. ASSUME NEW c \in Conns, ConnStep(c) PROVE pc'[d] = pc[d] /\ req'[d] = req[d]
        BY <2>3, <4>1, ConnKeepsOthers DEF ConnFrame
      <4>2. CASE ~\E c \in Conns : ConnStep(c)
        BY <4>2, OthersKeepGate DEF Next, GateKept
      <4> QED BY <4>1, <4>2
    <3> SUFFICES ASSUME pc[d] \in {"alive", "admit"}, req[d].tcp, req[d].user \in Metered,
                        pc'[d] = pc[d], req'[d] = req[d]
                 PROVE  Fits(req[d].user, Devices(req[d].user)' \cup {req[d].ip})
        BY <3>1 DEF RoomFor
    <3>2. req[d].user \in Users /\ req[d].ip \in IPs
      BY DEF TypeOK, ConnTypes, Request
    <3>3. Fits(req[d].user, Devices(req[d].user) \cup {req[d].ip})
      BY <1>0 DEF RoomFor
    <3>4. Devices(req[d].user)' \subseteq Devices(req[d].user)
      <4>1. ASSUME NEW c \in Conns, ConnOpened(c), req[d].user = req[c].user PROVE FALSE
        <5>1. c # d /\ pc[c] = "admit"
          BY <2>3, <4>1 DEF ConnOpened, ConnStep
        <5> QED BY <4>1, <5>1, RoomIsExclusive
      <4> QED BY <3>2, <4>1, DevicesStep
    <3>5. Devices(req[d].user) \cup {req[d].ip} \in SUBSET IPs
      BY <3>2, DevicesFinite
    <3>6. Devices(req[d].user)' \cup {req[d].ip}
             \in SUBSET (Devices(req[d].user) \cup {req[d].ip})
      BY <3>4
    <3> QED BY <3>2, <3>3, <3>5, <3>6, FitsSubset
  <2> QED BY <2>1, <2>2, <2>3
<1> QED BY <1>1, <1>2 DEF GateRoom, RoomFor, DeviceCap, Fits

\* The cap holds, and an attempt on its way to the count keeps the room it found.
LEMMA RoomHolds == Spec => [](DeviceCap /\ GateRoom)
<1>1. Init => DeviceCap /\ GateRoom
  <2> SUFFICES ASSUME Init PROVE DeviceCap /\ GateRoom
      OBVIOUS
  <2>1. GateRoom
    BY DEF Init, GateRoom
  <2>2. ASSUME NEW u \in Metered PROVE Fits(u, Devices(u))
    <3>1. u \in Users /\ Devices(u) = {}
      BY DEF Metered, Init, Devices
    <3>2. PICK l \in DeviceLimits[u] : l \in Int /\ l > 0
      BY <3>1, LimitsAssumption DEF Metered
    <3> QED BY <3>1, <3>2, FS_EmptySet DEF Fits
  <2> QED BY <2>1, <2>2, CapInFits
<1> QED BY <1>1, CapInductive, TypeCorrect, GateExclusion, PTL DEF Spec

\* A metered user never has more devices than the largest limit it was given.
THEOREM DeviceLimitHolds == Spec => []DeviceCap
BY RoomHolds, PTL

-----------------------------------------------------------------------------
(* The verdict of the gate. *)

\* checkDeviceGate's two O(1) bounds and its middle case together decide whether
\* local \cup global has reached the limit.
LEMMA FastPathsExact ==
    ASSUME NEW l, IsFiniteSet(l), NEW g, IsFiniteSet(g), NEW limit \in Int
    PROVE  GateFull(l, g, limit) <=> Cardinality(l \cup g) >= limit
<1>1. IsFiniteSet(g \ l) /\ IsFiniteSet(l \cup g)
  BY FS_Subset, FS_Union
<1>2. /\ Cardinality(l) \in Nat /\ Cardinality(g) \in Nat
      /\ Cardinality(g \ l) \in Nat /\ Cardinality(l \cup g) \in Nat
  BY <1>1, FS_CardinalityType
<1>3. Cardinality(l \cup g) = Cardinality(l) + Cardinality(g \ l)
  <2>1. l \cup (g \ l) = l \cup g /\ l \cap (g \ l) = {}
    OBVIOUS
  <2>2. Cardinality(l \cup g) = Cardinality(l) + Cardinality(g \ l) - 0
    BY <1>1, <2>1, FS_Union, FS_EmptySet
  <2> QED BY <1>2, <2>2
<1>4. Cardinality(g \ l) <= Cardinality(g) /\ Cardinality(g) <= Cardinality(l \cup g)
  <2>1. g \ l \in SUBSET g /\ g \in SUBSET (l \cup g)
    OBVIOUS
  <2> QED BY <1>1, <2>1, FS_Subset
<1> QED BY <1>2, <1>3, <1>4 DEF GateFull

\* On a fresh global table, a new address passes exactly when the table does not hold
\* it and local \cup global is below the limit.
THEOREM GateVerdictExact == Spec => GateVerdict
<1>1. TypeOK /\ GateLocked /\ [Next]_vars
         => [\A c \in Conns :
                /\ pc[c] = "local" /\ pc'[c] # "local"
                /\ seen[c].fresh /\ req[c].ip \notin Devices(req[c].user)
                => (pc'[c] # "idle"
                      <=> /\ req[c].ip \notin seen[c].ips
                          /\ Cardinality(Devices(req[c].user) \cup seen[c].ips) < req[c].lim)]_vars
  <2> SUFFICES ASSUME TypeOK, GateLocked, [Next]_vars, NEW c \in Conns,
                      pc[c] = "local", pc'[c] # "local", seen[c].fresh,
                      req[c].ip \notin Devices(req[c].user)
               PROVE  pc'[c] # "idle"
                        <=> /\ req[c].ip \notin seen[c].ips
                            /\ Cardinality(Devices(req[c].user) \cup seen[c].ips) < req[c].lim
      OBVIOUS
  <2>1. ReadLocal(c)
    <3>1. CASE ~\E d \in Conns : ConnStep(d)
      BY <3>1, OthersKeepGate DEF Next, GateKept
    <3>2. ASSUME NEW d \in Conns, ConnStep(d), d # c PROVE FALSE
      BY <3>2, ConnKeepsOthers DEF ConnFrame
    <3>3. CASE ConnStep(c)
      BY <3>3 DEF ConnStep, CheckLimit, TryOpenConn, ReadGlobal, ReadAlive, ConnOpened, AddLink,
         End, ConnClosedLookup, ConnClosed
    <3> QED BY <3>1, <3>2, <3>3
  <2>2. Reject(c) => pc'[c] = "idle"
    BY DEF Reject, TypeOK, ConnTypes
  <2>3. Pass(c) => pc'[c] # "idle"
    BY DEF Pass, TypeOK, ConnTypes
  <2>4. /\ req[c].lim \in Int
        /\ seen[c].ips \in SUBSET IPs
    BY DEF TypeOK, ConnTypes, Request, Snapshot
  <2>5. IsFiniteSet(seen[c].ips) /\ IsFiniteSet(Devices(req[c].user))
    BY <2>4, IPsAssumption, FS_Subset, DevicesFinite
  <2>6. GateFull(Devices(req[c].user), seen[c].ips, req[c].lim)
           <=> ~(Cardinality(Devices(req[c].user) \cup seen[c].ips) < req[c].lim)
    <3>1. Cardinality(Devices(req[c].user) \cup seen[c].ips) \in Nat
      BY <2>5, FS_Union, FS_CardinalityType
    <3>2. GateFull(Devices(req[c].user), seen[c].ips, req[c].lim)
             <=> Cardinality(Devices(req[c].user) \cup seen[c].ips) >= req[c].lim
      BY <2>4, <2>5, FastPathsExact
    <3> QED BY <2>4, <3>1, <3>2
  <2>7. CASE req[c].ip \in seen[c].ips
    BY <2>1, <2>2, <2>7 DEF ReadLocal, RejectAndKick
  <2>8. CASE req[c].ip \notin seen[c].ips
    <3>1. CASE GateFull(Devices(req[c].user), seen[c].ips, req[c].lim)
      <4>1. PICK v : RejectAndKick(c, v)
        BY <2>1, <2>8, <3>1 DEF ReadLocal
      <4> QED BY <2>2, <2>6, <3>1, <4>1 DEF RejectAndKick
    <3>2. CASE ~GateFull(Devices(req[c].user), seen[c].ips, req[c].lim)
      <4>1. Pass(c)
        BY <2>1, <2>8, <3>2 DEF ReadLocal
      <4> QED BY <2>3, <2>6, <2>8, <3>2, <4>1
    <3> QED BY <3>1, <3>2
  <2> QED BY <2>7, <2>8
<1> QED BY <1>1, TypeCorrect, GateExclusion, PTL DEF Spec, GateVerdict

-----------------------------------------------------------------------------
(* The connection counts. *)

\* A user the panel never deletes stays known to the limiter, and only TCP
\* connections reach ConnClosed's decrement.
KnownUsers ==
    /\ \A u \in Users \ Deletable : deleting[u] = "none" /\ info[u] # None
    /\ \A c \in Conns : pc[c] = "closing" => req[c].tcp

LEMMA UsersStayKnown == Spec => []KnownUsers
<1>1. Init => KnownUsers
  <2> SUFFICES ASSUME Init PROVE KnownUsers
      OBVIOUS
  <2>1. \A u \in Users : info[u] \in DeviceLimits[u] /\ deleting[u] = "none"
    BY DEF Init
  <2>2. \A c \in Conns : pc[c] = "idle"
    BY DEF Init
  <2> QED BY <2>1, <2>2, LimitsAssumption DEF KnownUsers
<1>2. TypeOK /\ GateLocked /\ KnownUsers /\ [Next]_vars => KnownUsers'
  <2> SUFFICES ASSUME TypeOK, GateLocked, KnownUsers, [Next]_vars PROVE KnownUsers'
      OBVIOUS
  <2>1. ASSUME NEW c \in Conns, ConnStep(c) PROVE KnownUsers'
    <3>1. UNCHANGED <<info, deleting>>
      BY <2>1, ReadLocalOutcomes, ReadAliveOutcomes DEF ConnStep, CheckLimit, TryOpenConn,
         ReadGlobal, ConnOpened, AddLink, End, ConnClosedLookup, ConnClosed
    <3>2. pc'[c] = "closing" => req'[c].tcp
      <4>1. CASE ConnClosedLookup(c)
        BY <4>1 DEF ConnClosedLookup, TypeOK, ConnTypes
      <4>2. CASE ~ConnClosedLookup(c)
        <5>1. Reject(c) \/ Pass(c) => pc'[c] # "closing"
          BY DEF Reject, Pass, TypeOK, ConnTypes
        <5>2. ASSUME NEW u, NEW i, NEW t, CheckLimit(c, u, i, t), t \in BOOLEAN, info[u] \in Int
              PROVE  pc'[c] # "closing"
          BY <5>2 DEF CheckLimit, TypeOK, ConnTypes
        <5>3. ASSUME NEW u \in Users, NEW i \in IPs, NEW t \in Networks, CheckLimit(c, u, i, t)
              PROVE  t \in BOOLEAN /\ info[u] \in Int
          BY <5>3, NetworksAssumption DEF CheckLimit, TypeOK, UserTypes
        <5> QED BY <2>1, <4>2, <5>1, <5>2, <5>3, ReadLocalOutcomes, ReadAliveOutcomes
                DEF ConnStep, TryOpenConn, ReadGlobal, ConnOpened, AddLink, End,
                    ConnClosed, TypeOK, ConnTypes
      <4> QED BY <4>1, <4>2
    <3>3. \A d \in Conns \ {c} : pc'[d] = pc[d] /\ req'[d] = req[d]
      BY <2>1, ConnKeepsOthers DEF ConnFrame
    <3> QED BY <3>1, <3>2, <3>3 DEF KnownUsers
  <2>2. CASE ~\E c \in Conns : ConnStep(c)
    <3>1. \A c \in Conns : pc'[c] = "closing" => req'[c].tcp
      BY <2>2, OthersKeepGate DEF Next, GateKept, KnownUsers
    <3>2. ASSUME NEW u \in Users, UserStep(u)
          PROVE  \A v \in Users \ Deletable : deleting'[v] = "none" /\ info'[v] # None
      <4>1. CASE u \in Deletable
        BY <3>2, <4>1 DEF UserStep, DelUsers, UpdateUserDelInfo, UpdateUserDelAlive,
           UpdateUserDelRefs, UpdateUserDelGlobal, UpdateUserDelCooldown, UpdateUserAdd,
           UpdateUserModify, KnownUsers, TypeOK, UserTypes
      <4>2. CASE u \notin Deletable
        <5>1. deleting[u] = "none"
          BY <4>2 DEF KnownUsers
        <5>2. UpdateUserModify(u)
          BY <3>2, <4>2, <5>1 DEF UserStep, DelUsers, UpdateUserDelInfo, UpdateUserDelAlive,
             UpdateUserDelRefs, UpdateUserDelGlobal, UpdateUserDelCooldown, UpdateUserAdd
        <5> QED BY <5>2, LimitsAssumption DEF UpdateUserModify, KnownUsers, TypeOK, UserTypes
      <4> QED BY <4>1, <4>2
    <3>3. CASE KickStep \/ UpdateGlobalDevices \/ SetAliveList \/ Tick \/ UNCHANGED vars
      <4>1. UNCHANGED <<info, deleting>>
        BY <3>3 DEF KickStep, KickDeviceLocal, KickDeviceCooldown, SyncKick,
           PurgeExpiredCooldowns, UpdateGlobalDevices, SetAliveList, Tick, GlobalGoesStale,
           CooldownElapses, ThrottleElapses, vars
      <4> QED BY <3>1, <4>1 DEF KnownUsers
    <3> QED BY <2>2, <3>1, <3>2, <3>3 DEF Next, KnownUsers
  <2> QED BY <2>1, <2>2
<1> QED BY <1>1, <1>2, TypeCorrect, GateExclusion, PTL DEF Spec

\* Whether a connection is one of the counted connections of a user and an address.
IsCounted(c, u, i) ==
    /\ pc[c] \in {"unlinked", "live", "ending", "closing"}
    /\ req[c].tcp /\ req[c].user = u /\ req[c].ip = i

\* The steps that neither open nor close a counted connection change no count.
LEMMA OtherStepsCountNothing ==
    ASSUME TypeOK, GateLocked, KnownUsers, [Next]_vars,
           ~\E c \in Conns : ConnOpened(c) \/ ConnClosed(c),
           NEW u \in Users \ Deletable, NEW i \in IPs
    PROVE  ref'[u] = ref[u] /\ Counted(u, i)' = Counted(u, i)
<1>1. ASSUME NEW c \in Conns, ConnStep(c)
      PROVE  ref' = ref /\ \A d \in Conns : IsCounted(d, u, i)' <=> IsCounted(d, u, i)
  <2>0. ref' = ref
    BY <1>1, ReadLocalOutcomes, ReadAliveOutcomes DEF ConnStep, CheckLimit, TryOpenConn,
       ReadGlobal, AddLink, End, ConnClosedLookup
  <2>1. \A d \in Conns \ {c} : IsCounted(d, u, i)' <=> IsCounted(d, u, i)
    BY <1>1, ConnKeepsOthers DEF ConnFrame, IsCounted
  <2> USE DEF TypeOK, ConnTypes
  <2>2. ASSUME NEW v \in Users, NEW j \in IPs, NEW t \in Networks, CheckLimit(c, v, j, t)
        PROVE  ~IsCounted(c, u, i) /\ ~IsCounted(c, u, i)'
    <3>1. info[v] \in Int /\ t \in BOOLEAN
      BY <2>2, NetworksAssumption DEF CheckLimit, UserTypes
    <3> QED BY <2>2, <3>1 DEF CheckLimit, IsCounted
  <2>3. ASSUME pc[c] \in {"lock", "local", "alive"}, Reject(c)
        PROVE  ~IsCounted(c, u, i) /\ ~IsCounted(c, u, i)'
    BY <2>3 DEF Reject, IsCounted
  <2>4. ASSUME pc[c] \in {"local", "alive"}, Pass(c)
        PROVE  ~IsCounted(c, u, i) /\ ~IsCounted(c, u, i)'
    BY <2>4 DEF Pass, IsCounted
  <2>5. CASE TryOpenConn(c)
    <3>1. CASE Reject(c)
      BY <2>0, <2>1, <2>3, <2>5, <3>1 DEF TryOpenConn
    <3>2. CASE ~Reject(c)
      <4>1. ~IsCounted(c, u, i) /\ ~IsCounted(c, u, i)'
        BY <2>5, <3>2 DEF TryOpenConn, IsCounted
      <4> QED BY <2>0, <2>1, <4>1
    <3> QED BY <3>1, <3>2
  <2>6. CASE ReadLocal(c)
    <3>1. ASSUME pc[c] = "local", pc' = [pc EXCEPT ![c] = "alive"]
          PROVE  ~IsCounted(c, u, i) /\ ~IsCounted(c, u, i)'
      BY <3>1 DEF IsCounted
    <3>2. ~IsCounted(c, u, i) /\ ~IsCounted(c, u, i)'
      BY <2>3, <2>4, <2>6, <3>1, ReadLocalOutcomes
    <3> QED BY <2>0, <2>1, <3>2
  <2>7. CASE ReadAlive(c)
    <3>1. ~IsCounted(c, u, i) /\ ~IsCounted(c, u, i)'
      BY <2>3, <2>4, <2>7, ReadAliveOutcomes
    <3> QED BY <2>0, <2>1, <3>1
  <2>8. CASE ReadGlobal(c) \/ AddLink(c) \/ End(c)
    <3>1. IsCounted(c, u, i)' <=> IsCounted(c, u, i)
      BY <2>8 DEF ReadGlobal, AddLink, End, IsCounted
    <3> QED BY <2>0, <2>1, <3>1
  <2>9. CASE ConnClosedLookup(c)
    <3>1. IsCounted(c, u, i)' <=> IsCounted(c, u, i)
      <4>1. info[u] # None
        BY DEF KnownUsers
      <4> QED BY <2>9, <4>1 DEF ConnClosedLookup, IsCounted
    <3> QED BY <2>0, <2>1, <3>1
  <2> QED BY <1>1, <2>0, <2>1, <2>2, <2>5, <2>6, <2>7, <2>8, <2>9 DEF ConnStep
<1>2. ASSUME ~\E c \in Conns : ConnStep(c)
      PROVE  ref'[u] = ref[u] /\ \A d \in Conns : IsCounted(d, u, i)' <=> IsCounted(d, u, i)
  <2>1. \A d \in Conns : IsCounted(d, u, i)' <=> IsCounted(d, u, i)
    BY <1>2, OthersKeepGate DEF Next, GateKept, IsCounted
  <2>2. ASSUME NEW v \in Users, UserStep(v) PROVE ref'[u] = ref[u]
    <3>1. CASE UpdateUserDelRefs(v)
      <4>1. v # u
        BY <3>1 DEF UpdateUserDelRefs, KnownUsers
      <4> QED BY <3>1, <4>1 DEF UpdateUserDelRefs, TypeOK, TableTypes
    <3>2. CASE ~UpdateUserDelRefs(v)
      BY <2>2, <3>2 DEF UserStep, DelUsers, UpdateUserDelInfo, UpdateUserDelAlive,
         UpdateUserDelGlobal, UpdateUserDelCooldown, UpdateUserAdd, UpdateUserModify
    <3> QED BY <3>1, <3>2
  <2>3. CASE KickStep \/ UpdateGlobalDevices \/ SetAliveList \/ Tick \/ UNCHANGED vars
    BY <2>1, <2>3 DEF KickStep, KickDeviceLocal, KickDeviceCooldown, SyncKick,
       PurgeExpiredCooldowns, UpdateGlobalDevices, SetAliveList, Tick, GlobalGoesStale,
       CooldownElapses, ThrottleElapses, vars
  <2> QED BY <1>2, <2>1, <2>2, <2>3 DEF Next
<1>3. ref'[u] = ref[u] /\ \A d \in Conns : IsCounted(d, u, i)' <=> IsCounted(d, u, i)
  BY <1>1, <1>2
<1> QED BY <1>3 DEF Counted, IsCounted

\* Every ConnOpened of a user who is never deleted meets exactly one ConnClosed: the
\* count of an address is the number of its open TCP connections.
THEOREM CountsExact == Spec => []RefcountExact
<1>1. Init => RefcountExact
  <2> SUFFICES ASSUME Init, NEW u \in Users \ Deletable, NEW i \in IPs
               PROVE  ref[u][i] = Cardinality(Counted(u, i))
      BY DEF RefcountExact
  <2>1. Counted(u, i) = {}
    BY DEF Init, Counted
  <2> QED BY <2>1, FS_EmptySet DEF Init
<1>2. TypeOK /\ GateLocked /\ KnownUsers /\ RefcountExact /\ [Next]_vars => RefcountExact'
  <2> SUFFICES ASSUME TypeOK, GateLocked, KnownUsers, RefcountExact, [Next]_vars,
                      NEW u \in Users \ Deletable, NEW i \in IPs
               PROVE  ref'[u][i] = Cardinality(Counted(u, i)')
      BY DEF RefcountExact
  <2>0. /\ ref[u][i] = Cardinality(Counted(u, i))
        /\ IsFiniteSet(Counted(u, i))
        /\ ref \in [Users -> [IPs -> Nat]]
    <3>1. Counted(u, i) \in SUBSET Conns
      BY DEF Counted
    <3> QED BY <3>1, ConnsAssumption, FS_Subset DEF RefcountExact, TypeOK, TableTypes
  <2>1. ASSUME NEW c \in Conns, ConnOpened(c) PROVE ref'[u][i] = Cardinality(Counted(u, i)')
    <3>1. /\ req[c].user \in Users /\ req[c].ip \in IPs /\ req[c].tcp /\ c \notin Counted(u, i)
          /\ pc' = [pc EXCEPT ![c] = "unlinked"] /\ req' = req
      BY <2>1 DEF ConnOpened, TypeOK, ConnTypes, Request, GateLocked, Counted
    <3>2. CASE req[c].user = u /\ req[c].ip = i
      <4>1. Counted(u, i)' = Counted(u, i) \cup {c}
        BY <3>1, <3>2 DEF Counted, TypeOK, ConnTypes
      <4>2. ref'[u][i] = ref[u][i] + 1
        BY <2>0, <2>1, <3>1, <3>2 DEF ConnOpened
      <4>3. Cardinality(Counted(u, i) \cup {c}) = Cardinality(Counted(u, i)) + 1
        BY <2>0, <3>1, FS_AddElement
      <4> QED BY <2>0, <4>1, <4>2, <4>3
    <3>3. CASE ~(req[c].user = u /\ req[c].ip = i)
      <4>1. Counted(u, i)' = Counted(u, i)
        BY <3>1, <3>3 DEF Counted, TypeOK, ConnTypes
      <4>2. ref'[u][i] = ref[u][i]
        BY <2>0, <2>1, <3>1, <3>3 DEF ConnOpened
      <4> QED BY <2>0, <4>1, <4>2
    <3> QED BY <3>2, <3>3
  <2>2. ASSUME NEW c \in Conns, ConnClosed(c) PROVE ref'[u][i] = Cardinality(Counted(u, i)')
    <3>1. /\ req[c].user \in Users /\ req[c].ip \in IPs /\ req[c].tcp
          /\ pc[c] = "closing" /\ pc' = [pc EXCEPT ![c] = "idle"]
          /\ req' = [req EXCEPT ![c] = None]
      BY <2>2 DEF ConnClosed, TypeOK, ConnTypes, Request, KnownUsers
    <3>2. CASE req[c].user = u /\ req[c].ip = i
      <4>1. Counted(u, i)' = Counted(u, i) \ {c} /\ c \in Counted(u, i)
        BY <3>1, <3>2 DEF Counted, TypeOK, ConnTypes
      <4>2. ref[u][i] \in Nat /\ ref[u][i] > 0
        BY <2>0, <4>1, FS_EmptySet, FS_CardinalityType
      <4>3. ref'[u][i] = ref[u][i] - 1
        BY <2>0, <2>2, <3>1, <3>2, <4>2 DEF ConnClosed
      <4>4. Cardinality(Counted(u, i) \ {c}) = Cardinality(Counted(u, i)) - 1
        BY <2>0, <4>1, FS_RemoveElement
      <4> QED BY <2>0, <4>1, <4>3, <4>4
    <3>3. CASE ~(req[c].user = u /\ req[c].ip = i)
      <4>1. Counted(u, i)' = Counted(u, i)
        BY <3>1, <3>3 DEF Counted, TypeOK, ConnTypes
      <4>2. ref'[u][i] = ref[u][i]
        <5>1. \E n : ref' = [ref EXCEPT ![req[c].user][req[c].ip] = n]
          BY <2>2 DEF ConnClosed
        <5> QED BY <2>0, <3>1, <3>3, <5>1
      <4> QED BY <2>0, <4>1, <4>2
    <3> QED BY <3>2, <3>3
  <2>3. CASE ~\E c \in Conns : ConnOpened(c) \/ ConnClosed(c)
    BY <2>0, <2>3, OtherStepsCountNothing
  <2> QED BY <2>1, <2>2, <2>3
<1> QED BY <1>1, <1>2, TypeCorrect, GateExclusion, UsersStayKnown, PTL DEF Spec

-----------------------------------------------------------------------------
(***************************************************************************)
(* The device gate implements DeviceLimit: the abstract devices are the    *)
(* addresses with a positive count, the abstract bans the active cooldown  *)
(* entries.  Each step of DeviceGate changes at most one of the two, of    *)
(* one user, and in a way DeviceLimit allows.  The only step that could do *)
(* otherwise is ConnOpened; that it may join its device is what the gate's *)
(* invariants (GateLocked, GateNotCooling, GateRoom) are for.              *)
(***************************************************************************)

\* The refinement mapping, under names of its own.
Online == [u \in Users |-> Devices(u)]
Cooling == [u \in Users |-> {i \in IPs : cool[u][i] = "active"}]

\* What is proved of a step: it is a step of DeviceLimit, or changes nothing there.
AbstractStep == [Limit!Next]_(Limit!vars)

\* The instance counts with the same Cardinality.
LEMMA SameCardinality == ASSUME NEW S PROVE Limit!Cardinality(S) = Cardinality(S)
BY Zenon DEF Limit!Cardinality, Cardinality

\* The shapes of a step that DeviceLimit allows.
LEMMA StepForms ==
    /\ Online' = Online /\ Cooling' = Cooling => AbstractStep
    /\ \A u \in Users : Online' = [Online EXCEPT ![u] = {}] /\ Cooling' = Cooling
          => AbstractStep
    /\ \A u \in Users : Cooling' = [Cooling EXCEPT ![u] = {}] /\ Online' = Online
          => AbstractStep
    /\ \A u \in Users, i \in IPs :
          Online' = [Online EXCEPT ![u] = @ \ {i}] /\ Cooling' = Cooling => AbstractStep
    /\ \A u \in Users, i \in IPs :
          Cooling' = [Cooling EXCEPT ![u] = @ \cup {i}] /\ Online' = Online => AbstractStep
    /\ \A u \in Users, i \in IPs :
          Cooling' = [Cooling EXCEPT ![u] = @ \ {i}] /\ Online' = Online => AbstractStep
    /\ \A u \in Users, i \in IPs :
          /\ u \in Metered => i \notin Cooling[u] /\ Limit!WithinLimit(u, Online[u] \cup {i})
          /\ Online' = [Online EXCEPT ![u] = @ \cup {i}] /\ Cooling' = Cooling
          => AbstractStep
BY DEF AbstractStep, Online, Cooling, Metered, Limit!Next, Limit!vars, Limit!DevicesChange,
   Limit!BansChange, Limit!Join, Limit!Leave, Limit!Forget, Limit!Ban, Limit!Lift,
   Limit!Pardon, Limit!Metered

\* Steps that leave counts and cooldowns alone, or only retire expired entries.
LEMMA UnchangedMaps ==
    /\ ref' = ref => Online' = Online
    /\ cool' = cool => Cooling' = Cooling
BY DEF Online, Cooling, Devices

\* The count of one connection: it joins its address, whose room and cooldown the
\* gate has made sure of.
LEMMA ConnOpenedJoins ==
    ASSUME TypeOK, GateLocked, GateNotCooling, GateRoom, NEW c \in Conns, ConnOpened(c)
    PROVE  AbstractStep
<1> DEFINE u == req[c].user
           i == req[c].ip
<1>1. /\ pc[c] = "admit" /\ u \in Users /\ i \in IPs /\ req[c].tcp
      /\ req[c].lim \in DeviceLimits[u]
  BY DEF ConnOpened, TypeOK, ConnTypes, Request, GateLocked
<1>2. Online' = [Online EXCEPT ![u] = @ \cup {i}]
  <2>1. \A v \in Users, j \in IPs :
           ref'[v][j] = IF v = u /\ j = i THEN ref[v][j] + 1 ELSE ref[v][j]
    BY <1>1 DEF ConnOpened, TypeOK, TableTypes
  <2>2. \A v \in Users, j \in IPs : ref[v][j] \in Nat
    BY DEF TypeOK, TableTypes
  <2>3. \A v \in Users : Devices(v)' = IF v = u THEN Devices(v) \cup {i} ELSE Devices(v)
    BY <1>1, <2>1, <2>2 DEF Devices
  <2> QED BY <1>1, <2>3 DEF Online
<1>3. Cooling' = Cooling
  BY UnchangedMaps DEF ConnOpened
<1>4. ASSUME u \in Metered
      PROVE  i \notin Cooling[u] /\ Limit!WithinLimit(u, Online[u] \cup {i})
  <2>1. InGate(c)
    BY <1>1, <1>4 DEF InGate, Gated, Metered
  <2>2. cool[u][i] # "active"
    BY <2>1 DEF GateNotCooling
  <2>3. \E l \in DeviceLimits[u] : Cardinality(Devices(u) \cup {i}) <= l
    BY <1>1, <1>4 DEF GateRoom
  <2>4. Online[u] = Devices(u) /\ Cooling[u] = {j \in IPs : cool[u][j] = "active"}
    BY <1>1 DEF Online, Cooling
  <2>5. Limit!WithinLimit(u, Online[u] \cup {i})
    BY <2>3, <2>4, SameCardinality DEF Limit!WithinLimit
  <2> QED BY <2>2, <2>4, <2>5
<1>5. /\ u \in Metered => i \notin Cooling[u] /\ Limit!WithinLimit(u, Online[u] \cup {i})
      /\ Online' = [Online EXCEPT ![u] = @ \cup {i}] /\ Cooling' = Cooling
  BY <1>2, <1>3, <1>4
<1>6. u \in Users /\ i \in IPs
  BY <1>1
<1> HIDE DEF u, i
<1> QED BY <1>5, <1>6, StepForms

\* The end of a connection takes at most its own address away.
LEMMA ConnClosedLeaves ==
    ASSUME TypeOK, NEW c \in Conns, ConnClosed(c)
    PROVE  AbstractStep
<1> DEFINE u == req[c].user
           i == req[c].ip
<1>1. u \in Users /\ i \in IPs
  BY DEF ConnClosed, TypeOK, ConnTypes, Request
<1>2. Cooling' = Cooling
  BY UnchangedMaps DEF ConnClosed
<1>3. /\ \A v \in Users, j \in IPs : ~(v = u /\ j = i) => ref'[v][j] = ref[v][j]
      /\ ref'[u][i] = IF ref[u][i] > 0 THEN ref[u][i] - 1 ELSE 0
  BY <1>1 DEF ConnClosed, TypeOK, TableTypes
<1>4. \A v \in Users, j \in IPs : ref[v][j] \in Nat
  BY DEF TypeOK, TableTypes
<1>5. CASE ref'[u][i] > 0
  <2>1. \A v \in Users : Devices(v)' = Devices(v)
    BY <1>1, <1>3, <1>4, <1>5 DEF Devices
  <2> QED BY <1>2, <2>1, StepForms DEF Online
<1>6. CASE ~(ref'[u][i] > 0)
  <2>1. \A v \in Users : Devices(v)' = IF v = u THEN Devices(v) \ {i} ELSE Devices(v)
    BY <1>1, <1>3, <1>4, <1>6 DEF Devices
  <2>2. Online' = [Online EXCEPT ![u] = @ \ {i}]
    BY <1>1, <2>1 DEF Online
  <2> QED BY <1>1, <1>2, <2>2, StepForms
<1> QED BY <1>5, <1>6

\* Every other step changes one of the two maps at most.
LEMMA OtherStepsAllowed ==
    ASSUME TypeOK, Next, ~\E c \in Conns : ConnOpened(c) \/ ConnClosed(c)
    PROVE  AbstractStep
<1>1. CASE ref' = ref /\ cool' = cool
  BY <1>1, UnchangedMaps, StepForms
<1>2. ASSUME NEW c \in Conns, ConnStep(c)
      PROVE  ref' = ref /\ cool' = cool
  BY <1>2, ReadLocalOutcomes, ReadAliveOutcomes DEF ConnStep, CheckLimit, TryOpenConn,
     ReadGlobal, AddLink, End, ConnClosedLookup
<1>3. ASSUME NEW k \in kicks, KickDeviceCooldown(k)
      PROVE  AbstractStep
  <2>1. k.user \in Users /\ k.ip \in IPs
    BY DEF TypeOK, GateTypes, Kick
  <2>2. Cooling' = [Cooling EXCEPT ![k.user] = @ \cup {k.ip}]
    BY <1>3, <2>1 DEF KickDeviceCooldown, Cooling, TypeOK, TableTypes
  <2>3. Online' = Online
    BY <1>3, UnchangedMaps DEF KickDeviceCooldown
  <2> QED BY <2>1, <2>2, <2>3, StepForms
<1>4. ASSUME NEW s \in Shards, PurgeExpiredCooldowns(s)
      PROVE  AbstractStep
  <2>1. \A u \in Users, i \in IPs : (cool'[u][i] = "active") <=> (cool[u][i] = "active")
    <3>1. \A u \in Users, i \in IPs :
             cool'[u][i] = IF <<u, i>> \in Expired(s) THEN "none" ELSE cool[u][i]
      BY <1>4 DEF PurgeExpiredCooldowns
    <3>2. \A u \in Users, i \in IPs : <<u, i>> \in Expired(s) => cool[u][i] = "expired"
      BY DEF Expired
    <3> QED BY <3>1, <3>2
  <2>2. Cooling' = Cooling
    BY <2>1 DEF Cooling
  <2>3. Online' = Online
    BY <1>4, UnchangedMaps DEF PurgeExpiredCooldowns
  <2> QED BY <2>2, <2>3, StepForms
<1>5. ASSUME NEW u \in Users, UpdateUserDelRefs(u)
      PROVE  AbstractStep
  <2>1. Online' = [Online EXCEPT ![u] = {}]
    <3>1. \A v \in Users, i \in IPs : ref'[v][i] = IF v = u THEN 0 ELSE ref[v][i]
      BY <1>5 DEF UpdateUserDelRefs, TypeOK, TableTypes
    <3>2. \A v \in Users : Devices(v)' = IF v = u THEN {} ELSE Devices(v)
      BY <3>1 DEF Devices
    <3> QED BY <3>2 DEF Online
  <2>2. Cooling' = Cooling
    BY <1>5, UnchangedMaps DEF UpdateUserDelRefs
  <2> QED BY <2>1, <2>2, StepForms
<1>6. ASSUME NEW u \in Users, UpdateUserDelCooldown(u)
      PROVE  AbstractStep
  <2>1. Cooling' = [Cooling EXCEPT ![u] = {}]
    BY <1>6 DEF UpdateUserDelCooldown, Cooling, TypeOK, TableTypes
  <2>2. Online' = Online
    BY <1>6, UnchangedMaps DEF UpdateUserDelCooldown
  <2> QED BY <2>1, <2>2, StepForms
<1>7. ASSUME NEW u \in Users, NEW i \in IPs, CooldownElapses(u, i)
      PROVE  AbstractStep
  <2>1. Cooling' = [Cooling EXCEPT ![u] = @ \ {i}]
    BY <1>7 DEF CooldownElapses, Cooling, TypeOK, TableTypes
  <2>2. Online' = Online
    BY <1>7, UnchangedMaps DEF CooldownElapses
  <2> QED BY <2>1, <2>2, StepForms
<1>8. ASSUME NEW u \in Users, UserStep(u), ~UpdateUserDelRefs(u), ~UpdateUserDelCooldown(u)
      PROVE  ref' = ref /\ cool' = cool
  BY <1>8 DEF UserStep, DelUsers, UpdateUserDelInfo, UpdateUserDelAlive,
     UpdateUserDelGlobal, UpdateUserAdd, UpdateUserModify
<1>9. CASE \/ KickStep /\ ~(\E k \in kicks : KickDeviceCooldown(k))
                       /\ ~(\E s \in Shards : PurgeExpiredCooldowns(s))
           \/ UpdateGlobalDevices \/ SetAliveList \/ GlobalGoesStale
           \/ \E s \in Shards : ThrottleElapses(s)
  BY <1>1, <1>9 DEF KickStep, KickDeviceLocal, SyncKick, UpdateGlobalDevices, SetAliveList,
     GlobalGoesStale, ThrottleElapses
<1> QED BY <1>1, <1>2, <1>3, <1>4, <1>5, <1>6, <1>7, <1>8, <1>9 DEF Next, KickStep, Tick

\* The initial tables are empty: nobody is online, nobody is banned.
LEMMA InitAbstract == Init => Limit!Init
BY DEF Init, Limit!Init, Devices

\* The gate, with its locks, tables and goroutines, is a device limit: for any number
\* of users, addresses and connections, TryOpenConn, ConnClosed, kickDevice, the purge
\* and the deletion of users together do what DeviceLimit allows and nothing else.
THEOREM GateImplementsDeviceLimit == Spec => ImplementsDeviceLimit
<1>1. TypeOK /\ GateLocked /\ GateNotCooling /\ GateRoom /\ [Next]_vars => AbstractStep
  <2> SUFFICES ASSUME TypeOK, GateLocked, GateNotCooling, GateRoom, [Next]_vars
               PROVE  AbstractStep
      OBVIOUS
  <2>1. CASE UNCHANGED vars
    BY <2>1, UnchangedMaps, StepForms DEF vars
  <2>2. CASE \E c \in Conns : ConnOpened(c) \/ ConnClosed(c)
    BY <2>2, ConnOpenedJoins, ConnClosedLeaves
  <2>3. CASE Next /\ ~\E c \in Conns : ConnOpened(c) \/ ConnClosed(c)
    BY <2>3, OtherStepsAllowed
  <2> QED BY <2>1, <2>2, <2>3
<1> QED BY <1>1, InitAbstract, TypeCorrect, GateExclusion, NoCoolingInGate, RoomHolds, PTL
        DEF Spec, ImplementsDeviceLimit, Limit!Spec, AbstractStep

=============================================================================
