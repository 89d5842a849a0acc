---------------------------- MODULE DeviceReport ----------------------------
(***************************************************************************)
(* The WebSocket device report: the reporter task (reportDevicesTask in    *)
(* node/controller.go), the limiter's dirty flag and snapshot              *)
(* (limiter/limiter.go), and the client's connection and write queue       *)
(* (api/panel/ws.go).                                                      *)
(*                                                                         *)
(* The goroutines that change the limiter's tables mark them dirty after   *)
(* the change; the reporter snapshots the tables shard by shard, compares  *)
(* the snapshot with the last one it sent, queues it and clears the mark;  *)
(* the connection is made, lost and made again under it, each time with a  *)
(* new queue, and the panel forgets the node's devices with the old one.   *)
(*                                                                         *)
(* A snapshot maps a user to the set of its addresses, or to None when the *)
(* map has no such key; it stands for its hash as well (SHA-256 collisions *)
(* are left out), with None for the empty string.  The panel is external.  *)
(***************************************************************************)
EXTENDS Integers, Sequences, SequencesExt

CONSTANTS
    Users, IPs,
    Writers,     \* goroutines that change the tables
    QueueCap,    \* capacity of writeCh (16 in the code)
    SlowRounds,  \* may a round of the reporter outlast a reconnect (at least 1s)?
    None         \* the empty hash, the nil channel, a key that is not there

ASSUME QueueCapAssumption == QueueCap \in Nat \ {0}
ASSUME SlowRoundsAssumption == SlowRounds \in BOOLEAN
ASSUME UsersAssumption == Users \cap {"idle", "mark"} = {}
ASSUME NoneAssumption == None # "current" /\ \A s \in SUBSET IPs : s # None

VARIABLES
    open,       \* refShards: per user, the addresses with open connections
    cool,       \* kickCooldown: per user and address, "none", "active", "expired"
    dirty,      \* deviceDirty
    writer,     \* the writers: "idle", "mark" (dirty not set yet), or a user that
                \* UpdateUser is half through deleting
    round,      \* where the reporter stands
    prev,       \* its prevHash
    snap,       \* its snapshot
    walk,       \* the users it has still to visit
    held,       \* the channel SendDeviceReport read: None, "current", or a channel
                \* abandoned since, with room or without: "room", "full"
    lastHash,   \* lastReportDevicesHash
    link,       \* where WSClient.Run stands
    connected,  \* WSClient.connected
    writeCh,    \* the queue, or None
    panel,      \* external: the devices the panel has for this node
    missed      \* history: a table changed behind the reporter's snapshot

tableVars == <<open, cool>>
roundVars == <<round, prev, snap, walk, held>>
linkVars == <<link, connected, writeCh, panel>>
vars == <<open, cool, dirty, writer, round, prev, snap, walk, held, lastHash,
          link, connected, writeCh, panel, missed>>

-----------------------------------------------------------------------------
Snapshots == [Users -> (SUBSET IPs) \cup {None}]
ASSUME NoneIsNoSnapshot == None \notin Snapshots
EmptySnapshot == [u \in Users |-> None]

\* A queued message: a report.devices, or one of the others (report.kick,
\* request.devices, pong), which matter here for the room they take.
Messages == [isReport: BOOLEAN, devices: Snapshots]
ASSUME NoneIsNoQueue == None \notin Seq(Messages)
Report(s) == [isReport |-> TRUE, devices |-> s]
Other == [isReport |-> FALSE, devices |-> EmptySnapshot]

\* The devices of a snapshot.
DevicesIn(s) == {d \in Users \X IPs : s[d[1]] # None /\ d[2] \in s[d[1]]}

Listed(u) == {i \in IPs : cool[u][i] # "none"}
Active(u) == {i \in IPs : cool[u][i] = "active"}

\* What a snapshot taken now would report.
Reportable == {d \in Users \X IPs : d[2] \in open[d[1]] \cup Active(d[1])}

\* The reporter's places: the steps of reportDevicesTask, in order.
Rounds == {"idle", "prev", "dirty", "refs", "count", "cool", "decide", "send", "chan",
           "put", "save", "reset"}
AfterCool == {"decide", "send", "chan", "put", "save", "reset"}

TypeOK ==
    /\ open \in [Users -> SUBSET IPs]
    /\ cool \in [Users -> [IPs -> {"none", "active", "expired"}]]
    /\ dirty \in BOOLEAN
    /\ writer \in [Writers -> {"idle", "mark"} \cup Users]
    /\ round \in Rounds
    /\ prev \in Snapshots \cup {None} /\ lastHash \in Snapshots \cup {None}
    /\ snap \in Snapshots
    /\ walk \in SUBSET Users
    /\ held \in {None, "current", "room", "full"}
    /\ link \in {"down", "opened", "notified", "up", "dropped"}
    /\ connected \in BOOLEAN
    /\ writeCh = None \/ (writeCh \in Seq(Messages) /\ Len(writeCh) <= QueueCap)
    /\ panel \in SUBSET (Users \X IPs)
    /\ missed \in BOOLEAN

Init ==
    /\ open = [u \in Users |-> {}]
    /\ cool = [u \in Users |-> [i \in IPs |-> "none"]]
    /\ dirty = FALSE
    /\ writer = [w \in Writers |-> "idle"]
    /\ round = "idle" /\ prev = None /\ snap = EmptySnapshot /\ walk = {} /\ held = None
    /\ lastHash = None
    /\ link = "down" /\ connected = FALSE /\ writeCh = None /\ panel = {}
    /\ missed = FALSE

-----------------------------------------------------------------------------
(* The writers: the table first, the mark afterwards. *)

RefsVisited(u) == (round = "refs" /\ u \notin walk) \/ round \in {"count", "cool"} \cup AfterCool
CoolVisited(u) == (round = "cool" /\ u \notin walk) \/ round \in AfterCool

\* ConnOpened and ConnClosed: an address appears, disappears, or (another connection
\* of it is open) only the mark is set.
ConnChange(w, u, i) ==
    /\ writer[w] = "idle"
    /\ \E ips \in {open[u], open[u] \cup {i}, open[u] \ {i}} :
         /\ open' = [open EXCEPT ![u] = ips]
         /\ missed' = (missed \/ (RefsVisited(u) /\ ips # open[u]))
    /\ writer' = [writer EXCEPT ![w] = "mark"]
    /\ UNCHANGED <<cool, dirty, roundVars, lastHash, linkVars>>

\* kickDevice: the cooldown entry of the evicted address, new or refreshed.
KickDevice(w, u, i) ==
    /\ writer[w] = "idle"
    /\ cool' = [cool EXCEPT ![u][i] = "active"]
    /\ missed' = (missed \/ (CoolVisited(u) /\ cool[u][i] # "active"))
    /\ writer' = [writer EXCEPT ![w] = "mark"]
    /\ UNCHANGED <<open, dirty, roundVars, lastHash, linkVars>>

\* UpdateUser on a deleted user: its connections' entry, then its cooldown entries.
UpdateUserRefs(w, u) ==
    /\ writer[w] = "idle"
    /\ open' = [open EXCEPT ![u] = {}]
    /\ missed' = (missed \/ (RefsVisited(u) /\ open[u] # {}))
    /\ writer' = [writer EXCEPT ![w] = u]
    /\ UNCHANGED <<cool, dirty, roundVars, lastHash, linkVars>>

UpdateUserCooldown(w) ==
    /\ writer[w] \in Users
    /\ cool' = [cool EXCEPT ![writer[w]] = [i \in IPs |-> "none"]]
    /\ missed' = (missed \/ (CoolVisited(writer[w]) /\ Listed(writer[w]) # {}))
    /\ writer' = [writer EXCEPT ![w] = "mark"]
    /\ UNCHANGED <<open, dirty, roundVars, lastHash, linkVars>>

\* deviceDirty.Store(true), the last step of all of them.
MarkDirty(w) ==
    /\ writer[w] = "mark"
    /\ dirty' = TRUE
    /\ writer' = [writer EXCEPT ![w] = "idle"]
    /\ UNCHANGED <<tableVars, roundVars, lastHash, linkVars, missed>>

\* Time: a cooldown is over; the entry stays until the next purge.
CooldownElapses(u, i) ==
    /\ cool[u][i] = "active"
    /\ cool' = [cool EXCEPT ![u][i] = "expired"]
    /\ UNCHANGED <<open, dirty, writer, roundVars, lastHash, linkVars, missed>>

-----------------------------------------------------------------------------
(* The reporter: one round of reportDevicesTask. *)

\* The end of a round: nothing of it is kept.
Return ==
    /\ round' = "idle" /\ prev' = None /\ snap' = EmptySnapshot /\ walk' = {} /\ held' = None

BeginRound ==
    /\ round = "idle" /\ connected
    /\ round' = "prev"
    /\ UNCHANGED <<tableVars, dirty, writer, prev, snap, walk, held, lastHash, linkVars, missed>>

ReadPrevHash ==
    /\ round = "prev"
    /\ prev' = lastHash
    /\ round' = "dirty"
    /\ UNCHANGED <<tableVars, dirty, writer, snap, walk, held, lastHash, linkVars, missed>>

\* Seeded fault: expired cooldowns are purged without a look at what that changes.
Bug_PurgeUnnoticed ==
    /\ round = "dirty"
    /\ cool' = [u \in Users |-> [i \in IPs |->
                   IF cool[u][i] = "expired" THEN "none" ELSE cool[u][i]]]
    /\ IF ~dirty /\ prev # None
       THEN Return /\ UNCHANGED missed
       ELSE /\ round' = "refs" /\ walk' = Users /\ missed' = FALSE
            /\ UNCHANGED <<prev, snap, held>>
    /\ UNCHANGED <<open, dirty, writer, lastHash, linkVars>>

\* DevicesDirty: the expired cooldowns are purged first, which counts as a change.
\* Without a change and with a baseline the round is over.
DevicesDirty ==
    LET removed == \E u \in Users : Listed(u) # Active(u)
    IN  /\ round = "dirty"
        /\ cool' = [u \in Users |-> [i \in IPs |->
                       IF cool[u][i] = "expired" THEN "none" ELSE cool[u][i]]]
        /\ dirty' = (dirty \/ removed)
        /\ IF ~dirty' /\ prev # None
           THEN Return /\ UNCHANGED missed
           ELSE /\ round' = "refs" /\ walk' = Users /\ missed' = FALSE
                /\ UNCHANGED <<prev, snap, held>>
        /\ UNCHANGED <<open, writer, lastHash, linkVars>>

\* LocalDeviceSnapshot, refShards: one user's shard under its lock.
SnapshotRefs(u) ==
    /\ round = "refs" /\ u \in walk
    /\ snap' = [snap EXCEPT ![u] = IF open[u] = {} THEN None ELSE open[u]]
    /\ walk' = walk \ {u}
    /\ round' = IF walk = {u} THEN "count" ELSE "refs"
    /\ UNCHANGED <<tableVars, dirty, writer, prev, held, lastHash, linkVars, missed>>

\* LocalDeviceSnapshot: without cooldown entries the snapshot is complete.
SnapshotCount ==
    /\ round = "count"
    /\ IF \A u \in Users : Listed(u) = {}
       THEN round' = "decide" /\ UNCHANGED walk
       ELSE round' = "cool" /\ walk' = Users
    /\ UNCHANGED <<tableVars, dirty, writer, prev, snap, held, lastHash, linkVars, missed>>

\* LocalDeviceSnapshot, kickCooldown: a user with entries gets a key even when all of
\* them have expired.
SnapshotCooldown(u) ==
    /\ round = "cool" /\ u \in walk
    /\ snap' = IF Listed(u) = {} THEN snap
               ELSE [snap EXCEPT ![u] = (IF @ = None THEN {} ELSE @) \cup Active(u)]
    /\ walk' = walk \ {u}
    /\ round' = IF walk = {u} THEN "decide" ELSE "cool"
    /\ UNCHANGED <<tableVars, dirty, writer, prev, held, lastHash, linkVars, missed>>

\* An empty snapshot is sent once, after a report that was not; another one is sent
\* when its hash is not the last one's, which is read again here.
Decide ==
    /\ round = "decide"
    /\ round' = IF snap = EmptySnapshot
                THEN IF prev # None THEN "send" ELSE "reset"
                ELSE IF snap # lastHash THEN "send" ELSE "reset"
    /\ UNCHANGED <<tableVars, dirty, writer, prev, snap, walk, held, lastHash, linkVars, missed>>

\* SendDeviceReport: connected is read, then the channel, then the channel is used.
SendCheckConnected ==
    /\ round = "send"
    /\ IF connected THEN round' = "chan" /\ UNCHANGED <<prev, snap, walk, held>> ELSE Return
    /\ UNCHANGED <<tableVars, dirty, writer, lastHash, linkVars, missed>>

SendReadChannel ==
    /\ round = "chan"
    /\ IF writeCh # None
       THEN round' = "put" /\ held' = "current" /\ UNCHANGED <<prev, snap, walk>>
       ELSE Return
    /\ UNCHANGED <<tableVars, dirty, writer, lastHash, linkVars, missed>>

SendPut ==
    /\ round = "put"
    /\ LET full == IF held = "current" THEN Len(writeCh) = QueueCap ELSE held = "full"
       IN  /\ writeCh' = IF held = "current" /\ ~full THEN Append(writeCh, Report(snap)) ELSE writeCh
           /\ IF full THEN Return ELSE round' = "save" /\ UNCHANGED <<prev, snap, walk, held>>
    /\ UNCHANGED <<tableVars, dirty, writer, lastHash, link, connected, panel, missed>>

\* The new baseline; after an empty report there is none.
SaveHash ==
    /\ round = "save"
    /\ lastHash' = IF snap = EmptySnapshot THEN None ELSE snap
    /\ round' = "reset"
    /\ UNCHANGED <<tableVars, dirty, writer, prev, snap, walk, held, linkVars, missed>>

ResetDevicesDirty ==
    /\ round = "reset"
    /\ dirty' = FALSE
    /\ Return
    /\ UNCHANGED <<tableVars, writer, lastHash, linkVars, missed>>

-----------------------------------------------------------------------------
(* The connection: WSClient.Run and connect. *)

\* Dial and authenticate; the earliest a second after the last connection ended.
Connect ==
    /\ link = "down" /\ (SlowRounds \/ round = "idle")
    /\ connected' = TRUE
    /\ link' = "opened"
    /\ UNCHANGED <<tableVars, dirty, writer, roundVars, lastHash, writeCh, panel, missed>>

\* Seeded fault: the status callback leaves the old baseline.
Bug_NotifyKeepsHash ==
    /\ link = "opened"
    /\ link' = "notified"
    /\ UNCHANGED <<tableVars, dirty, writer, roundVars, lastHash, connected, writeCh, panel, missed>>

\* notifyStatus(true): the controller forgets its baseline.
NotifyConnected ==
    /\ link = "opened"
    /\ lastHash' = None
    /\ link' = "notified"
    /\ UNCHANGED <<tableVars, dirty, writer, roundVars, connected, writeCh, panel, missed>>

\* The new queue, with request.devices in it.
MakeWriteCh ==
    /\ link = "notified"
    /\ writeCh' = <<Other>>
    /\ link' = "up"
    /\ UNCHANGED <<tableVars, dirty, writer, roundVars, lastHash, connected, panel, missed>>

\* Seeded fault: the queue is no longer bounded.
Bug_QueueOtherUnbounded ==
    /\ writeCh # None
    /\ writeCh' = Append(writeCh, Other)
    /\ UNCHANGED <<tableVars, dirty, writer, roundVars, lastHash, link, connected, panel, missed>>

\* SendKickReport and the read loop's pong: dropped when there is no room.
QueueOther ==
    /\ writeCh # None /\ Len(writeCh) < QueueCap
    /\ writeCh' = Append(writeCh, Other)
    /\ UNCHANGED <<tableVars, dirty, writer, roundVars, lastHash, link, connected, panel, missed>>

\* The write loop; the panel replaces the node's devices by a report's.
WriteMessage ==
    /\ link = "up" /\ writeCh # <<>>
    /\ writeCh' = Tail(writeCh)
    /\ panel' = IF Head(writeCh).isReport THEN DevicesIn(Head(writeCh).devices) ELSE panel
    /\ UNCHANGED <<tableVars, dirty, writer, roundVars, lastHash, link, connected, missed>>

\* A read or write error or a silence of two minutes: the queue is abandoned with
\* what it holds, the connection is closed, and the panel forgets the node.
ConnectReturns ==
    /\ link = "up"
    /\ writeCh' = None
    /\ held' = IF held # "current" THEN held
               ELSE IF Len(writeCh) = QueueCap THEN "full" ELSE "room"
    /\ panel' = {}
    /\ link' = "dropped"
    /\ UNCHANGED <<tableVars, dirty, writer, round, prev, snap, walk, lastHash, connected, missed>>

Disconnected ==
    /\ link = "dropped"
    /\ connected' = FALSE
    /\ link' = "down"
    /\ UNCHANGED <<tableVars, dirty, writer, roundVars, lastHash, writeCh, panel, missed>>

-----------------------------------------------------------------------------
WriterStep(w) ==
    \/ \E u \in Users, i \in IPs : ConnChange(w, u, i) \/ KickDevice(w, u, i)
    \/ \E u \in Users : UpdateUserRefs(w, u)
    \/ UpdateUserCooldown(w)
    \/ MarkDirty(w)

ReporterStep ==
    \/ BeginRound
    \/ ReadPrevHash
    \/ DevicesDirty
    \/ \E u \in Users : SnapshotRefs(u) \/ SnapshotCooldown(u)
    \/ SnapshotCount
    \/ Decide
    \/ SendCheckConnected
    \/ SendReadChannel
    \/ SendPut
    \/ SaveHash
    \/ ResetDevicesDirty

LinkStep ==
    \/ Connect
    \/ NotifyConnected
    \/ MakeWriteCh
    \/ QueueOther
    \/ WriteMessage
    \/ ConnectReturns
    \/ Disconnected

Next ==
    \/ \E w \in Writers : WriterStep(w)
    \/ \E u \in Users, i \in IPs : CooldownElapses(u, i)
    \/ ReporterStep
    \/ LinkStep

Spec == Init /\ [][Next]_vars

-----------------------------------------------------------------------------
(* Properties. *)

ReportsAt == IF writeCh = None THEN {} ELSE {k \in DOMAIN writeCh : writeCh[k].isReport}

\* What the panel will have of this node once the queue is written.
PanelView == IF ReportsAt = {} THEN panel ELSE DevicesIn(writeCh[Max(ReportsAt)].devices)

\* Between rounds, the reporter's baseline is what the panel has or will have: the
\* hash saved after a queued report, cleared by an empty one and by a reconnect,
\* never suppresses a report the panel does not have.
BaselineTrue ==
    round = "idle" /\ link = "up"
        => PanelView = IF lastHash = None THEN {} ELSE DevicesIn(lastHash)

\* A report the panel lacks is always due: the mark is set or about to be, a purge
\* will set it, or there is no baseline - unless a table changed behind the
\* snapshot of the last round, the one leak there is.
ChangeNoticed ==
    round = "idle" /\ link = "up" /\ PanelView # Reportable
        => \/ dirty \/ lastHash = None \/ missed
           \/ \E w \in Writers : writer[w] # "idle"
           \/ \E u \in Users : Listed(u) # Active(u)

\* What the comments on reportDevicesTask and ResetDevicesDirty say: no change is
\* lost, so a report the panel lacks is always due.
NoChangeLost ==
    round = "idle" /\ link = "up" /\ PanelView # Reportable
        => \/ dirty \/ lastHash = None
           \/ \E w \in Writers : writer[w] # "idle"
           \/ \E u \in Users : Listed(u) # Active(u)

=============================================================================
