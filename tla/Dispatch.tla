------------------------------- MODULE Dispatch -------------------------------
(***************************************************************************)
(* The way of a user's connections through the dispatcher, beside those    *)
(* who change the user, the node and the process under it.                 *)
(*                                                                         *)
(* A connection is accepted by the inbound of a core, looks its limiter up *)
(* and reads its user's speed limit (getLink / DispatchLink, CheckLimit),  *)
(* is admitted and counted, takes the user's token bucket, enters the      *)
(* user's LinkManager, is sniffed, looks the limiter up once more for the  *)
(* deferred ConnClosed (routedDispatch) and runs until its handler         *)
(* returns.  The limiter map, the tables of a limiter, the LinkManagers of *)
(* a core and each LinkManager have locks of their own: what happens       *)
(* between two of these steps is what this module is about.                *)
(*                                                                         *)
(* Beside them: the controller deletes, adds and modifies the user         *)
(* (Xray.DelUsers, Limiter.UpdateUser), removes and adds the node          *)
(* (Xray.DelNode), and a reload replaces limiter and core; kicks close     *)
(* links of the user's address.  The gate's own verdict is DeviceGate's    *)
(* subject and left open here.  One user at one address: users share none  *)
(* of this, and CloseByIP closes what CloseAll closes.                     *)
(*                                                                         *)
(* Only the limiter in the limiter map, the LinkManager in the newest      *)
(* core's map and that core have tables here.  A connection may still hold *)
(* an older one ("old"): what it leaves there nobody reads again.          *)
(***************************************************************************)
EXTENDS Integers, FiniteSets

CONSTANTS
    Conns,      \* connection goroutines
    Rates,      \* the speed limits the panel may send; 0 is none
    NodeRate,   \* LimitConfig.SpeedLimit; 0 is none
    Networks,   \* TRUE for TCP, FALSE for UDP: what connections may ask for
    None        \* no limit known, no bucket

ASSUME RatesAssumption == Rates \subseteq Nat /\ Rates # {} /\ NodeRate \in Nat
ASSUME ConnsAssumption == IsFiniteSet(Conns)
ASSUME NetworksAssumption == Networks \subseteq BOOLEAN
ASSUME DispatchNone == None \notin Nat

VARIABLES
    auth,      \* the inbound of the newest core knows the user
    mapped,    \* the limiter map has a limiter under the node's tag
    rate,      \* the user's speed limit in UserLimitInfo of that limiter, or None
    bucket,    \* the rate of the user's bucket in its SpeedLimiter, or None
    count,     \* the user's open TCP connections in its refShards
    mgr,       \* LinkManagers of the newest core has an entry for the user
    conn,      \* the connections
    ctl,       \* where the controller stands
    op,        \* what it does: "user", "node" or "reload"
    late,      \* history: in the dispatcher, but not linked, when their user was removed
    stale,     \* history: the bucket was made from a limit no longer valid
    strayed    \* history: the counts were dropped, or the limiter replaced, between
               \* CheckLimit and routedDispatch of a connection

limiterVars == <<mapped, rate, bucket, count>>
history == <<late, stale, strayed>>
vars == <<auth, limiterVars, mgr, conn, ctl, op, history>>

-----------------------------------------------------------------------------
\* The places of a connection:
\*   idle      no connection             new       accepted by the inbound
\*   gate      limit read, at the gate   bucket    admitted, without a bucket yet
\*   manager   at LinkManagers           addlink   holds its LinkManager
\*   sniff     being sniffed             live      in the outbound handler
Places == {"idle", "new", "gate", "bucket", "manager", "addlink", "sniff", "live"}

\* core: of the inbound that accepted it; lim: the limiter that admitted it; lm: its
\* LinkManager, "none" when its link is out of it; back: the limiter its deferred
\* ConnClosed goes to.
Holds == {"none", "now", "old"}
Conn == [pc: Places, tcp: BOOLEAN, core: Holds, lim: Holds, read: Rates \cup {None},
         lm: Holds, back: Holds]
NoConn == [pc |-> "idle", tcp |-> FALSE, core |-> "none", lim |-> "none", read |-> None,
           lm |-> "none", back |-> "none"]

ControllerPlaces ==
    {"idle", "delnode", "closeall", "unmap", "delinfo", "delrest", "absent", "addinfo",
     "modbucket", "newcore", "addlimiter", "addnode"}

TypeOK ==
    /\ auth \in BOOLEAN /\ mapped \in BOOLEAN /\ mgr \in BOOLEAN
    /\ rate \in Rates \cup {None}
    /\ bucket \in Nat \cup {None}
    /\ count \in Nat
    /\ conn \in [Conns -> Conn]
    /\ ctl \in ControllerPlaces /\ op \in {"user", "node", "reload"}
    /\ late \subseteq Conns
    /\ stale \in BOOLEAN /\ strayed \in BOOLEAN

\* A started node with its user, nobody connected.
Init ==
    /\ auth = TRUE /\ mapped = TRUE /\ rate \in Rates
    /\ bucket = None /\ count = 0 /\ mgr = FALSE
    /\ conn = [c \in Conns |-> NoConn]
    /\ ctl = "idle" /\ op = "user"
    /\ late = {} /\ stale = FALSE /\ strayed = FALSE

Linked(c) == conn[c].pc \in {"sniff", "live"} /\ conn[c].lm # "none"

-----------------------------------------------------------------------------
(* The connection. *)

determineSpeedLimit(limit1, limit2) ==
    IF limit1 = 0 \/ limit2 = 0
    THEN IF limit1 > limit2 THEN limit1 ELSE limit2
    ELSE IF limit1 > limit2 THEN limit2 ELSE limit1

Gone(c) ==
    /\ conn' = [conn EXCEPT ![c] = NoConn]
    /\ late' = late \ {c}

\* The inbound knows the user.  (A sub-connection of a multiplexed carrier that was
\* authenticated before the user's removal comes in without being asked: left out.)
Accept(c, t) ==
    /\ conn[c].pc = "idle" /\ auth
    /\ conn' = [conn EXCEPT ![c] = [@ EXCEPT !.pc = "new", !.tcp = t, !.core = "now"]]
    /\ UNCHANGED <<auth, limiterVars, mgr, ctl, op, history>>

\* GetLimiter, and CheckLimit up to the gate: no limiter, or a user it does not know,
\* refuses the connection; else its speed limit is read, to be used after the gate.
CheckLimit(c) ==
    /\ conn[c].pc = "new"
    /\ IF mapped /\ rate # None
       THEN /\ conn' = [conn EXCEPT ![c] = [@ EXCEPT !.pc = "gate", !.lim = "now",
                                                     !.read = rate]]
            /\ UNCHANGED late
       ELSE Gone(c)
    /\ UNCHANGED <<auth, limiterVars, mgr, ctl, op, stale, strayed>>

\* TryOpenConn or, for UDP, checkDeviceGate: TCP is counted with the verdict.
PassGate(c) ==
    /\ conn[c].pc = "gate"
    /\ conn' = [conn EXCEPT ![c].pc = "bucket"]
    /\ count' = IF conn[c].tcp /\ conn[c].lim = "now" THEN count + 1 ELSE count
    /\ UNCHANGED <<auth, mapped, rate, bucket, mgr, ctl, op, history>>

FailGate(c) ==
    /\ conn[c].pc = "gate"
    /\ Gone(c)
    /\ UNCHANGED <<auth, limiterVars, mgr, ctl, op, stale, strayed>>

\* CheckLimit after the gate: a bucket at the rate read before it, unless one is cached.
TakeBucket(c) ==
    LET r == determineSpeedLimit(NodeRate, conn[c].read)
        store == r > 0 /\ bucket = None /\ conn[c].lim = "now"
    IN  /\ conn[c].pc = "bucket"
        /\ bucket' = IF store THEN r ELSE bucket
        /\ stale' = (stale \/ (store /\ conn[c].read # rate))
        /\ conn' = [conn EXCEPT ![c] = [@ EXCEPT !.pc = "manager", !.read = None]]
        /\ UNCHANGED <<auth, mapped, rate, count, mgr, ctl, op, late, strayed>>

\* The LinkManager in the map is no longer: who holds it holds an old one.
Unmapped(f) == [d \in Conns |-> [f[d] EXCEPT !.lm = IF @ = "now" THEN "old" ELSE @]]

\* Seeded fault: Load, then Store of a LinkManager of one's own over another's.
Bug_GetManager(c) ==
    /\ conn[c].pc = "manager"
    /\ mgr' = (mgr \/ conn[c].core = "now")
    /\ conn' = [Unmapped(conn) EXCEPT ![c].pc = "addlink", ![c].core = "none",
                                      ![c].lm = conn[c].core]
    /\ UNCHANGED <<auth, limiterVars, ctl, op, history>>

\* LinkManagers.LoadOrStore, in the dispatcher of the connection's core.
GetManager(c) ==
    /\ conn[c].pc = "manager"
    /\ mgr' = (mgr \/ conn[c].core = "now")
    /\ conn' = [conn EXCEPT ![c] = [@ EXCEPT !.pc = "addlink", !.core = "none",
                                             !.lm = conn[c].core]]
    /\ UNCHANGED <<auth, limiterVars, ctl, op, history>>

AddLink(c) ==
    /\ conn[c].pc = "addlink"
    /\ conn' = [conn EXCEPT ![c].pc = "sniff"]
    /\ UNCHANGED <<auth, limiterVars, mgr, ctl, op, history>>

\* Seeded fault: a UDP session is un-counted too.
Bug_RoutedDispatch(c) ==
    /\ conn[c].pc = "sniff"
    /\ conn' = [conn EXCEPT ![c] = [@ EXCEPT !.pc = "live",
                                             !.back = IF mapped THEN "now" ELSE "none"]]
    /\ UNCHANGED <<auth, limiterVars, mgr, ctl, op, history>>

\* routedDispatch: the limiter of the deferred ConnClosed is looked up now, long after
\* CheckLimit's.
RoutedDispatch(c) ==
    LET back == IF conn[c].tcp /\ mapped THEN "now" ELSE "none"
    IN  /\ conn[c].pc = "sniff"
        /\ conn' = [conn EXCEPT ![c] = [@ EXCEPT !.pc = "live", !.back = back]]
        /\ strayed' = (strayed \/ (back = "now" /\ conn[c].lim = "old"))
        /\ UNCHANGED <<auth, limiterVars, mgr, ctl, op, late, stale>>

\* One direction is done and its ManagedWriter closed, while the other goes on (the
\* inbound's or outbound's handler, external): RemoveWriter.
HalfClose(c) ==
    /\ conn[c].pc = "live" /\ Linked(c)
    /\ conn' = [conn EXCEPT ![c].lm = "none"]
    /\ UNCHANGED <<auth, limiterVars, mgr, ctl, op, history>>

\* Seeded fault: a limiter that no longer knows the user is decremented all the same.
Bug_ConnClosed(c) ==
    /\ conn[c].pc = "live"
    /\ count' = IF conn[c].back = "now" THEN count - 1 ELSE count
    /\ Gone(c)
    /\ UNCHANGED <<auth, mapped, rate, bucket, mgr, ctl, op, stale, strayed>>

\* A rule, a missing handler or the outbound handler's return ends routedDispatch; the
\* deferred ConnClosed takes one off the count of a limiter that knows the user.
ConnClosed(c) ==
    /\ conn[c].pc = "live"
    /\ count' = IF conn[c].back = "now" /\ rate # None /\ count > 0 THEN count - 1 ELSE count
    /\ Gone(c)
    /\ UNCHANGED <<auth, mapped, rate, bucket, mgr, ctl, op, stale, strayed>>

\* Close of each writer, which takes the link out of its manager, and Interrupt of each
\* reader: the handler will return.
CloseLinks(cs) ==
    conn' = [c \in Conns |-> IF c \in cs THEN [conn[c] EXCEPT !.lm = "none"] ELSE conn[c]]

Reachable == {c \in Conns : Linked(c) /\ conn[c].lm = "now"}

\* The registered executor is the newest core's dispatcher; a snapshot's links are closed
\* outside of the lock, each beside whatever else happens.
KickByUserIP ==
    /\ \E c \in Reachable : CloseLinks({c})
    /\ UNCHANGED <<auth, limiterVars, mgr, ctl, op, history>>

-----------------------------------------------------------------------------
(* The controller. *)

\* Controller.Close, for a reload: DeleteLimiter, and the tasks end.  The histories
\* begin anew with the next limiter.
DeleteLimiter ==
    /\ ctl = "idle" /\ ctl' = "delnode"
    /\ mapped' = FALSE /\ rate' = None /\ bucket' = None /\ count' = 0
    /\ stale' = FALSE /\ strayed' = FALSE
    /\ conn' = [c \in Conns |-> [conn[c] EXCEPT !.lim = IF @ = "now" THEN "old" ELSE @,
                                                !.back = IF @ = "now" THEN "old" ELSE @]]
    /\ UNCHANGED <<auth, mgr, op, late>>

\* DelUsers or DelNode, in a poll or after DeleteLimiter: RemoveUser, or RemoveHandler of
\* the inbound, and there are no new connections.  (DelNode may fail at the outbound and
\* return before it closes any link, node.go:83-86: left out.)
Remove ==
    /\ \/ ctl = "idle" /\ op' \in {"user", "node"}
       \/ ctl = "delnode" /\ op' = "reload"
    /\ ctl' = "closeall"
    /\ auth' = FALSE
    /\ late' = late \cup {c \in Conns : conn[c].pc \in {"new", "gate", "bucket", "manager",
                                                        "addlink"}}
    /\ UNCHANGED <<limiterVars, mgr, conn, stale, strayed>>

\* What follows in the poll (user, node) or in the reload.
Removed ==
    ctl' = CASE op = "user" -> "delinfo" [] op = "node" -> "addnode"
             [] op = "reload" -> "newcore"

\* Seeded fault: the entry goes, its links stay open.
Bug_CloseAll ==
    /\ ctl = "closeall"
    /\ IF mgr THEN ctl' = "unmap" ELSE Removed
    /\ UNCHANGED <<auth, limiterVars, mgr, conn, op, history>>

\* LinkManagers.Load, and CloseAll of its snapshot.
CloseAll ==
    /\ ctl = "closeall"
    /\ IF mgr THEN ctl' = "unmap" /\ CloseLinks(Reachable)
              ELSE Removed /\ UNCHANGED conn
    /\ UNCHANGED <<auth, limiterVars, mgr, op, history>>

\* LinkManagers.Delete, after the last link of the snapshot is closed.
Unmap ==
    /\ ctl = "unmap"
    /\ Removed
    /\ mgr' = FALSE /\ conn' = Unmapped(conn)
    /\ UNCHANGED <<auth, limiterVars, op, history>>

\* SpeedLimiter.Delete
DropBucket == bucket' = None /\ stale' = FALSE

\* UpdateUser on the deleted user: its limit ...
UpdateUserDelInfo ==
    /\ ctl = "delinfo" /\ ctl' = "delrest"
    /\ rate' = None
    /\ strayed' = TRUE
    /\ UNCHANGED <<auth, mapped, bucket, count, mgr, conn, op, late, stale>>

\* ... then its bucket and its counts: with no TCP connection on its way, they are right.
UpdateUserDelRest ==
    /\ ctl = "delrest" /\ ctl' = "absent"
    /\ DropBucket
    /\ count' = 0
    /\ strayed' = (\E c \in Conns : conn[c].tcp /\ conn[c].pc \notin {"idle", "new"})
    /\ UNCHANGED <<auth, mapped, rate, mgr, conn, op, late>>

\* The user is back on the list: AddUsers, then UpdateUser.
AddUsers ==
    /\ ctl = "absent" /\ ctl' = "addinfo"
    /\ auth' = TRUE
    /\ UNCHANGED <<limiterVars, mgr, conn, op, history>>

UpdateUserAdd ==
    /\ ctl = "addinfo" /\ ctl' = "idle"
    /\ rate' \in Rates
    /\ UNCHANGED <<auth, mapped, bucket, count, mgr, conn, op, history>>

\* UpdateUser on a modified user: the limit ...
UpdateUserModify ==
    /\ ctl = "idle" /\ ctl' = "modbucket"
    /\ rate' \in Rates \ {rate}
    /\ UNCHANGED <<auth, mapped, bucket, count, mgr, conn, op, history>>

\* Seeded fault: the cached bucket stays.
Bug_UpdateUserModBucket ==
    /\ ctl = "modbucket" /\ ctl' = "idle"
    /\ UNCHANGED <<auth, limiterVars, mgr, conn, op, history>>

\* ... then the cached bucket.
UpdateUserModBucket ==
    /\ ctl = "modbucket" /\ ctl' = "idle"
    /\ DropBucket
    /\ UNCHANGED <<auth, mapped, rate, count, mgr, conn, op, late, strayed>>

\* reload: another core, whose dispatcher is the one kicks go to from now on.
NewCore ==
    /\ ctl = "newcore" /\ ctl' = "addlimiter"
    /\ mgr' = FALSE
    /\ conn' = [c \in Conns |-> [Unmapped(conn)[c] EXCEPT
                                    !.core = IF @ = "now" THEN "old" ELSE @]]
    /\ UNCHANGED <<auth, limiterVars, op, history>>

\* Controller.Start: AddLimiter with the limits of the list.
AddLimiter ==
    /\ ctl = "addlimiter" /\ ctl' = "addnode"
    /\ mapped' = TRUE
    /\ rate' \in Rates
    /\ UNCHANGED <<auth, bucket, count, mgr, conn, op, history>>

\* AddNode and AddUsers.
AddNode ==
    /\ ctl = "addnode" /\ ctl' = "idle"
    /\ auth' = TRUE
    /\ UNCHANGED <<limiterVars, mgr, conn, op, history>>

-----------------------------------------------------------------------------
ConnStep(c) ==
    \/ \E t \in Networks : Accept(c, t)
    \/ CheckLimit(c) \/ PassGate(c) \/ FailGate(c) \/ TakeBucket(c) \/ GetManager(c)
    \/ AddLink(c) \/ RoutedDispatch(c) \/ HalfClose(c) \/ ConnClosed(c)

ControllerStep ==
    \/ DeleteLimiter \/ Remove \/ CloseAll \/ Unmap
    \/ UpdateUserDelInfo \/ UpdateUserDelRest
    \/ AddUsers \/ UpdateUserAdd \/ UpdateUserModify \/ UpdateUserModBucket
    \/ NewCore \/ AddLimiter \/ AddNode

Next == (\E c \in Conns : ConnStep(c)) \/ KickByUserIP \/ ControllerStep

Spec == Init /\ [][Next]_vars

-----------------------------------------------------------------------------
(* Properties. *)

\* The slowest of the limits there are.
SlowestLimit(limits) ==
    LET positive == {l \in limits : l > 0}
    IN  IF positive = {} THEN 0 ELSE CHOOSE l \in positive : \A k \in positive : l <= k

\* UpdateUser drops the bucket "so CheckLimit rebuilds it at the new rate": a cached
\* bucket runs at the slowest of the node's and the user's limit, except between the two
\* steps of an update, and where a connection that had read the old limit before an
\* update stored its bucket after it (stale): that one is there until the next update.
RateFollowsLimit ==
    bucket # None /\ rate # None /\ ~stale /\ ctl # "modbucket"
        => bucket = SlowestLimit({NodeRate, rate})

\* A kick and the next DelUsers find every link: outside of the LinkManager that the
\* newest core's map holds, there are only links of connections that were in the
\* dispatcher, not linked yet, when their user or node was removed.
LinksReachable == \A c \in Conns : Linked(c) /\ conn[c].lm = "old" => c \in late

\* When DelUsers or DelNode is done with a user, no link is left open but those of
\* connections that were on their way to their LinkManager at the time.  (A connection
\* with one direction done has left its LinkManager already, and goes on.)  It is stated
\* for a DelNode that succeeds, and for connections that authenticate themselves.
RemovedGone ==
    ~auth /\ ctl # "closeall" =>
        \A c \in Conns : Linked(c) => c \in late

\* The count that decides on the next device is that of the open TCP connections,
\* whatever UDP sessions, kicks and rejections by rules come and go, unless UpdateUser
\* deleted the user under one of them, or the limiter was replaced between CheckLimit
\* and routedDispatch.
CountPaired ==
    mapped /\ ~strayed =>
        count = Cardinality({c \in Conns : /\ conn[c].tcp /\ conn[c].lim = "now"
                                           /\ conn[c].pc \notin {"new", "gate"}})

=============================================================================
