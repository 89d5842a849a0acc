---------------------------- MODULE DispatchProofs ----------------------------
(***************************************************************************)
(* The invariants of Dispatch, for any number of connections and any       *)
(* limits.  None of the properties is inductive by itself: which links and *)
(* counts may be out of place is known from where the controller stands    *)
(* (Control) and from what each connection holds (Holding).                *)
(***************************************************************************)
EXTENDS Dispatch, FiniteSetTheorems, TLAPS

\* Where the controller stands tells whether the user is known to inbound and limiter.
Control ==
    /\ auth <=> ctl \in {"idle", "delnode", "addinfo", "modbucket"}
    /\ mapped <=> /\ ctl \notin {"delnode", "newcore", "addlimiter"}
                  /\ op = "reload" => ctl \notin {"closeall", "unmap"}
    /\ rate = None <=> ~mapped \/ ctl \in {"delrest", "absent", "addinfo"}
    /\ ~mapped => bucket = None /\ count = 0
    /\ ctl \in {"delinfo", "delrest", "absent", "addinfo", "modbucket"} => mapped

OnItsWay == {"new", "gate", "bucket", "manager", "addlink"}

\* What a connection holds at its place.
Holding(c) ==
    /\ conn[c].pc = "idle" => conn[c] = NoConn
    /\ conn[c].pc \in {"gate", "bucket"} => conn[c].read \in Rates
    /\ conn[c].pc \in {"new", "gate", "bucket", "manager"}
          => conn[c].core # "none" /\ conn[c].lm = "none"
    /\ conn[c].core # "none" => conn[c].pc \in {"new", "gate", "bucket", "manager"}
    /\ conn[c].pc = "new" => conn[c].lim = "none"
    /\ conn[c].pc \notin {"idle", "new"} => conn[c].lim # "none"
    /\ conn[c].back # "none" => conn[c].pc = "live"
    /\ conn[c].back = "now" => conn[c].tcp /\ mapped
    /\ conn[c].lim = "now" => mapped
    /\ conn[c].core = "old" => c \in late
    /\ conn[c].lm = "now" => mgr
    /\ conn[c].lm = "old" => c \in late
    /\ ~auth /\ conn[c].pc \in OnItsWay => c \in late
    /\ ~auth /\ ctl # "closeall" /\ Linked(c) => c \in late

\* Only a stale bucket outlives the limit it was made from.
BucketKnown == rate = None /\ bucket # None => stale \/ ctl = "delrest"

Counted == {c \in Conns : conn[c].tcp /\ conn[c].lim = "now" /\ conn[c].pc \notin {"new", "gate"}}

\* As long as nothing strayed, a connection is un-counted where it was counted.
Paired ==
    ~strayed =>
        /\ mapped => count = Cardinality(Counted)
        /\ \A c \in Conns :
              /\ conn[c].back = "now" => conn[c].lim = "now"
              /\ conn[c].tcp /\ conn[c].lim = "now" /\ conn[c].pc = "live"
                    => conn[c].back = "now"
              /\ conn[c].tcp /\ conn[c].lim = "now" => rate # None

IInv == /\ TypeOK /\ Control /\ (\A c \in Conns : Holding(c))
        /\ BucketKnown /\ RateFollowsLimit /\ Paired
-----------------------------------------------------------------------------
(* Types, and where the controller stands. *)

\* determineSpeedLimit returns the slowest of the limits there are.
LEMMA DetermineSlowest ==
    ASSUME NEW a \in Nat, NEW b \in Nat
    PROVE  /\ determineSpeedLimit(a, b) \in Nat
           /\ determineSpeedLimit(a, b) = SlowestLimit({a, b})
<1>1. determineSpeedLimit(a, b) \in Nat
  BY DEF determineSpeedLimit
<1>2. CASE a = 0 /\ b = 0
  BY <1>2 DEF determineSpeedLimit, SlowestLimit
<1>3. CASE a # 0 \/ b # 0
  <2> DEFINE positive == {l \in {a, b} : l > 0}
             d == determineSpeedLimit(a, b)
  <2>1. d \in positive /\ \A k \in positive : d <= k
    BY <1>3 DEF determineSpeedLimit
  <2>2. \A l \in positive : (\A k \in positive : l <= k) => l = d
    BY <2>1, <1>1
  <2>3. (CHOOSE l \in positive : \A k \in positive : l <= k) = d
    BY <2>1, <2>2
  <2> QED BY <2>1, <2>3 DEF SlowestLimit
<1> QED BY <1>1, <1>2, <1>3

LEMMA InitHolds == Init => IInv
<1> SUFFICES ASSUME Init PROVE IInv
  OBVIOUS
<1>1. TypeOK
  BY RatesAssumption DEF Init, TypeOK, Conn, NoConn, Holds, Places, ControllerPlaces
<1>2. Control /\ BucketKnown /\ RateFollowsLimit
  BY RatesAssumption, DispatchNone DEF Init, Control, BucketKnown, RateFollowsLimit
<1>3. \A c \in Conns : Holding(c)
  BY DEF Init, Holding, NoConn, OnItsWay, Linked
<1>4. Counted = {}
  BY DEF Init, Counted, NoConn
<1>5. Paired
  BY <1>4, FS_EmptySet DEF Init, Paired, NoConn
<1> QED BY <1>1, <1>2, <1>3, <1>5 DEF IInv

LEMMA TypeStep ==
    ASSUME TypeOK, \A c \in Conns : Holding(c), [Next]_vars PROVE TypeOK'
<1> DEFINE Goal == TypeOK'
<1> USE RatesAssumption, NetworksAssumption, DispatchNone
<1>1. ASSUME NEW c \in Conns, NEW t \in Networks, Accept(c, t) PROVE Goal
  <2>1. [conn[c] EXCEPT !.pc = "new", !.tcp = t, !.core = "now"] \in Conn
    BY <1>1 DEF TypeOK, Conn, Places, Holds
  <2> QED
    BY <1>1, <2>1 DEF Accept, TypeOK, limiterVars, history
<1>2. ASSUME NEW c \in Conns, CheckLimit(c) PROVE Goal
  <2>1. [conn[c] EXCEPT !.pc = "gate", !.lim = "now", !.read = rate] \in Conn
    BY <1>2 DEF TypeOK, Conn, Places, Holds
  <2>2. NoConn \in Conn
    BY DEF NoConn, Conn, Places, Holds
  <2>3. conn' \in [Conns -> Conn] /\ late' \subseteq Conns
    BY <1>2, <2>1, <2>2 DEF CheckLimit, Gone, TypeOK
  <2> QED
    BY <1>2, <2>3 DEF CheckLimit, TypeOK, limiterVars, history
<1>3. ASSUME NEW c \in Conns, PassGate(c) PROVE Goal
  <2>1. [conn[c] EXCEPT !.pc = "bucket"] \in Conn
    BY <1>3 DEF TypeOK, Conn, Places
  <2> QED
    BY <1>3, <2>1 DEF PassGate, TypeOK, history
<1>4. ASSUME NEW c \in Conns, FailGate(c) PROVE Goal
  <2>1. NoConn \in Conn
    BY DEF NoConn, Conn, Places, Holds
  <2> QED
    BY <1>4, <2>1 DEF FailGate, Gone, TypeOK, limiterVars
<1>5. ASSUME NEW c \in Conns, TakeBucket(c) PROVE Goal
  <2>1. [conn[c] EXCEPT !.pc = "manager", !.read = None] \in Conn
    BY <1>5 DEF TypeOK, Conn, Places, Holds
  <2>2. conn[c].read \in Nat
    BY <1>5 DEF TakeBucket, Holding
  <2>3. determineSpeedLimit(NodeRate, conn[c].read) \in Nat
    BY <2>2, DetermineSlowest
  <2> QED
    BY <1>5, <2>1, <2>3 DEF TakeBucket, TypeOK, limiterVars, history
<1>6. ASSUME NEW c \in Conns, GetManager(c) PROVE Goal
  <2>1. [conn[c] EXCEPT !.pc = "addlink", !.core = "none", !.lm = conn[c].core] \in Conn
    BY <1>6 DEF TypeOK, Conn, Places, Holds
  <2> QED
    BY <1>6, <2>1 DEF GetManager, TypeOK, limiterVars, history
<1>7. ASSUME NEW c \in Conns, AddLink(c) PROVE Goal
  BY <1>7
  DEF AddLink, TypeOK, Conn, NoConn, Holds, Places, ControllerPlaces, limiterVars, history
<1>8. ASSUME NEW c \in Conns, RoutedDispatch(c) PROVE Goal
  <2>1. [conn[c] EXCEPT !.pc = "live",
                        !.back = IF conn[c].tcp /\ mapped THEN "now" ELSE "none"] \in Conn
    BY <1>8 DEF TypeOK, Conn, Places, Holds
  <2> QED
    BY <1>8, <2>1 DEF RoutedDispatch, TypeOK, limiterVars, history
<1>9. ASSUME NEW c \in Conns, HalfClose(c) PROVE Goal
  BY <1>9
  DEF HalfClose, TypeOK, Conn, NoConn, Holds, Places, ControllerPlaces, limiterVars, history
<1>10. ASSUME NEW c \in Conns, ConnClosed(c) PROVE Goal
  BY <1>10
  DEF ConnClosed, Gone, TypeOK, Conn, NoConn, Holds, Places, ControllerPlaces, limiterVars,
      history
<1>11. CASE KickByUserIP
  BY <1>11
  DEF KickByUserIP, CloseLinks, Reachable, Linked, TypeOK, Conn, NoConn, Holds, Places,
      ControllerPlaces, limiterVars, history
<1>12. CASE DeleteLimiter
  <2>1. \A c \in Conns : [conn[c] EXCEPT !.lim = IF @ = "now" THEN "old" ELSE @,
                                          !.back = IF @ = "now" THEN "old" ELSE @] \in Conn
    BY DEF TypeOK, Conn, Holds
  <2> QED
    BY <1>12, <2>1 DEF DeleteLimiter, TypeOK, ControllerPlaces, limiterVars, history
<1>13. CASE Remove
  BY <1>13
  DEF Remove, TypeOK, ControllerPlaces, limiterVars, history
<1>14. CASE CloseAll
  BY <1>14
  DEF CloseAll, CloseLinks, Reachable, Linked, Removed, TypeOK, Conn, NoConn, Holds,
      Places, ControllerPlaces, limiterVars, history
<1>15. CASE Unmap
  <2>1. \A c \in Conns :
           [conn[c] EXCEPT !.lm = IF conn[c].lm = "now" THEN "old" ELSE conn[c].lm] \in Conn
    BY DEF TypeOK, Conn, Holds
  <2>2. Unmapped(conn) \in [Conns -> Conn]
    BY <2>1 DEF Unmapped
  <2>3. ctl' \in ControllerPlaces
    BY <1>15 DEF Unmap, Removed, TypeOK, ControllerPlaces
  <2> QED
    BY <1>15, <2>2, <2>3 DEF Unmap, TypeOK, limiterVars, history
<1>16. CASE UpdateUserDelInfo
  BY <1>16
  DEF UpdateUserDelInfo, TypeOK, ControllerPlaces, limiterVars, history
<1>17. CASE UpdateUserDelRest
  BY <1>17
  DEF UpdateUserDelRest, DropBucket, TypeOK, ControllerPlaces, limiterVars, history
<1>18. CASE AddUsers
  BY <1>18
  DEF AddUsers, TypeOK, ControllerPlaces, limiterVars, history
<1>19. CASE UpdateUserAdd
  BY <1>19
  DEF UpdateUserAdd, TypeOK, ControllerPlaces, limiterVars, history
<1>20. CASE UpdateUserModify
  BY <1>20
  DEF UpdateUserModify, TypeOK, ControllerPlaces, limiterVars, history
<1>21. CASE UpdateUserModBucket
  BY <1>21
  DEF UpdateUserModBucket, DropBucket, TypeOK, ControllerPlaces, limiterVars, history
<1>22. CASE NewCore
  <2>1. \A c \in Conns : [conn[c] EXCEPT !.lm = IF @ = "now" THEN "old" ELSE @] \in Conn
    BY DEF TypeOK, Conn, Holds
  <2>2. Unmapped(conn) \in [Conns -> Conn]
    BY <2>1 DEF Unmapped
  <2>3. \A c \in Conns : [Unmapped(conn)[c] EXCEPT
                             !.core = IF @ = "now" THEN "old" ELSE @] \in Conn
    BY <2>2 DEF Conn, Holds
  <2> QED
    BY <1>22, <2>3 DEF NewCore, TypeOK, ControllerPlaces, limiterVars, history
<1>23. CASE AddLimiter
  BY <1>23
  DEF AddLimiter, TypeOK, ControllerPlaces, limiterVars, history
<1>24. CASE AddNode
  BY <1>24
  DEF AddNode, TypeOK, ControllerPlaces, limiterVars, history
<1>25. CASE UNCHANGED vars
  BY <1>25
  DEF vars, TypeOK, ControllerPlaces, limiterVars, history
<1> QED
  BY <1>1, <1>2, <1>3, <1>4, <1>5, <1>6, <1>7, <1>8, <1>9, <1>10, <1>11, <1>12, <1>13,
      <1>14, <1>15, <1>16, <1>17, <1>18, <1>19, <1>20, <1>21, <1>22, <1>23, <1>24,
      <1>25 DEF Next, ConnStep, ControllerStep

LEMMA ControlStep ==
    ASSUME TypeOK, Control, \A c \in Conns : Holding(c), [Next]_vars
    PROVE  Control'
<1> DEFINE Goal == Control'
<1> USE RatesAssumption, DispatchNone
<1>1. ASSUME NEW c \in Conns, NEW t \in Networks, Accept(c, t) PROVE Goal
  BY <1>1 DEF Accept, TypeOK, Control, limiterVars
<1>2. ASSUME NEW c \in Conns, CheckLimit(c) PROVE Goal
  BY <1>2 DEF CheckLimit, Gone, TypeOK, Control, limiterVars
<1>3. ASSUME NEW c \in Conns, PassGate(c) PROVE Goal
  BY <1>3 DEF PassGate, TypeOK, Control, Holding, limiterVars
<1>4. ASSUME NEW c \in Conns, FailGate(c) PROVE Goal
  BY <1>4 DEF FailGate, Gone, TypeOK, Control, limiterVars
<1>5. ASSUME NEW c \in Conns, TakeBucket(c) PROVE Goal
  BY <1>5 DEF TakeBucket, TypeOK, Control, Holding, limiterVars
<1>6. ASSUME NEW c \in Conns, GetManager(c) PROVE Goal
  BY <1>6 DEF GetManager, TypeOK, Control, limiterVars
<1>7. ASSUME NEW c \in Conns, AddLink(c) PROVE Goal
  BY <1>7 DEF AddLink, TypeOK, Control, limiterVars
<1>8. ASSUME NEW c \in Conns, RoutedDispatch(c) PROVE Goal
  BY <1>8 DEF RoutedDispatch, TypeOK, Control, limiterVars
<1>9. ASSUME NEW c \in Conns, HalfClose(c) PROVE Goal
  BY <1>9 DEF HalfClose, TypeOK, Control, limiterVars
<1>10. ASSUME NEW c \in Conns, ConnClosed(c) PROVE Goal
  BY <1>10 DEF ConnClosed, Gone, TypeOK, Control, limiterVars
<1>11. CASE KickByUserIP
  BY <1>11 DEF KickByUserIP, CloseLinks, Reachable, Linked, TypeOK, Control, limiterVars
<1>12. CASE DeleteLimiter
  BY <1>12 DEF DeleteLimiter, TypeOK, Control, limiterVars
<1>13. CASE Remove
  BY <1>13 DEF Remove, TypeOK, Control, limiterVars
<1>14. CASE CloseAll
  BY <1>14
  DEF CloseAll, CloseLinks, Reachable, Linked, Removed, TypeOK, Control, limiterVars
<1>15. CASE Unmap
  BY <1>15 DEF Unmap, Unmapped, Removed, TypeOK, Control, limiterVars
<1>16. CASE UpdateUserDelInfo
  BY <1>16 DEF UpdateUserDelInfo, TypeOK, Control, limiterVars
<1>17. CASE UpdateUserDelRest
  BY <1>17 DEF UpdateUserDelRest, DropBucket, TypeOK, Control, limiterVars
<1>18. CASE AddUsers
  BY <1>18 DEF AddUsers, TypeOK, Control, limiterVars
<1>19. CASE UpdateUserAdd
  BY <1>19 DEF UpdateUserAdd, TypeOK, Control, limiterVars
<1>20. CASE UpdateUserModify
  BY <1>20 DEF UpdateUserModify, TypeOK, Control, limiterVars
<1>21. CASE UpdateUserModBucket
  BY <1>21 DEF UpdateUserModBucket, DropBucket, TypeOK, Control, limiterVars
<1>22. CASE NewCore
  BY <1>22 DEF NewCore, Unmapped, TypeOK, Control, limiterVars
<1>23. CASE AddLimiter
  BY <1>23 DEF AddLimiter, TypeOK, Control, limiterVars
<1>24. CASE AddNode
  BY <1>24 DEF AddNode, TypeOK, Control, limiterVars
<1>25. CASE UNCHANGED vars
  BY <1>25 DEF vars, TypeOK, Control, limiterVars, history
<1> QED
  BY <1>1, <1>2, <1>3, <1>4, <1>5, <1>6, <1>7, <1>8, <1>9, <1>10, <1>11, <1>12, <1>13,
      <1>14, <1>15, <1>16, <1>17, <1>18, <1>19, <1>20, <1>21, <1>22, <1>23, <1>24,
      <1>25 DEF Next, ConnStep, ControllerStep

-----------------------------------------------------------------------------
(* What connections hold. *)

\* A connection that a step does not touch.
LEMMA Untouched ==
    ASSUME NEW d \in Conns, Holding(d), conn'[d] = conn[d], d \in late <=> d \in late',
           mapped' = mapped, auth' = auth, ctl' = ctl, mgr => mgr'
    PROVE  Holding(d)'
BY DEF Holding, OnItsWay, Linked, NoConn

\* A connection whose link is taken out of its LinkManager, perhaps by CloseAll.
LEMMA Unlinked ==
    ASSUME NEW d \in Conns, conn[d] \in Conn, Holding(d), Linked(d),
           conn'[d] = [conn[d] EXCEPT !.lm = "none"], d \in late <=> d \in late',
           mapped' = mapped, auth' = auth
    PROVE  Holding(d)'
<1>1. conn'[d] = [pc |-> conn[d].pc, tcp |-> conn[d].tcp, core |-> conn[d].core,
                  lim |-> conn[d].lim, read |-> conn[d].read, lm |-> "none",
                  back |-> conn[d].back]
  BY DEF Conn
<1> QED BY <1>1 DEF Holding, OnItsWay, Linked, NoConn

\* A connection that is over.
LEMMA Over == ASSUME NEW d \in Conns, conn'[d] = NoConn PROVE Holding(d)'
BY DEF Holding, OnItsWay, Linked, NoConn

LEMMA HoldingStep ==
    ASSUME TypeOK, Control, \A c \in Conns : Holding(c), [Next]_vars
    PROVE  \A c \in Conns : Holding(c)'
<1> SUFFICES ASSUME NEW d \in Conns PROVE Holding(d)'
  OBVIOUS
<1> DEFINE Goal == Holding(d)'
<1> USE RatesAssumption, DispatchNone
<1>0. conn[d] \in Conn /\ Holding(d)
  BY DEF TypeOK
<1>1. ASSUME NEW c \in Conns, NEW t \in Networks, Accept(c, t) PROVE Goal
  BY <1>1
  DEF Accept, TypeOK, Conn, NoConn, Holds, Control, Holding, OnItsWay, Linked, limiterVars,
      history
<1>2. ASSUME NEW c \in Conns, CheckLimit(c) PROVE Goal
  <2>1. CASE c # d
    BY <1>0, <1>2, <2>1, Untouched DEF CheckLimit, Gone, TypeOK, limiterVars
  <2>2. CASE c = d /\ mapped /\ rate # None
    <3>1. conn'[d] = [conn[d] EXCEPT !.pc = "gate", !.lim = "now", !.read = rate]
      BY <1>2, <2>2 DEF CheckLimit, TypeOK
    <3>2. conn'[d] = [pc |-> "gate", tcp |-> conn[d].tcp, core |-> conn[d].core,
                      lim |-> "now", read |-> rate, lm |-> conn[d].lm,
                      back |-> conn[d].back]
      BY <1>0, <3>1 DEF Conn
    <3> QED
      BY <1>0, <1>2, <2>2, <3>2
      DEF CheckLimit, TypeOK, Holding, OnItsWay, Linked, NoConn, limiterVars
  <2>3. CASE c = d /\ ~(mapped /\ rate # None)
    BY <1>2, <2>3, Over DEF CheckLimit, Gone, TypeOK
  <2> QED BY <2>1, <2>2, <2>3
<1>3. ASSUME NEW c \in Conns, PassGate(c) PROVE Goal
  BY <1>3
  DEF PassGate, TypeOK, Conn, NoConn, Holds, Control, Holding, OnItsWay, Linked,
      limiterVars, history
<1>4. ASSUME NEW c \in Conns, FailGate(c) PROVE Goal
  BY <1>4
  DEF FailGate, Gone, TypeOK, Conn, NoConn, Holds, Control, Holding, OnItsWay, Linked,
      limiterVars, history
<1>5. ASSUME NEW c \in Conns, TakeBucket(c) PROVE Goal
  BY <1>5
  DEF TakeBucket, determineSpeedLimit, TypeOK, Conn, NoConn, Holds, Control, Holding,
      OnItsWay, Linked, limiterVars, history
<1>6. ASSUME NEW c \in Conns, GetManager(c) PROVE Goal
  <2>1. CASE c # d
    BY <1>0, <1>6, <2>1, Untouched DEF GetManager, TypeOK, limiterVars, history
  <2>2. CASE c = d
    <3>1. conn'[d] = [conn[d] EXCEPT !.pc = "addlink", !.core = "none", !.lm = conn[d].core]
      BY <1>6, <2>2 DEF GetManager, TypeOK
    <3>2. conn'[d] = [pc |-> "addlink", tcp |-> conn[d].tcp, core |-> "none",
                      lim |-> conn[d].lim, read |-> conn[d].read, lm |-> conn[d].core,
                      back |-> conn[d].back]
      BY <1>0, <3>1 DEF Conn
    <3> QED
      BY <1>0, <1>6, <2>2, <3>2
      DEF GetManager, TypeOK, Holding, OnItsWay, Linked, NoConn, Conn, Holds, Places,
          limiterVars, history
  <2> QED BY <2>1, <2>2
<1>7. ASSUME NEW c \in Conns, AddLink(c) PROVE Goal
  BY <1>7
  DEF AddLink, TypeOK, Conn, NoConn, Holds, Control, Holding, OnItsWay, Linked,
      limiterVars, history
<1>8. ASSUME NEW c \in Conns, RoutedDispatch(c) PROVE Goal
  BY <1>8
  DEF RoutedDispatch, TypeOK, Conn, NoConn, Holds, Control, Holding, OnItsWay, Linked,
      limiterVars, history
<1>9. ASSUME NEW c \in Conns, HalfClose(c) PROVE Goal
  <2>1. CASE c # d
    BY <1>0, <1>9, <2>1, Untouched DEF HalfClose, TypeOK, limiterVars, history
  <2>2. CASE c = d
    <3>1. conn'[d] = [conn[d] EXCEPT !.lm = "none"]
      BY <1>9, <2>2 DEF HalfClose, TypeOK
    <3> QED
      BY <1>0, <1>9, <2>2, <3>1, Unlinked DEF HalfClose, Linked, limiterVars, history
  <2> QED BY <2>1, <2>2
<1>10. ASSUME NEW c \in Conns, ConnClosed(c) PROVE Goal
  BY <1>10
  DEF ConnClosed, Gone, TypeOK, Conn, NoConn, Holds, Control, Holding, OnItsWay, Linked,
      limiterVars, history
<1>11. CASE KickByUserIP
  <2>1. PICK c \in Reachable : CloseLinks({c})
    BY <1>11 DEF KickByUserIP
  <2>2. CASE c # d
    BY <1>0, <1>11, <2>1, <2>2, Untouched
    DEF KickByUserIP, CloseLinks, limiterVars, history
  <2>3. CASE c = d
    <3>1. conn'[d] = [conn[d] EXCEPT !.lm = "none"]
      BY <2>1, <2>3 DEF CloseLinks
    <3> QED
      BY <1>0, <1>11, <2>1, <2>3, <3>1, Unlinked
      DEF KickByUserIP, Reachable, Linked, limiterVars, history
  <2> QED BY <2>2, <2>3
<1>12. CASE DeleteLimiter
  <2> DEFINE aged(h) == IF h = "now" THEN "old" ELSE h
  <2>1. conn'[d] = [conn[d] EXCEPT !.lim = aged(@), !.back = aged(@)]
    BY <1>12 DEF DeleteLimiter
  <2>2. conn'[d] = [pc |-> conn[d].pc, tcp |-> conn[d].tcp, core |-> conn[d].core,
                    lim |-> aged(conn[d].lim), read |-> conn[d].read, lm |-> conn[d].lm,
                    back |-> aged(conn[d].back)]
    BY <1>0, <2>1 DEF Conn
  <2>3. auth /\ auth' /\ ~mapped'
    BY <1>12 DEF DeleteLimiter, Control
  <2>4. CASE conn[d].pc = "idle"
    <3>1. conn'[d] = NoConn
      BY <1>0, <2>2, <2>4 DEF Holding, NoConn
    <3> QED BY <3>1, Over
  <2>5. CASE conn[d].pc # "idle"
    BY <1>0, <1>12, <2>2, <2>3, <2>5
    DEF DeleteLimiter, Holding, OnItsWay, Linked, Conn, Holds
  <2> QED BY <2>4, <2>5
<1>13. CASE Remove
  BY <1>13
  DEF Remove, TypeOK, Conn, NoConn, Holds, Control, Holding, OnItsWay, Linked, limiterVars,
      history
<1>14. CASE CloseAll
  <2>1. CASE mgr /\ d \in Reachable
    <3>1. conn'[d] = [conn[d] EXCEPT !.lm = "none"]
      BY <1>14, <2>1 DEF CloseAll, CloseLinks
    <3> QED
      BY <1>0, <1>14, <2>1, <3>1, Unlinked
      DEF CloseAll, Reachable, Linked, limiterVars, history
  <2>2. CASE mgr /\ d \notin Reachable
    <3>1. conn'[d] = conn[d]
      BY <1>14, <2>2 DEF CloseAll, CloseLinks
    <3>2. Linked(d) => d \in late
      BY <1>0, <2>2 DEF Reachable, Linked, Holding, Conn, Holds
    <3> QED
      BY <1>0, <1>14, <3>1, <3>2
      DEF CloseAll, Holding, OnItsWay, Linked, NoConn, limiterVars, history
  <2>3. CASE ~mgr
    <3>1. conn'[d] = conn[d]
      BY <1>14, <2>3 DEF CloseAll
    <3>2. Linked(d) => d \in late
      BY <1>0, <2>3 DEF Linked, Holding, Conn, Holds
    <3> QED
      BY <1>0, <1>14, <3>1, <3>2
      DEF CloseAll, Holding, OnItsWay, Linked, NoConn, limiterVars, history
  <2> QED BY <2>1, <2>2, <2>3
<1>15. CASE Unmap
  <2> DEFINE aged(h) == IF h = "now" THEN "old" ELSE h
  <2>1. conn'[d] = [conn[d] EXCEPT !.lm = aged(@)]
    BY <1>15 DEF Unmap, Unmapped
  <2>2. conn'[d] = [pc |-> conn[d].pc, tcp |-> conn[d].tcp, core |-> conn[d].core,
                    lim |-> conn[d].lim, read |-> conn[d].read, lm |-> aged(conn[d].lm),
                    back |-> conn[d].back]
    BY <1>0, <2>1 DEF Conn
  <2>3. ~auth /\ ~auth'
    BY <1>15 DEF Unmap, Control, limiterVars
  <2>4. conn[d].lm = "now" => d \in late
    BY <1>0, <1>15, <2>3 DEF Unmap, Holding, OnItsWay, Linked, Conn, Places, NoConn
  <2> QED
    BY <1>0, <1>15, <2>2, <2>3, <2>4
    DEF Unmap, Holding, OnItsWay, Linked, NoConn, limiterVars, history
<1>16. CASE UpdateUserDelInfo
  BY <1>16
  DEF UpdateUserDelInfo, TypeOK, Conn, NoConn, Holds, Control, Holding, OnItsWay, Linked,
      limiterVars, history
<1>17. CASE UpdateUserDelRest
  BY <1>17
  DEF UpdateUserDelRest, DropBucket, TypeOK, Conn, NoConn, Holds, Control, Holding,
      OnItsWay, Linked, limiterVars, history
<1>18. CASE AddUsers
  BY <1>18
  DEF AddUsers, TypeOK, Conn, NoConn, Holds, Control, Holding, OnItsWay, Linked,
      limiterVars, history
<1>19. CASE UpdateUserAdd
  BY <1>19
  DEF UpdateUserAdd, TypeOK, Conn, NoConn, Holds, Control, Holding, OnItsWay, Linked,
      limiterVars, history
<1>20. CASE UpdateUserModify
  BY <1>20
  DEF UpdateUserModify, TypeOK, Conn, NoConn, Holds, Control, Holding, OnItsWay, Linked,
      limiterVars, history
<1>21. CASE UpdateUserModBucket
  BY <1>21
  DEF UpdateUserModBucket, DropBucket, TypeOK, Conn, NoConn, Holds, Control, Holding,
      OnItsWay, Linked, limiterVars, history
<1>22. CASE NewCore
  <2> DEFINE aged(h) == IF h = "now" THEN "old" ELSE h
  <2>1. conn'[d] = [conn[d] EXCEPT !.lm = aged(@), !.core = aged(@)]
    BY <1>0, <1>22 DEF NewCore, Unmapped, Conn
  <2>2. conn'[d] = [pc |-> conn[d].pc, tcp |-> conn[d].tcp, core |-> aged(conn[d].core),
                    lim |-> conn[d].lim, read |-> conn[d].read, lm |-> aged(conn[d].lm),
                    back |-> conn[d].back]
    BY <1>0, <2>1 DEF Conn
  <2>3. ~auth /\ ~auth'
    BY <1>22 DEF NewCore, Control
  <2>4. conn[d].lm = "now" \/ conn[d].core = "now" => d \in late
    BY <1>0, <1>22, <2>3 DEF NewCore, Holding, OnItsWay, Linked, Conn, Places, NoConn
  <2> QED
    BY <1>0, <1>22, <2>2, <2>3, <2>4
    DEF NewCore, Holding, OnItsWay, Linked, NoConn, limiterVars, history
<1>23. CASE AddLimiter
  BY <1>23
  DEF AddLimiter, TypeOK, Conn, NoConn, Holds, Control, Holding, OnItsWay, Linked,
      limiterVars, history
<1>24. CASE AddNode
  BY <1>24
  DEF AddNode, TypeOK, Conn, NoConn, Holds, Control, Holding, OnItsWay, Linked,
      limiterVars, history
<1>25. CASE UNCHANGED vars
  BY <1>25
  DEF vars, TypeOK, Conn, NoConn, Holds, Control, Holding, OnItsWay, Linked, limiterVars,
      history
<1> QED
  BY <1>1, <1>2, <1>3, <1>4, <1>5, <1>6, <1>7, <1>8, <1>9, <1>10, <1>11, <1>12, <1>13,
      <1>14, <1>15, <1>16, <1>17, <1>18, <1>19, <1>20, <1>21, <1>22, <1>23, <1>24,
      <1>25 DEF Next, ConnStep, ControllerStep

-----------------------------------------------------------------------------
(* The bucket runs at the limit. *)

LEMMA BucketStep ==
    ASSUME TypeOK, Control, \A c \in Conns : Holding(c), BucketKnown, RateFollowsLimit,
           [Next]_vars
    PROVE  BucketKnown' /\ RateFollowsLimit'
<1> DEFINE Goal == BucketKnown' /\ RateFollowsLimit'
<1> USE DispatchNone, RatesAssumption
<1>1. ASSUME NEW c \in Conns, NEW t \in Networks, Accept(c, t) PROVE Goal
  BY <1>1 DEF Accept, Control, BucketKnown, RateFollowsLimit, limiterVars, history
<1>2. ASSUME NEW c \in Conns, CheckLimit(c) PROVE Goal
  BY <1>2 DEF CheckLimit, Gone, Control, BucketKnown, RateFollowsLimit, limiterVars, history
<1>3. ASSUME NEW c \in Conns, PassGate(c) PROVE Goal
  BY <1>3 DEF PassGate, Control, BucketKnown, RateFollowsLimit, limiterVars, history
<1>4. ASSUME NEW c \in Conns, FailGate(c) PROVE Goal
  BY <1>4 DEF FailGate, Gone, Control, BucketKnown, RateFollowsLimit, limiterVars, history
<1>5. ASSUME NEW c \in Conns, TakeBucket(c) PROVE Goal
  <2>1. conn[c].read \in Nat /\ NodeRate \in Nat
    BY <1>5, RatesAssumption DEF TakeBucket, Holding
  <2> DEFINE r == determineSpeedLimit(NodeRate, conn[c].read)
  <2>2. r \in Nat /\ r = SlowestLimit({NodeRate, conn[c].read})
    BY <2>1, DetermineSlowest
  <2>3. rate' = rate /\ ctl' = ctl
    BY <1>5 DEF TakeBucket
  <2>4. CASE bucket' = bucket /\ stale' = stale
    BY <2>3, <2>4 DEF BucketKnown, RateFollowsLimit
  <2>5. CASE bucket' = r /\ stale' = (stale \/ conn[c].read # rate)
    BY <2>1, <2>2, <2>3, <2>5 DEF BucketKnown, RateFollowsLimit
  <2> QED BY <1>5, <2>4, <2>5 DEF TakeBucket, TypeOK
<1>6. ASSUME NEW c \in Conns, GetManager(c) PROVE Goal
  BY <1>6 DEF GetManager, Control, BucketKnown, RateFollowsLimit, limiterVars, history
<1>7. ASSUME NEW c \in Conns, AddLink(c) PROVE Goal
  BY <1>7 DEF AddLink, Control, BucketKnown, RateFollowsLimit, limiterVars, history
<1>8. ASSUME NEW c \in Conns, RoutedDispatch(c) PROVE Goal
  BY <1>8 DEF RoutedDispatch, Control, BucketKnown, RateFollowsLimit, limiterVars, history
<1>9. ASSUME NEW c \in Conns, HalfClose(c) PROVE Goal
  BY <1>9 DEF HalfClose, Control, BucketKnown, RateFollowsLimit, limiterVars, history
<1>10. ASSUME NEW c \in Conns, ConnClosed(c) PROVE Goal
  BY <1>10
  DEF ConnClosed, Gone, Control, BucketKnown, RateFollowsLimit, limiterVars, history
<1>11. CASE KickByUserIP
  BY <1>11 DEF KickByUserIP, Control, BucketKnown, RateFollowsLimit, limiterVars, history
<1>12. CASE DeleteLimiter
  BY <1>12 DEF DeleteLimiter, Control, BucketKnown, RateFollowsLimit, limiterVars, history
<1>13. CASE Remove
  BY <1>13 DEF Remove, Control, BucketKnown, RateFollowsLimit, limiterVars, history
<1>14. CASE CloseAll
  BY <1>14 DEF CloseAll, Control, BucketKnown, RateFollowsLimit, limiterVars, history
<1>15. CASE Unmap
  BY <1>15 DEF Unmap, Control, BucketKnown, RateFollowsLimit, limiterVars, history
<1>16. CASE UpdateUserDelInfo
  BY <1>16
  DEF UpdateUserDelInfo, Control, BucketKnown, RateFollowsLimit, limiterVars, history
<1>17. CASE UpdateUserDelRest
  BY <1>17
  DEF UpdateUserDelRest, DropBucket, Control, BucketKnown, RateFollowsLimit, limiterVars,
      history
<1>18. CASE AddUsers
  BY <1>18 DEF AddUsers, Control, BucketKnown, RateFollowsLimit, limiterVars, history
<1>19. CASE UpdateUserAdd
  BY <1>19 DEF UpdateUserAdd, Control, BucketKnown, RateFollowsLimit, limiterVars, history
<1>20. CASE UpdateUserModify
  BY <1>20
  DEF UpdateUserModify, Control, BucketKnown, RateFollowsLimit, limiterVars, history
<1>21. CASE UpdateUserModBucket
  BY <1>21
  DEF UpdateUserModBucket, DropBucket, Control, BucketKnown, RateFollowsLimit, limiterVars,
      history
<1>22. CASE NewCore
  BY <1>22 DEF NewCore, Control, BucketKnown, RateFollowsLimit, limiterVars, history
<1>23. CASE AddLimiter
  BY <1>23 DEF AddLimiter, Control, BucketKnown, RateFollowsLimit, limiterVars, history
<1>24. CASE AddNode
  BY <1>24 DEF AddNode, Control, BucketKnown, RateFollowsLimit, limiterVars, history
<1>25. CASE UNCHANGED vars
  BY <1>25 DEF vars, Control, BucketKnown, RateFollowsLimit, limiterVars, history
<1> QED
  BY <1>1, <1>2, <1>3, <1>4, <1>5, <1>6, <1>7, <1>8, <1>9, <1>10, <1>11, <1>12,
     <1>13, <1>14, <1>15, <1>16, <1>17, <1>18, <1>19, <1>20, <1>21, <1>22, <1>23, <1>24, <1>25
  DEF Next, ConnStep, ControllerStep

-----------------------------------------------------------------------------
(* Counts. *)

\* A step that moves no connection into or out of Counted, and none to its end.
Moves(d) ==
    /\ conn'[d].tcp = conn[d].tcp /\ conn'[d].lim = conn[d].lim /\ conn'[d].back = conn[d].back
    /\ conn'[d].pc \in {"new", "gate"} <=> conn[d].pc \in {"new", "gate"}
    /\ conn'[d].pc = "live" => conn[d].pc = "live"

LEMMA CountedFinite == IsFiniteSet(Counted) /\ Cardinality(Counted) \in Nat
BY ConnsAssumption, FS_Subset, FS_CardinalityType DEF Counted

LEMMA PairedKept ==
    ASSUME Paired, \A d \in Conns : Moves(d), count' = count, mapped' => mapped,
           rate # None => rate' # None, strayed' = strayed
    PROVE  Paired'
<1>1. Counted' = Counted
  BY DEF Counted, Moves
<1>2. Cardinality(Counted)' = Cardinality(Counted)
  BY <1>1
<1> QED BY <1>2 DEF Paired, Moves

\* A connection that is over before it was counted.
LEMMA Uncounted ==
    ASSUME TypeOK, Paired, NEW c \in Conns, conn[c].pc \in {"new", "gate"},
           conn' = [conn EXCEPT ![c] = NoConn], limiterVars' = limiterVars,
           strayed' = strayed
    PROVE  Paired'
<1>1. Counted' = Counted
  BY DEF Counted, NoConn, TypeOK
<1>2. Cardinality(Counted)' = Cardinality(Counted)
  BY <1>1
<1> QED BY <1>2 DEF Paired, NoConn, TypeOK, limiterVars

LEMMA PairedStep ==
    ASSUME TypeOK, Control, \A c \in Conns : Holding(c), Paired, [Next]_vars
    PROVE  Paired'
<1> DEFINE Goal == Paired'
<1> USE DispatchNone
<1>1. ASSUME NEW c \in Conns, NEW t \in Networks, Accept(c, t) PROVE Goal
  <2>1. conn' = [conn EXCEPT ![c] = conn'[c]] /\ conn[c] = NoConn
    BY <1>1 DEF Accept, TypeOK, Holding
  <2>2. conn'[c].lim = "none" /\ conn'[c].back = "none"
    BY <1>1, <2>1 DEF Accept, TypeOK, NoConn
  <2>3. Counted' = Counted
    BY <1>1, <2>1, <2>2 DEF Counted, TypeOK, NoConn
  <2>4. Cardinality(Counted)' = Cardinality(Counted)
    BY <2>3
  <2> QED
    BY <1>1, <2>1, <2>2, <2>4 DEF Accept, Paired, TypeOK, limiterVars, history
<1>2. ASSUME NEW c \in Conns, CheckLimit(c) PROVE Goal
  <2>1. CASE mapped /\ rate # None
    <3>0. conn'[c] = [conn[c] EXCEPT !.pc = "gate", !.lim = "now", !.read = rate]
      BY <1>2, <2>1 DEF CheckLimit, TypeOK
    <3>1. conn'[c].lim = "now" /\ conn'[c].pc = "gate" /\ conn'[c].back = conn[c].back
      BY <3>0 DEF TypeOK, Conn
    <3>2. conn[c].lim = "none" /\ conn[c].back = "none" /\ conn[c].pc = "new"
      BY <1>2 DEF CheckLimit, Holding, TypeOK, Conn, Holds
    <3>3. \A d \in Conns \ {c} : conn'[d] = conn[d]
      BY <1>2, <2>1 DEF CheckLimit, TypeOK
    <3>4. Counted' = Counted
      BY <3>1, <3>2, <3>3 DEF Counted
    <3>5. Cardinality(Counted)' = Cardinality(Counted)
      BY <3>4
    <3> QED
      BY <1>2, <2>1, <3>1, <3>2, <3>3, <3>5 DEF CheckLimit, Paired, limiterVars
  <2>2. CASE ~(mapped /\ rate # None)
    BY <1>2, <2>2, Uncounted DEF CheckLimit, Gone, limiterVars, TypeOK
  <2> QED BY <2>1, <2>2
<1>3. ASSUME NEW c \in Conns, PassGate(c) PROVE Goal
  <2>1. /\ conn' = [conn EXCEPT ![c] = [@ EXCEPT !.pc = "bucket"]]
        /\ conn[c].pc = "gate" /\ conn[c].back = "none"
    BY <1>3 DEF PassGate, Holding, TypeOK, Conn, Holds
  <2>2. /\ conn'[c].tcp = conn[c].tcp /\ conn'[c].lim = conn[c].lim
        /\ conn'[c].back = conn[c].back /\ conn'[c].pc = "bucket"
        /\ \A d \in Conns \ {c} : conn'[d] = conn[d]
    BY <2>1 DEF TypeOK, Conn
  <2>3. CASE conn[c].tcp /\ conn[c].lim = "now"
    <3>1. Counted' = Counted \cup {c} /\ c \notin Counted
      BY <2>1, <2>2, <2>3 DEF Counted
    <3>2. Cardinality(Counted \cup {c}) = Cardinality(Counted) + 1
      BY <3>1, CountedFinite, FS_AddElement
    <3>3. count' = count + 1 /\ mapped' = mapped /\ rate' = rate /\ strayed' = strayed
      BY <1>3, <2>3 DEF PassGate, history
    <3>4. Cardinality(Counted)' = Cardinality(Counted \cup {c})
      BY <3>1
    <3> QED
      BY <2>1, <2>2, <3>2, <3>3, <3>4 DEF Paired
  <2>4. CASE ~(conn[c].tcp /\ conn[c].lim = "now")
    <3>1. Counted' = Counted
      BY <2>1, <2>2, <2>4 DEF Counted
    <3>2. Cardinality(Counted)' = Cardinality(Counted)
      BY <3>1
    <3>3. count' = count /\ mapped' = mapped /\ rate' = rate /\ strayed' = strayed
      BY <1>3, <2>4 DEF PassGate, history
    <3> QED
      BY <2>1, <2>2, <3>2, <3>3 DEF Paired
  <2> QED BY <2>3, <2>4
<1>4. ASSUME NEW c \in Conns, FailGate(c) PROVE Goal
  BY <1>4, Uncounted DEF FailGate, Gone, limiterVars, TypeOK
<1>5. ASSUME NEW c \in Conns, TakeBucket(c) PROVE Goal
  <2>1. \A d \in Conns : Moves(d)
    BY <1>5 DEF Moves, TypeOK, Conn, TakeBucket
  <2> QED
    BY <1>5, <2>1, PairedKept DEF TakeBucket, limiterVars, history
<1>6. ASSUME NEW c \in Conns, GetManager(c) PROVE Goal
  <2>1. \A d \in Conns : Moves(d)
    BY <1>6 DEF Moves, TypeOK, Conn, GetManager
  <2> QED
    BY <1>6, <2>1, PairedKept DEF GetManager, limiterVars, history
<1>7. ASSUME NEW c \in Conns, AddLink(c) PROVE Goal
  <2>1. \A d \in Conns : Moves(d)
    BY <1>7 DEF Moves, TypeOK, Conn, AddLink
  <2> QED
    BY <1>7, <2>1, PairedKept DEF AddLink, limiterVars, history
<1>8. ASSUME NEW c \in Conns, RoutedDispatch(c) PROVE Goal
  <2> DEFINE b == IF conn[c].tcp /\ mapped THEN "now" ELSE "none"
  <2>1. conn[c].pc = "sniff" /\ conn' = [conn EXCEPT ![c] = [@ EXCEPT !.pc = "live", !.back = b]]
    BY <1>8 DEF RoutedDispatch
  <2>2. /\ conn'[c].tcp = conn[c].tcp /\ conn'[c].lim = conn[c].lim
        /\ conn'[c].back = b /\ conn'[c].pc = "live"
        /\ \A d \in Conns \ {c} : conn'[d] = conn[d]
    BY <2>1 DEF TypeOK, Conn
  <2>3. Counted' = Counted
    BY <2>1, <2>2 DEF Counted
  <2>4. Cardinality(Counted)' = Cardinality(Counted)
    BY <2>3
  <2>5. count' = count /\ mapped' = mapped /\ rate' = rate
    BY <1>8 DEF RoutedDispatch, limiterVars
  <2>6. strayed' = (strayed \/ (b = "now" /\ conn[c].lim = "old"))
    BY <1>8 DEF RoutedDispatch
  <2>7. conn[c].lim \in {"now", "old"} /\ (conn[c].lim = "now" => mapped)
    BY <2>1 DEF Holding, TypeOK, Conn, Holds
  <2> QED
    BY <2>2, <2>4, <2>5, <2>6, <2>7 DEF Paired, TypeOK
<1>9. ASSUME NEW c \in Conns, HalfClose(c) PROVE Goal
  <2>1. \A d \in Conns : Moves(d)
    BY <1>9 DEF Moves, TypeOK, Conn, HalfClose
  <2> QED
    BY <1>9, <2>1, PairedKept DEF HalfClose, limiterVars, history
<1>10. ASSUME NEW c \in Conns, ConnClosed(c) PROVE Goal
  <2>1. /\ conn[c].pc = "live" /\ conn' = [conn EXCEPT ![c] = NoConn]
        /\ mapped' = mapped /\ rate' = rate /\ strayed' = strayed
    BY <1>10 DEF ConnClosed, Gone
  <2>2. /\ conn'[c].lim = "none" /\ conn'[c].back = "none"
        /\ \A d \in Conns \ {c} : conn'[d] = conn[d]
    BY <2>1 DEF TypeOK, NoConn
  <2>3. Counted' = Counted \ {c}
    BY <2>1, <2>2 DEF Counted
  <2>4. Cardinality(Counted)' = Cardinality(Counted \ {c})
    BY <2>3
  <2>5. CASE c \in Counted
    <3>1. Cardinality(Counted \ {c}) = Cardinality(Counted) - 1
      BY <2>5, CountedFinite, FS_RemoveElement
    <3>2. Cardinality(Counted \ {c}) \in Nat
      BY CountedFinite, FS_RemoveElement, FS_CardinalityType
    <3>3. ~strayed /\ mapped =>
             count = Cardinality(Counted) /\ conn[c].back = "now" /\ rate # None
      BY <2>1, <2>5 DEF Paired, Counted
    <3>4. ~strayed /\ mapped => count' = count - 1
      BY <1>10, <3>1, <3>2, <3>3, CountedFinite DEF ConnClosed
    <3> QED
      BY <2>1, <2>2, <2>4, <3>1, <3>3, <3>4 DEF Paired
  <2>6. CASE c \notin Counted
    <3>1. Counted \ {c} = Counted
      BY <2>6
    <3>2. ~strayed => conn[c].back # "now"
      BY <2>1, <2>6 DEF Paired, Counted, Holding
    <3>3. ~strayed => count' = count
      BY <1>10, <3>2 DEF ConnClosed
    <3> QED
      BY <2>1, <2>2, <2>4, <3>1, <3>3 DEF Paired
  <2> QED BY <2>5, <2>6
<1>11. CASE KickByUserIP
  <2>1. \A d \in Conns : Moves(d)
    BY <1>11 DEF Moves, TypeOK, Conn, KickByUserIP, CloseLinks
  <2> QED
    BY <1>11, <2>1, PairedKept DEF KickByUserIP, CloseLinks, limiterVars, history
<1>12. CASE DeleteLimiter
  <2>1. ~mapped' /\ \A d \in Conns : conn'[d].lim # "now" /\ conn'[d].back # "now"
    BY <1>12 DEF DeleteLimiter, TypeOK, Conn
  <2> QED BY <2>1 DEF Paired
<1>13. CASE Remove
  <2>1. \A d \in Conns : Moves(d)
    BY <1>13 DEF Moves, TypeOK, Conn, Remove
  <2> QED
    BY <1>13, <2>1, PairedKept DEF Remove, limiterVars, history
<1>14. CASE CloseAll
  <2>1. \A d \in Conns : Moves(d)
    BY <1>14 DEF Moves, TypeOK, Conn, CloseAll, CloseLinks
  <2> QED
    BY <1>14, <2>1, PairedKept DEF CloseAll, CloseLinks, limiterVars, history
<1>15. CASE Unmap
  <2>1. \A d \in Conns : Moves(d)
    BY <1>15 DEF Moves, TypeOK, Conn, Unmap, Unmapped
  <2> QED
    BY <1>15, <2>1, PairedKept DEF Unmap, Unmapped, limiterVars, history
<1>16. CASE UpdateUserDelInfo
  BY <1>16 DEF UpdateUserDelInfo, Paired
<1>17. CASE UpdateUserDelRest
  <2>1. ~strayed' => \A d \in Conns : conn[d].tcp => conn[d].pc \in {"idle", "new"}
    BY <1>17 DEF UpdateUserDelRest
  <2>2. ~strayed' => \A d \in Conns : conn[d].tcp => conn[d].lim = "none" /\ conn[d].back = "none"
    BY <2>1 DEF Holding, NoConn, TypeOK, Conn, Holds
  <2>3. \A d \in Conns : conn[d].back = "now" => conn[d].tcp
    BY DEF Holding
  <2>4. ~strayed' => Counted' = {}
    BY <1>17, <2>2 DEF UpdateUserDelRest, Counted
  <2>5. ~strayed' => Cardinality(Counted)' = 0
    BY <2>4, FS_EmptySet
  <2>6. count' = 0 /\ conn' = conn
    BY <1>17 DEF UpdateUserDelRest
  <2> QED BY <2>2, <2>3, <2>5, <2>6 DEF Paired
<1>18. CASE AddUsers
  <2>1. \A d \in Conns : Moves(d)
    BY <1>18 DEF Moves, TypeOK, Conn, AddUsers
  <2> QED
    BY <1>18, <2>1, PairedKept DEF AddUsers, limiterVars, history
<1>19. CASE UpdateUserAdd
  <2>1. \A d \in Conns : Moves(d)
    BY <1>19 DEF Moves, TypeOK, Conn, UpdateUserAdd
  <2> QED
    BY <1>19, <2>1, RatesAssumption, PairedKept DEF UpdateUserAdd, limiterVars, history
<1>20. CASE UpdateUserModify
  <2>1. \A d \in Conns : Moves(d)
    BY <1>20 DEF Moves, TypeOK, Conn, UpdateUserModify
  <2> QED
    BY <1>20, <2>1, RatesAssumption, PairedKept DEF UpdateUserModify, limiterVars, history
<1>21. CASE UpdateUserModBucket
  <2>1. \A d \in Conns : Moves(d)
    BY <1>21 DEF Moves, TypeOK, Conn, UpdateUserModBucket, DropBucket
  <2> QED
    BY <1>21, <2>1, PairedKept DEF UpdateUserModBucket, DropBucket, limiterVars, history
<1>22. CASE NewCore
  <2>1. \A d \in Conns : Moves(d)
    BY <1>22 DEF Moves, TypeOK, Conn, NewCore, Unmapped
  <2> QED
    BY <1>22, <2>1, PairedKept DEF NewCore, Unmapped, limiterVars, history
<1>23. CASE AddLimiter
  <2>1. \A d \in Conns : conn[d].lim # "now" /\ conn[d].back # "now"
    BY <1>23 DEF AddLimiter, Control, Holding
  <2>2. conn' = conn /\ count' = count /\ count = 0
    BY <1>23 DEF AddLimiter, Control
  <2>3. Counted' = {}
    BY <2>1, <2>2 DEF Counted
  <2>4. Cardinality(Counted)' = 0
    BY <2>3, FS_EmptySet
  <2> QED BY <2>1, <2>2, <2>4 DEF Paired
<1>24. CASE AddNode
  <2>1. \A d \in Conns : Moves(d)
    BY <1>24 DEF Moves, TypeOK, Conn, AddNode
  <2> QED
    BY <1>24, <2>1, PairedKept DEF AddNode, limiterVars, history
<1>25. CASE UNCHANGED vars
  <2>1. \A d \in Conns : Moves(d)
    BY <1>25 DEF Moves, TypeOK, Conn, vars
  <2> QED
    BY <1>25, <2>1, PairedKept DEF vars, limiterVars, history
<1> QED
  BY <1>1, <1>2, <1>3, <1>4, <1>5, <1>6, <1>7, <1>8, <1>9, <1>10, <1>11, <1>12,
     <1>13, <1>14, <1>15, <1>16, <1>17, <1>18, <1>19, <1>20, <1>21, <1>22, <1>23, <1>24, <1>25
  DEF Next, ConnStep, ControllerStep

-----------------------------------------------------------------------------
(* The theorems. *)

LEMMA InvHolds == Spec => []IInv
<1>1. IInv /\ [Next]_vars => IInv'
  BY TypeStep, ControlStep, HoldingStep, BucketStep, PairedStep DEF IInv
<1> QED BY <1>1, InitHolds, PTL DEF Spec

\* Every reachable state is well typed: no count goes below zero, whatever connections
\* of a deleted user close (ConnClosed).
THEOREM DispatchTypes == Spec => []TypeOK
<1>1. IInv => TypeOK
  BY DEF IInv
<1> QED BY <1>1, InvHolds, PTL

\* The user's cached bucket runs at the slowest of the limits (UpdateUser, CheckLimit).
THEOREM RateIsLimit == Spec => []RateFollowsLimit
<1>1. IInv => RateFollowsLimit
  BY DEF IInv
<1> QED BY <1>1, InvHolds, PTL

\* Kicks miss only links of connections that were not linked yet when the user was
\* removed (getLink, KickByUserIP, LinkManagers.Delete).
THEOREM LinksFound == Spec => []LinksReachable
<1>1. IInv => LinksReachable
  BY DEF IInv, Holding, LinksReachable
<1> QED BY <1>1, InvHolds, PTL

\* No link of a removed user is left once its managers are closed, but for those of
\* connections that were on their way (getLink, DelUsers, CloseAll), when DelNode
\* succeeds and every connection authenticates itself, not through an older carrier.
THEOREM RemovedIsGone == Spec => []RemovedGone
<1>1. IInv => RemovedGone
  BY DEF IInv, Holding, RemovedGone
<1> QED BY <1>1, InvHolds, PTL

\* A connection is un-counted where it was counted (CheckLimit, routedDispatch's
\* deferred ConnClosed), unless the user was deleted or the limiter replaced under it.
THEOREM CountsPaired == Spec => []CountPaired
<1>1. IInv => CountPaired
  BY DEF IInv, Paired, Counted, CountPaired
<1> QED BY <1>1, InvHolds, PTL

=============================================================================
