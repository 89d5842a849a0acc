---------------------------- MODULE UserSyncProofs ----------------------------
(***************************************************************************)
(* What the two goroutines that change a node's users keep between list,   *)
(* inbound and limiter: for any users, limits, changes of the panel and    *)
(* failures, and for every way their steps interleave.                     *)
(***************************************************************************)
EXTENDS UserSync, TLAPS

\* The bounds are what TypeOK says; the panel's version grows with its changes.
Counted == panelConf <= 1 + changes

\* The handler of a delta has a user, and is without one when idle; a delta that adds
\* a user brings its limit.
DeltaSound ==
    /\ ws.place = "idle" => ws = NoDelta
    /\ ws.place # "idle" => ws.user \in Users
    /\ ws.place \in {"add", "addlim"} => ws.limit # None
    /\ \A i \in 1..Len(inbox) : inbox[i].action = "add" => inbox[i].limit # None

\* A removal, and every delta beside a poll, is tainted.
Overlap ==
    ws.place # "idle" => ws.user \in tainted \/ (mon = "idle" /\ ws.place \in {"add", "addlim"})

\* What the poll has fetched: a list is the one whose ETag it has.
Fetched ==
    /\ mon \in {"idle", "users"} => newU = None
    /\ newU # None => etag = newU
    /\ mon \in {"compare", "del", "add", "limiter", "list"} => newU # None

Reload == {"rcompare", "rdel", "rlimiter", "rlist", "rcert", "rnode", "rusers"}

\* What the round makes of user u's entry in the list.
Target(u) == IF newU = None THEN userList[u] ELSE newU[u]

\* compareUserList's result fits.
DiffFits(u) ==
    /\ u \in diff.deleted <=> userList[u] # None /\ Target(u) = None
    /\ u \in diff.added <=> userList[u] = None /\ Target(u) # None
    /\ u \in diff.modified <=>
          userList[u] # None /\ Target(u) # None /\ userList[u] # Target(u)

\* The list has what was fetched last, or the panel has news for u.
Current(u) == userList[u] = etag[u] \/ panelUsers[u] # etag[u]

Adding(u) == ws.place \in {"add", "addlim"} /\ ws.user = u

\* Where an untainted user stands, at each place of the two goroutines.
Keeps(u) ==
    /\ mon \in {"idle", "users"} => Current(u)
    /\ mon \notin {"idle", "users"} /\ newU = None => userList[u] = etag[u]
    /\ mon \in {"rcert", "rnode", "rusers"} => userList[u] = etag[u]
    /\ mon \in {"del", "add", "limiter", "rdel", "rlimiter"} => DiffFits(u)
    /\ Adding(u) => userList[u] = ws.limit /\ lim[u] = None /\ (u \in core <=> ws.place = "addlim")
    /\ ~Adding(u) /\ mon \in {"idle", "users", "compare", "del", "rcompare", "rdel"} =>
          lim[u] = userList[u] /\ (u \in core <=> userList[u] # None)
    /\ mon = "add" => lim[u] = userList[u] /\ (u \in core <=> userList[u] # None /\ Target(u) # None)
    /\ mon = "limiter" => lim[u] = userList[u] /\ (u \in core <=> Target(u) # None)
    /\ mon = "list" => lim[u] = Target(u) /\ (u \in core <=> Target(u) # None)
    /\ mon = "rlimiter" => lim[u] = userList[u] /\ u \notin core
    /\ mon = "rlist" => lim[u] = Target(u) /\ u \notin core
    /\ mon \in {"rcert", "rnode", "rusers"} => lim[u] = userList[u] /\ u \notin core

\* A new version is in the reload's hands until the inbound is built from it; without
\* one the inbound is of the version seen last, or a step has failed.
Versions ==
    /\ newN # 0 => newN = seenConf
    /\ newN = 0 => inbound = seenConf \/ dropped
    /\ mon \in Reload => newN # 0
    /\ mon \notin Reload \cup {"users"} => newN = 0
    /\ mon = "rusers" => inbound = newN

IInv ==
    /\ TypeOK /\ Counted /\ DeltaSound /\ Overlap /\ Fetched /\ Versions
    /\ \A u \in Users \ tainted : Keeps(u)

-----------------------------------------------------------------------------
(* The calls of the core. *)

\* AddUsers only adds users it was given, and all of them when it succeeds.
LEMMA AddUsersResult ==
    ASSUME NEW us, NEW r \in AddUsers(us)
    PROVE  /\ core \subseteq r.users /\ r.users \subseteq core \cup us
           /\ r.ok => r.users = core \cup us
<1>1. CASE inbound # 0 /\ us \cap core = {}
  BY <1>1 DEF AddUsers
<1>2. CASE ~(inbound # 0 /\ us \cap core = {})
  <2>1. PICK t \in IF inbound = 0 THEN {{}} ELSE SUBSET (us \ core) :
           r = [ok |-> FALSE, users |-> core \cup t]
    BY <1>2 DEF AddUsers
  <2>2. ~r.ok /\ r.users = core \cup t /\ t \subseteq us
    BY <2>1
  <2>3. QED
    BY <2>2
<1>3. QED
  BY <1>1, <1>2

\* DelUsers only removes users it was given, and all of them when it succeeds.
LEMMA DelUsersResult ==
    ASSUME NEW us, NEW r \in DelUsers(us)
    PROVE  /\ core \ us \subseteq r.users /\ r.users \subseteq core
           /\ r.ok => r.users = core \ us
<1>1. CASE inbound # 0 /\ us \subseteq core
  BY <1>1 DEF DelUsers
<1>2. CASE ~(inbound # 0 /\ us \subseteq core)
  <2>1. PICK t \in IF inbound = 0 THEN {{}} ELSE SUBSET (us \cap core) :
           r = [ok |-> FALSE, users |-> core \ t]
    BY <1>2 DEF DelUsers
  <2>2. ~r.ok /\ r.users = core \ t /\ t \subseteq us
    BY <2>1
  <2>3. QED
    BY <2>2
<1>3. QED
  BY <1>1, <1>2

\* What the core makes of the monitor's calls, which it skips for an empty slice.
LEMMA MonDelUsersResult ==
    ASSUME MonDelUsers
    PROVE  /\ core \ diff.deleted \subseteq core' /\ core' \subseteq core
           /\ \/ /\ core' = core \ diff.deleted /\ mon' = "add"
                 /\ UNCHANGED <<newN, newU, diff, tainted>>
              \/ ReturnOnError(diff.deleted \cup diff.added \cup diff.modified)
<1>1. PICK r \in IF diff.deleted = {} THEN {[ok |-> TRUE, users |-> core]}
                 ELSE DelUsers(diff.deleted) :
         /\ core' = r.users
         /\ IF r.ok THEN mon' = "add" /\ UNCHANGED <<newN, newU, diff, tainted>>
            ELSE ReturnOnError(diff.deleted \cup diff.added \cup diff.modified)
  BY DEF MonDelUsers
<1>2. /\ core \ diff.deleted \subseteq r.users /\ r.users \subseteq core
      /\ r.ok => r.users = core \ diff.deleted
  BY <1>1, DelUsersResult
<1>3. QED
  BY <1>1, <1>2

LEMMA MonAddUsersResult ==
    ASSUME MonAddUsers
    PROVE  /\ core \subseteq core' /\ core' \subseteq core \cup diff.added
           /\ \/ /\ core' = core \cup diff.added /\ mon' = "limiter"
                 /\ UNCHANGED <<newN, newU, diff, tainted>>
              \/ ReturnOnError(diff.deleted \cup diff.added \cup diff.modified)
<1>1. PICK r \in IF diff.added = {} THEN {[ok |-> TRUE, users |-> core]}
                 ELSE AddUsers(diff.added) :
         /\ core' = r.users
         /\ IF r.ok THEN mon' = "limiter" /\ UNCHANGED <<newN, newU, diff, tainted>>
            ELSE ReturnOnError(diff.deleted \cup diff.added \cup diff.modified)
  BY DEF MonAddUsers
<1>2. /\ core \subseteq r.users /\ r.users \subseteq core \cup diff.added
      /\ r.ok => r.users = core \cup diff.added
  BY <1>1, AddUsersResult
<1>3. QED
  BY <1>1, <1>2

LEMMA ReloadUsersResult ==
    ASSUME ReloadUsers
    PROVE  /\ core \subseteq core' /\ core' \subseteq core \cup Known(userList)
           /\ \/ core' = core \cup Known(userList) /\ Return /\ UNCHANGED tainted
              \/ ReturnOnError(Users)
<1>1. PICK r \in AddUsers(Known(userList)) :
         /\ core' = r.users
         /\ IF r.ok THEN Return /\ UNCHANGED tainted ELSE ReturnOnError(Users)
  BY DEF ReloadUsers
<1>2. /\ core \subseteq r.users /\ r.users \subseteq core \cup Known(userList)
      /\ r.ok => r.users = core \cup Known(userList)
  BY <1>1, AddUsersResult
<1>3. QED
  BY <1>1, <1>2

LEMMA WsDelUsersResult ==
    ASSUME WsDelUsers
    PROVE  /\ core \ {ws.user} \subseteq core' /\ core' \subseteq core
           /\ ws' = [ws EXCEPT !.place = "dellim"] \/ ws' = NoDelta
<1>1. PICK r \in DelUsers({ws.user}) :
         core' = r.users /\ ws' = IF r.ok THEN [ws EXCEPT !.place = "dellim"] ELSE NoDelta
  BY DEF WsDelUsers
<1>2. QED
  BY <1>1, DelUsersResult

LEMMA WsAddUsersResult ==
    ASSUME WsAddUsers
    PROVE  /\ core \subseteq core' /\ core' \subseteq core \cup {ws.user}
           /\ \/ /\ core' = core \cup {ws.user} /\ ws' = [ws EXCEPT !.place = "addlim"]
                 /\ UNCHANGED tainted
              \/ ws' = NoDelta /\ tainted' = tainted \cup {ws.user}
<1>1. PICK r \in AddUsers({ws.user}) :
         /\ core' = r.users
         /\ ws' = IF r.ok THEN [ws EXCEPT !.place = "addlim"] ELSE NoDelta
         /\ tainted' = IF r.ok THEN tainted ELSE tainted \cup {ws.user}
  BY DEF WsAddUsers
<1>2. QED
  BY <1>1, AddUsersResult

-----------------------------------------------------------------------------
(* Types. *)

DataOK ==
    /\ panelUsers \in Lists /\ etag \in Lists /\ userList \in Lists /\ lim \in Lists
    /\ panelConf \in 1..(1 + MaxChanges) /\ seenConf \in 1..(1 + MaxChanges)
    /\ inbound \in 0..(1 + MaxChanges) /\ newN \in 0..(1 + MaxChanges)
    /\ changes \in 0..MaxChanges /\ faults \in 0..MaxFaults
    /\ inbox \in Seq([action: Deltas, user: Users, limit: Limits \cup {None}])
    /\ core \in SUBSET Users
    /\ mon \in MonPlaces
    /\ newU \in Lists \cup {None}
    /\ diff \in [deleted: SUBSET Users, added: SUBSET Users, modified: SUBSET Users]
    /\ ws \in [place: WsPlaces, user: Users \cup {None}, limit: Limits \cup {None}]
    /\ tainted \in SUBSET Users

LEMMA TypeParts == TypeOK <=> DataOK /\ dropped \in BOOLEAN
BY DEF TypeOK, DataOK

\* The constants records the steps reset to.
LEMMA Resets ==
    /\ NoDiff \in [deleted: SUBSET Users, added: SUBSET Users, modified: SUBSET Users]
    /\ NoDelta \in [place: WsPlaces, user: Users \cup {None}, limit: Limits \cup {None}]
    /\ NoDelta.place = "idle" /\ NoDelta.user = None
    /\ NoDiff.deleted = {} /\ NoDiff.added = {} /\ NoDiff.modified = {}
BY DEF NoDiff, NoDelta, WsPlaces

LEMMA FlagStep == dropped \in BOOLEAN /\ [Next]_vars => dropped' \in BOOLEAN
<1> SUFFICES ASSUME dropped \in BOOLEAN, [Next]_vars PROVE dropped' \in BOOLEAN
  OBVIOUS
<1>1. ASSUME DropOnError PROVE dropped' \in BOOLEAN
  BY <1>1 DEF DropOnError
<1>2. CASE GetNodeInfo
  BY <1>2, Zenon DEF GetNodeInfo
<1>3. CASE GetUserList
  BY <1>3, Zenon DEF GetUserList
<1>4. CASE Compare \/ MonUpdateUser \/ MonDelUsers \/ MonAddUsers \/ MonSetList \/ ReloadUsers
  BY <1>4 DEF Compare, MonUpdateUser, MonDelUsers, MonAddUsers, MonSetList, ReloadUsers
<1>5. CASE DelNode
  BY <1>1, <1>5 DEF DelNode
<1>6. CASE RulesAndCert
  BY <1>1, <1>6 DEF RulesAndCert
<1>7. CASE AddNode
  BY <1>1, <1>7 DEF AddNode
<1>8. CASE WsStep
  BY <1>8 DEF WsStep, WsReceive, WsDelUsers, WsAddUsers, WsUpdateUser
<1>9. CASE PanelStep
  BY <1>9 DEF PanelStep, PanelSetUser, PanelSetConf
<1>10. CASE UNCHANGED vars
  BY <1>10 DEF vars
<1>11. QED
  BY <1>2, <1>3, <1>4, <1>5, <1>6, <1>7, <1>8, <1>9, <1>10 DEF Next, MonStep

-----------------------------------------------------------------------------
(* The initial state. *)

LEMMA InitHolds == Init => IInv
<1> SUFFICES ASSUME Init PROVE IInv
  OBVIOUS
<1> USE DEF Init
<1>1. TypeOK
  <2>1. DataOK
    <3>1. inbox \in Seq([action: Deltas, user: Users, limit: Limits \cup {None}])
      OBVIOUS
    <3>2. mon \in MonPlaces
      BY DEF MonPlaces
    <3>3. core \in SUBSET Users
      BY DEF Known
    <3>4. QED
      BY <3>1, <3>2, <3>3, Resets, BoundsAssumption DEF DataOK
  <2>2. dropped \in BOOLEAN
    OBVIOUS
  <2>3. QED
    BY <2>1, <2>2, TypeParts
<1>2. Counted
  BY DEF Counted
<1>3. DeltaSound /\ Overlap
  BY Resets DEF DeltaSound, Overlap
<1>4. Fetched
  BY DEF Fetched
<1>5. Versions
  BY DEF Versions, Reload
<1>6. ASSUME NEW u \in Users PROVE Keeps(u)
  BY <1>6, Resets DEF Keeps, Current, Adding, Known, Lists
<1>7. QED
  BY <1>1, <1>2, <1>3, <1>4, <1>5, <1>6 DEF IInv

-----------------------------------------------------------------------------
(* The monitor's steps keep the types. *)

\* What a return leaves behind.
LEMMA ReturnTypes ==
    ASSUME Return
    PROVE  mon' = "idle" /\ newN' = 0 /\ newU' = None /\ diff' = NoDiff
BY DEF Return

LEMMA ErrorTypes ==
    ASSUME NEW us \in SUBSET Users, tainted \in SUBSET Users, ReturnOnError(us)
    PROVE  /\ mon' = "idle" /\ newN' = 0 /\ newU' = None /\ diff' = NoDiff
           /\ tainted' = tainted \cup us /\ tainted' \in SUBSET Users
BY DEF ReturnOnError, Return

LEMMA DiffTypes ==
    ASSUME DataOK
    PROVE  /\ diff.deleted \in SUBSET Users /\ diff.added \in SUBSET Users
           /\ diff.modified \in SUBSET Users
           /\ diff.deleted \cup diff.added \cup diff.modified \in SUBSET Users
BY DEF DataOK

LEMMA FaultTypes ==
    ASSUME DataOK, Fault PROVE faults' \in 0..MaxFaults
BY BoundsAssumption DEF DataOK, Fault

LEMMA MonDataStep ==
    ASSUME DataOK, MonStep PROVE DataOK'
<1> USE DEF panelVars, nodeVars, monVars
<1> DEFINE Results == [deleted: SUBSET Users, added: SUBSET Users, modified: SUBSET Users]
<1>0. NoDiff \in Results /\ 0 \in 0..(1 + MaxChanges) /\ "idle" \in MonPlaces
  BY Resets, BoundsAssumption DEF MonPlaces
<1>1. CASE GetNodeInfo
  <2>1. faults' \in 0..MaxFaults
    BY <1>1, FaultTypes DEF GetNodeInfo, DataOK
  <2>2. mon' \in MonPlaces
    BY <1>1 DEF GetNodeInfo, DataOK, MonPlaces
  <2>3. seenConf' \in 1..(1 + MaxChanges) /\ newN' \in 0..(1 + MaxChanges)
    BY <1>1, BoundsAssumption DEF GetNodeInfo, DataOK
  <2>4. newU' = newU /\ diff' = diff /\ tainted' \in SUBSET Users
    BY <1>1 DEF GetNodeInfo, DataOK
  <2>5. QED
    BY <1>1, <2>1, <2>2, <2>3, <2>4 DEF GetNodeInfo, DataOK
<1>2. CASE GetUserList
  <2>1. faults' \in 0..MaxFaults
    BY <1>2, FaultTypes DEF GetUserList, DataOK
  <2>2. CASE Return
    BY <1>2, <2>1, <2>2, <1>0, ReturnTypes DEF GetUserList, DataOK, Return
  <2>3. CASE ~Return
    BY <1>2, <2>1, <2>3 DEF GetUserList, DataOK, MonPlaces
  <2>4. QED
    BY <2>2, <2>3
<1>3. CASE Compare
  <2>1. diff' \in Results
    BY <1>3, <1>0 DEF Compare, CompareUserList, Known
  <2>2. QED
    BY <1>3, <2>1 DEF Compare, DataOK, MonPlaces
<1>4. CASE MonDelUsers
  <2>1. core' \in SUBSET Users
    BY <1>4, MonDelUsersResult DEF DataOK
  <2>2. CASE /\ core' = core \ diff.deleted /\ mon' = "add"
             /\ UNCHANGED <<newN, newU, diff, tainted>>
    BY <1>4, <2>1, <2>2 DEF MonDelUsers, DataOK, MonPlaces
  <2>3. CASE ReturnOnError(diff.deleted \cup diff.added \cup diff.modified)
    <3>1. mon' = "idle" /\ newN' = 0 /\ newU' = None /\ diff' = NoDiff /\ tainted' \in SUBSET Users
      BY <2>3, DiffTypes, ErrorTypes DEF DataOK
    <3>2. QED
      BY <1>4, <1>0, <2>1, <3>1 DEF MonDelUsers, DataOK
  <2>4. QED
    BY <1>4, <2>2, <2>3, MonDelUsersResult
<1>5. CASE MonAddUsers
  <2>1. core' \in SUBSET Users
    BY <1>5, DiffTypes, MonAddUsersResult DEF DataOK
  <2>2. CASE /\ core' = core \cup diff.added /\ mon' = "limiter"
             /\ UNCHANGED <<newN, newU, diff, tainted>>
    BY <1>5, <2>1, <2>2 DEF MonAddUsers, DataOK, MonPlaces
  <2>3. CASE ReturnOnError(diff.deleted \cup diff.added \cup diff.modified)
    <3>1. mon' = "idle" /\ newN' = 0 /\ newU' = None /\ diff' = NoDiff /\ tainted' \in SUBSET Users
      BY <2>3, DiffTypes, ErrorTypes DEF DataOK
    <3>2. QED
      BY <1>5, <1>0, <2>1, <3>1 DEF MonAddUsers, DataOK
  <2>4. QED
    BY <1>5, <2>2, <2>3, MonAddUsersResult
<1>6. CASE MonUpdateUser
  <2>1. lim' \in Lists
    <3>1. CASE newU = None
      BY <1>6, <3>1 DEF MonUpdateUser, DataOK
    <3>2. CASE newU # None
      <4>1. newU \in Lists /\ lim \in Lists
        BY <3>2 DEF DataOK
      <4>2. UpdateUser(diff, newU) \in Lists
        BY <4>1 DEF UpdateUser, Lists
      <4>3. QED
        BY <1>6, <3>2, <4>2 DEF MonUpdateUser
    <3>3. QED
      BY <3>1, <3>2
  <2>2. QED
    BY <1>6, <2>1 DEF MonUpdateUser, DataOK, MonPlaces
<1>7. CASE MonSetList
  <2>1. userList' \in Lists
    BY <1>7 DEF MonSetList, DataOK
  <2>2. CASE Return
    BY <1>7, <1>0, <2>1, <2>2, ReturnTypes DEF MonSetList, DataOK, Return
  <2>3. CASE ~Return
    BY <1>7, <2>1, <2>3 DEF MonSetList, DataOK, MonPlaces
  <2>4. QED
    BY <2>2, <2>3
<1>8. CASE DelNode
  <2>0. inbound' \in 0..(1 + MaxChanges) /\ core' \in SUBSET Users
    BY <1>8, <1>0 DEF DelNode
  <2>1. CASE DropOnError
    <3>1. mon' = "idle" /\ newN' = 0 /\ newU' = None /\ diff' = NoDiff /\ tainted' \in SUBSET Users
      BY <2>1, ErrorTypes DEF DataOK, DropOnError
    <3>2. QED
      BY <1>8, <1>0, <2>0, <3>1 DEF DelNode, DataOK
  <2>2. CASE ~DropOnError
    BY <1>8, <2>0, <2>2 DEF DelNode, DataOK, MonPlaces
  <2>3. QED
    BY <2>1, <2>2
<1>9. CASE RulesAndCert
  <2>1. CASE mon' = "rnode" /\ UNCHANGED <<newN, newU, diff, faults, tainted, dropped>>
    BY <1>9, <2>1 DEF RulesAndCert, DataOK, MonPlaces
  <2>2. CASE Fault /\ DropOnError
    <3>1. mon' = "idle" /\ newN' = 0 /\ newU' = None /\ diff' = NoDiff /\ tainted' \in SUBSET Users
      BY <2>2, ErrorTypes DEF DataOK, DropOnError
    <3>2. QED
      BY <1>9, <1>0, <2>2, <3>1, FaultTypes DEF RulesAndCert, DataOK
  <2>3. QED
    BY <1>9, <2>1, <2>2 DEF RulesAndCert
<1>10. CASE AddNode
  <2>1. CASE /\ inbound' = newN
             /\ mon' = "rusers" /\ UNCHANGED <<newN, newU, diff, faults, tainted>>
    BY <1>10, <2>1 DEF AddNode, DataOK, MonPlaces
  <2>2. CASE Fault /\ ReturnOnError(Users) /\ inbound' \in {inbound, newN}
    <3>1. mon' = "idle" /\ newN' = 0 /\ newU' = None /\ diff' = NoDiff /\ tainted' \in SUBSET Users
      BY <2>2, ErrorTypes DEF DataOK
    <3>2. QED
      BY <1>10, <1>0, <2>2, <3>1, FaultTypes DEF AddNode, DataOK
  <2>3. QED
    BY <1>10, <2>1, <2>2 DEF AddNode, DropOnError
<1>11. CASE ReloadUsers
  <2>1. core' \in SUBSET Users
    BY <1>11, ReloadUsersResult DEF DataOK, Known
  <2>2. mon' = "idle" /\ newN' = 0 /\ newU' = None /\ diff' = NoDiff /\ tainted' \in SUBSET Users
    <3>1. CASE Return /\ UNCHANGED tainted
      BY <3>1, ReturnTypes DEF Return, DataOK
    <3>2. CASE ReturnOnError(Users)
      BY <3>2, ErrorTypes DEF DataOK
    <3>3. QED
      BY <1>11, <3>1, <3>2, ReloadUsersResult
  <2>3. QED
    BY <1>11, <1>0, <2>1, <2>2 DEF ReloadUsers, DataOK
<1>12. QED
  BY <1>1, <1>2, <1>3, <1>4, <1>5, <1>6, <1>7, <1>8, <1>9, <1>10, <1>11 DEF MonStep

\* The delta the read loop takes.
LEMMA HeadTypes ==
    ASSUME DataOK, inbox # <<>>
    PROVE  /\ Head(inbox) \in [action: Deltas, user: Users, limit: Limits \cup {None}]
           /\ Head(inbox) = inbox[1] /\ 1 \in 1..Len(inbox)
           /\ Tail(inbox) \in Seq([action: Deltas, user: Users, limit: Limits \cup {None}])
           /\ Len(Tail(inbox)) = Len(inbox) - 1
           /\ \A i \in 1..Len(Tail(inbox)) : Tail(inbox)[i] = inbox[i + 1]
<1> DEFINE D == [action: Deltas, user: Users, limit: Limits \cup {None}]
<1>1. inbox \in Seq(D)
  BY DEF DataOK
<1> HIDE DEF D
<1>2. Len(inbox) \in Nat /\ Len(inbox) # 0
  BY <1>1
<1>3. Head(inbox) = inbox[1] /\ 1 \in 1..Len(inbox) /\ Head(inbox) \in D
  BY <1>1, <1>2
<1>4. Tail(inbox) \in Seq(D) /\ Len(Tail(inbox)) = Len(inbox) - 1
  BY <1>1, <1>2
<1>5. \A i \in 1..Len(Tail(inbox)) : Tail(inbox)[i] = inbox[i + 1]
  BY <1>1, <1>2
<1>6. QED
  BY <1>3, <1>4, <1>5 DEF D

\* ws is a record of its three fields.
LEMMA WsFields ==
    ASSUME DataOK
    PROVE  /\ ws.place \in WsPlaces /\ ws.user \in Users \cup {None} /\ ws.limit \in Limits \cup {None}
           /\ \A p : LET w == [ws EXCEPT !.place = p]
                     IN  /\ w.place = p /\ w.user = ws.user /\ w.limit = ws.limit
                         /\ p \in WsPlaces =>
                              w \in [place: WsPlaces, user: Users \cup {None},
                                     limit: Limits \cup {None}]
<1>1. PICK q \in WsPlaces, u \in Users \cup {None}, l \in Limits \cup {None} :
         ws = [place |-> q, user |-> u, limit |-> l]
  BY DEF DataOK
<1>2. \A p : [ws EXCEPT !.place = p] = [place |-> p, user |-> u, limit |-> l]
  BY <1>1
<1>3. QED
  BY <1>1, <1>2

LEMMA WsDataStep ==
    ASSUME DataOK, DeltaSound, WsStep PROVE DataOK'
<1> USE DEF panelVars, nodeVars, monVars
<1>1. CASE WsReceive
  <2> DEFINE d == Head(inbox)
  <2>0. /\ d \in [action: Deltas, user: Users, limit: Limits \cup {None}]
        /\ inbox' \in Seq([action: Deltas, user: Users, limit: Limits \cup {None}])
    BY <1>1, HeadTypes DEF WsReceive
  <2> HIDE DEF d
  <2>1. CASE WsRemove(d)
    <3>1. /\ ws' \in [place: WsPlaces, user: Users \cup {None}, limit: Limits \cup {None}]
          /\ tainted' \in SUBSET Users
      BY <2>0, <2>1, Resets DEF WsRemove, DataOK, WsPlaces
    <3>2. QED
      BY <1>1, <2>0, <2>1, <3>1 DEF WsReceive, WsRemove, DataOK
  <2>2. CASE WsAdd(d)
    <3>1. ws' \in [place: WsPlaces, user: Users \cup {None}, limit: Limits \cup {None}]
      BY <2>0, <2>2, Resets DEF WsAdd, WsPlaces
    <3>2. tainted' \in SUBSET Users /\ userList' \in Lists
      BY <2>0, <2>2 DEF WsAdd, DataOK, Lists
    <3>3. QED
      BY <1>1, <2>0, <3>1, <3>2 DEF WsReceive, DataOK
  <2>3. QED
    BY <1>1, <2>1, <2>2 DEF WsReceive, d
<1>2. CASE WsDelUsers
  <2>1. core' \in SUBSET Users
    BY <1>2, WsDelUsersResult DEF DataOK
  <2>2. ws' \in [place: WsPlaces, user: Users \cup {None}, limit: Limits \cup {None}]
    BY <1>2, WsDelUsersResult, WsFields, Resets DEF WsPlaces
  <2>3. QED
    BY <1>2, <2>1, <2>2 DEF WsDelUsers, DataOK
<1>3. CASE WsAddUsers
  <2>0. ws.user \in Users
    BY <1>3 DEF WsAddUsers, DeltaSound
  <2>1. core' \in SUBSET Users /\ tainted' \in SUBSET Users
    BY <1>3, <2>0, WsAddUsersResult DEF DataOK
  <2>2. ws' \in [place: WsPlaces, user: Users \cup {None}, limit: Limits \cup {None}]
    BY <1>3, WsAddUsersResult, WsFields, Resets DEF WsPlaces
  <2>3. QED
    BY <1>3, <2>1, <2>2 DEF WsAddUsers, DataOK
<1>4. CASE WsUpdateUser
  <2>1. lim' \in Lists
    BY <1>4, WsFields DEF WsUpdateUser, DataOK, Lists
  <2>2. QED
    BY <1>4, <2>1, Resets DEF WsUpdateUser, DataOK
<1>5. QED
  BY <1>1, <1>2, <1>3, <1>4 DEF WsStep

LEMMA PanelDataStep ==
    ASSUME DataOK, Counted, PanelStep PROVE DataOK'
<1> USE DEF panelVars, nodeVars, monVars
<1>1. ASSUME NEW u \in Users, NEW l \in Limits \cup {None}, PanelSetUser(u, l)
      PROVE  DataOK'
  <2>1. panelUsers' \in Lists /\ tainted' \in SUBSET Users /\ changes' \in 0..MaxChanges
    BY <1>1, BoundsAssumption DEF PanelSetUser, DataOK, Lists
  <2>2. inbox' \in Seq([action: Deltas, user: Users, limit: Limits \cup {None}])
    <3> DEFINE d == [action |-> IF l = None THEN "remove" ELSE "add", user |-> u, limit |-> l]
    <3>1. CASE UNCHANGED inbox
      BY <3>1 DEF DataOK
    <3>2. CASE d.action \in Deltas /\ inbox' = Append(inbox, d)
      <4>1. d \in [action: Deltas, user: Users, limit: Limits \cup {None}]
        BY <3>2, <1>1
      <4>2. QED
        BY <3>2, <4>1 DEF DataOK
    <3>3. QED
      BY <1>1, <3>1, <3>2 DEF PanelSetUser
  <2>3. QED
    BY <1>1, <2>1, <2>2 DEF PanelSetUser, DataOK
<1>2. CASE PanelSetConf
  BY <1>2, BoundsAssumption DEF PanelSetConf, DataOK, Counted
<1>3. QED
  BY <1>1, <1>2 DEF PanelStep

LEMMA TypeStep ==
    ASSUME TypeOK, Counted, DeltaSound, [Next]_vars PROVE TypeOK'
<1>1. DataOK'
  <2>1. CASE Next
    BY <2>1, TypeParts, MonDataStep, WsDataStep, PanelDataStep DEF Next
  <2>2. CASE UNCHANGED vars
    BY <2>2, TypeParts DEF vars, DataOK
  <2>3. QED
    BY <2>1, <2>2
<1>2. dropped' \in BOOLEAN
  BY TypeParts, FlagStep
<1>3. QED
  BY <1>1, <1>2 DEF TypeOK, DataOK

-----------------------------------------------------------------------------
(* The parts of the invariant that concern no single user. *)

LEMMA CountedStep ==
    ASSUME DataOK, Counted, [Next]_vars PROVE Counted'
<1> USE DEF panelVars, nodeVars, monVars
<1>1. CASE MonStep
  BY <1>1 DEF MonStep, GetNodeInfo, GetUserList, Compare, MonDelUsers, MonAddUsers, MonUpdateUser,
     MonSetList, DelNode, RulesAndCert, AddNode, ReloadUsers, Counted
<1>2. CASE WsStep
  BY <1>2 DEF WsStep, WsReceive, WsDelUsers, WsAddUsers, WsUpdateUser, Counted
<1>3. CASE PanelStep
  <2>1. panelConf \in Int /\ changes \in Int
    BY BoundsAssumption DEF DataOK
  <2>2. ASSUME NEW u, NEW l, PanelSetUser(u, l) PROVE Counted'
    BY <2>1, <2>2 DEF PanelSetUser, Counted
  <2>3. CASE PanelSetConf
    BY <2>1, <2>3 DEF PanelSetConf, Counted
  <2>4. QED
    BY <1>3, <2>2, <2>3 DEF PanelStep
<1>4. CASE UNCHANGED vars
  BY <1>4 DEF vars, Counted
<1>5. QED
  BY <1>1, <1>2, <1>3, <1>4 DEF Next

\* The monitor touches no delta.
LEMMA MonLeavesDeltas ==
    ASSUME MonStep PROVE UNCHANGED <<ws, inbox, panelUsers>>
BY DEF MonStep, GetNodeInfo, GetUserList, Compare, MonDelUsers, MonAddUsers, MonUpdateUser,
   MonSetList, DelNode, RulesAndCert, AddNode, ReloadUsers, panelVars

LEMMA DeltaStep ==
    ASSUME DataOK, DeltaSound, [Next]_vars PROVE DeltaSound'
<1>1. CASE MonStep
  BY <1>1, MonLeavesDeltas DEF DeltaSound
<1>2. CASE WsReceive
  <2> DEFINE d == Head(inbox)
  <2>0. /\ d \in [action: Deltas, user: Users, limit: Limits \cup {None}]
        /\ d.action = "add" => d.limit # None
        /\ \A i \in 1..Len(inbox') : inbox'[i].action = "add" => inbox'[i].limit # None
    <3>1. inbox' = Tail(inbox) /\ inbox # <<>> /\ Len(inbox) \in Nat
      BY <1>2 DEF WsReceive, DataOK
    <3>2. \A i \in 1..(Len(inbox) - 1) : i + 1 \in 1..Len(inbox)
      BY <3>1
    <3>3. QED
      BY <3>1, <3>2, HeadTypes DEF DeltaSound
  <2> HIDE DEF d
  <2>1. CASE WsRemove(d)
    BY <2>0, <2>1, Resets DEF WsRemove, DeltaSound
  <2>2. CASE WsAdd(d)
    BY <2>0, <2>2, Resets DEF WsAdd, DeltaSound
  <2>3. QED
    BY <1>2, <2>1, <2>2 DEF WsReceive, d
<1>3. CASE WsDelUsers
  <2>1. inbox' = inbox /\ ws.place = "del" /\ ws.user \in Users
    BY <1>3 DEF WsDelUsers, DeltaSound
  <2>2. QED
    BY <1>3, <2>1, WsDelUsersResult, WsFields, Resets DEF DeltaSound
<1>4. CASE WsAddUsers
  <2>1. inbox' = inbox /\ ws.place = "add" /\ ws.user \in Users /\ ws.limit # None
    BY <1>4 DEF WsAddUsers, DeltaSound
  <2>2. QED
    BY <1>4, <2>1, WsAddUsersResult, WsFields, Resets DEF DeltaSound
<1>5. CASE WsUpdateUser
  BY <1>5, Resets DEF WsUpdateUser, DeltaSound
<1>6. ASSUME NEW u \in Users, NEW l \in Limits \cup {None}, PanelSetUser(u, l)
      PROVE  DeltaSound'
  <2> DEFINE d == [action |-> IF l = None THEN "remove" ELSE "add", user |-> u, limit |-> l]
  <2>1. ws' = ws
    BY <1>6 DEF PanelSetUser
  <2>2. \A i \in 1..Len(inbox') : inbox'[i].action = "add" => inbox'[i].limit # None
    <3>1. CASE UNCHANGED inbox
      BY <3>1 DEF DeltaSound
    <3>2. CASE inbox' = Append(inbox, d)
      <4>1. d.action = "add" => d.limit # None
        OBVIOUS
      <4>2. /\ Len(inbox') = Len(inbox) + 1 /\ Len(inbox) \in Nat /\ inbox'[Len(inbox) + 1] = d
            /\ \A i \in 1..Len(inbox) : inbox'[i] = inbox[i]
        BY <3>2 DEF DataOK
      <4> HIDE DEF d
      <4>3. QED
        BY <4>1, <4>2 DEF DeltaSound
    <3>3. QED
      BY <1>6, <3>1, <3>2 DEF PanelSetUser
  <2>3. QED
    BY <2>1, <2>2 DEF DeltaSound
<1>7. CASE PanelSetConf
  BY <1>7 DEF PanelSetConf, DeltaSound
<1>8. CASE UNCHANGED vars
  BY <1>8 DEF vars, DeltaSound
<1>9. QED
  BY <1>1, <1>2, <1>3, <1>4, <1>5, <1>6, <1>7, <1>8 DEF Next, WsStep, PanelStep


\* History is only added to.
LEMMA TaintedGrows ==
    ASSUME DataOK, [Next]_vars PROVE tainted \subseteq tainted'
<1> USE DEF panelVars, nodeVars, monVars
<1>1. CASE MonStep
  BY <1>1, MonDelUsersResult, MonAddUsersResult, ReloadUsersResult
  DEF MonStep, GetNodeInfo, GetUserList, Compare, MonUpdateUser, MonSetList, DelNode, RulesAndCert,
      AddNode, ReturnOnError, DropOnError, DataOK
<1>2. CASE WsStep
  BY <1>2, WsAddUsersResult
  DEF WsStep, WsReceive, WsRemove, WsAdd, WsDelUsers, WsUpdateUser
<1>3. CASE PanelStep
  BY <1>3 DEF PanelStep, PanelSetUser, PanelSetConf
<1>4. CASE UNCHANGED vars
  BY <1>4 DEF vars
<1>5. QED
  BY <1>1, <1>2, <1>3, <1>4 DEF Next

LEMMA OverlapStep ==
    ASSUME DataOK, DeltaSound, Overlap, [Next]_vars PROVE Overlap'
<1>0. tainted \subseteq tainted'
  BY TaintedGrows
<1>1. CASE MonStep
  <2>1. ws' = ws
    BY <1>1, MonLeavesDeltas
  <2>2. CASE mon = "idle"
    <3>1. GetNodeInfo
      BY <1>1, <2>2 DEF MonStep, GetUserList, Compare, MonDelUsers, MonAddUsers, MonUpdateUser,
         MonSetList, DelNode, RulesAndCert, AddNode, ReloadUsers
    <3>2. QED
      BY <2>1, <3>1 DEF GetNodeInfo, Overlap, DeltaSound
  <2>3. CASE mon # "idle"
    BY <1>0, <2>1, <2>3 DEF Overlap
  <2>4. QED
    BY <2>2, <2>3
<1>2. CASE WsReceive
  <2> DEFINE d == Head(inbox)
  <2>0. d.user \in Users /\ mon' = mon
    BY <1>2, HeadTypes DEF WsReceive, monVars
  <2> HIDE DEF d
  <2>1. CASE WsRemove(d)
    BY <2>0, <2>1, Resets DEF WsRemove, Overlap
  <2>2. CASE WsAdd(d)
    BY <2>0, <2>2, Resets DEF WsAdd, Overlap
  <2>3. QED
    BY <1>2, <2>1, <2>2 DEF WsReceive, d
<1>3. CASE WsDelUsers
  <2>1. mon' = mon /\ tainted' = tainted /\ ws.place = "del"
    BY <1>3 DEF WsDelUsers, monVars
  <2>2. QED
    BY <1>3, <2>1, WsDelUsersResult, WsFields, Resets DEF Overlap
<1>4. CASE WsAddUsers
  <2>1. mon' = mon /\ ws.place = "add"
    BY <1>4 DEF WsAddUsers, monVars
  <2>2. QED
    <3>1. CASE ws' = [ws EXCEPT !.place = "addlim"] /\ UNCHANGED tainted
      BY <2>1, <3>1, WsFields DEF Overlap
    <3>2. CASE ws' = NoDelta
      BY <3>2, Resets DEF Overlap
    <3>3. QED
      BY <1>4, <3>1, <3>2, WsAddUsersResult
<1>5. CASE WsUpdateUser
  BY <1>5, Resets DEF WsUpdateUser, Overlap
<1>6. CASE PanelStep
  BY <1>0, <1>6 DEF PanelStep, PanelSetUser, PanelSetConf, monVars, Overlap
<1>7. CASE UNCHANGED vars
  BY <1>7 DEF vars, Overlap
<1>8. QED
  BY <1>1, <1>2, <1>3, <1>4, <1>5, <1>6, <1>7 DEF Next, WsStep

\* The read loop and the panel leave the poll alone.
LEMMA OthersLeavePoll ==
    ASSUME WsStep \/ PanelStep \/ UNCHANGED vars
    PROVE  UNCHANGED <<mon, newN, newU, diff, etag, seenConf, inbound, dropped>>
BY DEF WsStep, WsReceive, WsDelUsers, WsAddUsers, WsUpdateUser, PanelStep, PanelSetUser, PanelSetConf,
   monVars, nodeVars, vars

LEMMA FetchedStep ==
    ASSUME DataOK, Fetched, [Next]_vars PROVE Fetched'
<1> USE DEF panelVars, nodeVars, monVars
<1>1. ASSUME Return PROVE Fetched'
  BY <1>1 DEF Return, Fetched
<1>2. ASSUME NEW us, ReturnOnError(us) PROVE Fetched'
  BY <1>1, <1>2 DEF ReturnOnError
<1>3. CASE GetNodeInfo
  BY <1>3 DEF GetNodeInfo, Fetched
<1>4. CASE GetUserList
  BY <1>1, <1>4 DEF GetUserList, Fetched
<1>5. CASE Compare \/ MonUpdateUser
  BY <1>5 DEF Compare, MonUpdateUser, Fetched
<1>6. CASE MonDelUsers
  BY <1>2, <1>6, MonDelUsersResult DEF MonDelUsers, Fetched
<1>7. CASE MonAddUsers
  BY <1>2, <1>7, MonAddUsersResult DEF MonAddUsers, Fetched
<1>8. CASE MonSetList
  BY <1>1, <1>8 DEF MonSetList, Fetched
<1>9. CASE DelNode
  BY <1>2, <1>9 DEF DelNode, DropOnError, Fetched
<1>10. CASE RulesAndCert
  BY <1>2, <1>10 DEF RulesAndCert, DropOnError, Fetched
<1>11. CASE AddNode
  BY <1>2, <1>11 DEF AddNode, DropOnError, Fetched
<1>12. CASE ReloadUsers
  BY <1>1, <1>2, <1>12, ReloadUsersResult
<1>13. CASE WsStep \/ PanelStep \/ UNCHANGED vars
  BY <1>13, OthersLeavePoll DEF Fetched
<1>14. QED
  BY <1>3, <1>4, <1>5, <1>6, <1>7, <1>8, <1>9, <1>10, <1>11, <1>12, <1>13 DEF Next, MonStep

LEMMA VersionsStep ==
    ASSUME TypeOK, Versions, [Next]_vars PROVE Versions'
<1> USE DEF panelVars, nodeVars, monVars
<1>0. dropped \in BOOLEAN /\ seenConf # 0
  BY BoundsAssumption DEF TypeOK
\* A return leaves no version behind when the inbound is the one seen, or a step failed.
<1>1. ASSUME Return, inbound' = seenConf' \/ dropped' PROVE Versions'
  BY <1>1 DEF Return, Versions, Reload
<1>2. CASE GetNodeInfo
  <2>0. newN = 0 /\ mon = "idle" /\ (inbound = seenConf \/ dropped) /\ inbound' = inbound
    BY <1>2 DEF GetNodeInfo, Versions, Reload
  <2>1. CASE /\ mon' = "users"
             /\ newN' = IF panelConf # seenConf THEN panelConf ELSE 0
             /\ seenConf' = panelConf
             /\ UNCHANGED <<newU, diff, faults, dropped>>
    <3>1. newN' = 0 => inbound' = seenConf' \/ dropped'
      <4>1. CASE panelConf # seenConf
        BY <1>0, <2>1, <4>1 DEF TypeOK
      <4>2. CASE panelConf = seenConf
        BY <2>0, <2>1, <4>2, Zenon
      <4>3. QED
        BY <4>1, <4>2
    <3>2. QED
      BY <2>1, <3>1 DEF Versions, Reload
  <2>2. CASE UNCHANGED <<seenConf, dropped, monVars>>
    BY <2>0, <2>2 DEF Versions, Reload
  <2>3. CASE seenConf' = panelConf /\ dropped' = TRUE /\ UNCHANGED monVars
    BY <2>0, <2>3 DEF Versions, Reload
  <2>4. QED
    BY <1>2, <2>1, <2>2, <2>3 DEF GetNodeInfo
<1>3. CASE GetUserList
  <2>1. CASE Return /\ dropped' = (dropped \/ newN # 0)
    <3>1. inbound' = inbound /\ seenConf' = seenConf
      BY <1>3 DEF GetUserList
    <3>2. inbound' = seenConf' \/ dropped'
      <4>1. CASE newN = 0
        BY <1>0, <2>1, <3>1, <4>1 DEF Versions
      <4>2. CASE newN # 0
        BY <2>1, <4>2
      <4>3. QED
        BY <4>1, <4>2
    <3>3. QED
      BY <1>1, <2>1, <3>2
  <2>2. CASE /\ mon' = IF newN # 0 THEN "rcompare"
                    ELSE IF newU' # None THEN "compare" ELSE "idle"
             /\ UNCHANGED <<newN, diff, faults, dropped>>
    <3>1. mon = "users" /\ UNCHANGED <<inbound, seenConf, newN, dropped>>
      BY <1>3, <2>2 DEF GetUserList
    <3>2. /\ newN # 0 => mon' = "rcompare"
          /\ newN = 0 => mon' \in {"compare", "idle"}
      BY <2>2
    <3>3. newN' = 0 => inbound' = seenConf' \/ dropped'
      BY <3>1, Zenon DEF Versions
    <3>4. newN' # 0 => newN' = seenConf'
      BY <3>1 DEF Versions
    <3>5. QED
      BY <3>1, <3>2, <3>3, <3>4 DEF Versions, Reload
  <2>3. QED
    BY <1>3, <2>1, <2>2 DEF GetUserList
<1>4. CASE Compare \/ MonUpdateUser
  BY <1>4 DEF Compare, MonUpdateUser, Versions, Reload
\* Outside a reload the inbound is not touched.
<1>5. CASE MonDelUsers
  <2>1. /\ newN = 0 /\ UNCHANGED <<inbound, seenConf, dropped>>
    BY <1>5 DEF MonDelUsers, Versions, Reload
  <2>2. QED
    BY <1>1, <1>5, <2>1, MonDelUsersResult DEF ReturnOnError, Versions, Reload
<1>6. CASE MonAddUsers
  <2>1. /\ newN = 0 /\ UNCHANGED <<inbound, seenConf, dropped>>
    BY <1>6 DEF MonAddUsers, Versions, Reload
  <2>2. QED
    BY <1>1, <1>6, <2>1, MonAddUsersResult DEF ReturnOnError, Versions, Reload
<1>7. CASE MonSetList
  <2>1. UNCHANGED <<inbound, seenConf, dropped>>
    BY <1>7 DEF MonSetList
  <2>2. CASE mon = "list"
    <3>1. newN = 0 /\ Return
      BY <1>7, <2>2 DEF MonSetList, Versions, Reload
    <3>2. QED
      BY <1>1, <2>1, <3>1 DEF Versions
  <2>3. CASE mon = "rlist"
    BY <1>7, <2>1, <2>3 DEF MonSetList, Versions, Reload
  <2>4. QED
    BY <1>7, <2>2, <2>3 DEF MonSetList
<1>8. CASE DelNode
  <2>1. CASE inbound # 0
    BY <1>8, <2>1 DEF DelNode, Versions, Reload
  <2>2. CASE inbound = 0
    BY <1>1, <1>8, <2>2 DEF DelNode, DropOnError, ReturnOnError
  <2>3. QED
    BY <2>1, <2>2
<1>9. CASE RulesAndCert
  <2>1. CASE DropOnError
    BY <1>1, <2>1 DEF DropOnError, ReturnOnError
  <2>2. CASE mon' = "rnode" /\ UNCHANGED <<newN, newU, diff, faults, tainted, dropped>>
    BY <1>9, <2>2 DEF RulesAndCert, Versions, Reload
  <2>3. QED
    BY <1>9, <2>1, <2>2 DEF RulesAndCert
<1>10. CASE AddNode
  <2>1. newN # 0 /\ newN = seenConf /\ seenConf' = seenConf
    BY <1>10 DEF AddNode, Versions, Reload
  <2>2. CASE DropOnError
    BY <1>1, <2>2 DEF DropOnError, ReturnOnError
  <2>3. CASE ReturnOnError(Users) /\ inbound' = newN
    BY <1>1, <2>1, <2>3 DEF ReturnOnError
  <2>4. CASE inbound' = newN /\ mon' = "rusers" /\ newN' = newN
    BY <2>1, <2>4 DEF Versions, Reload
  <2>5. QED
    BY <1>10, <2>2, <2>3, <2>4 DEF AddNode
<1>11. CASE ReloadUsers
  <2>1. inbound' = seenConf'
    BY <1>11 DEF ReloadUsers, Versions, Reload
  <2>2. QED
    BY <1>1, <1>11, <2>1, ReloadUsersResult DEF ReturnOnError
<1>12. CASE WsStep \/ PanelStep \/ UNCHANGED vars
  BY <1>12, OthersLeavePoll DEF Versions, Reload
<1>13. QED
  BY <1>2, <1>3, <1>4, <1>5, <1>6, <1>7, <1>8, <1>9, <1>10, <1>11, <1>12 DEF Next, MonStep

-----------------------------------------------------------------------------
(* Where an untainted user stands. *)

\* While a poll runs, a delta concerns a tainted user.
LEMMA NotAdding ==
    ASSUME Overlap, mon # "idle", NEW u \in Users \ tainted PROVE ~Adding(u)
BY DEF Overlap, Adding

\* An early return finds the user as it was, when the difference does not concern it.
LEMMA KeepsMonDelUsers ==
    ASSUME DataOK, Overlap, Fetched, MonDelUsers, NEW u \in Users \ tainted', u \notin tainted, Keeps(u)
    PROVE  Keeps(u)'
<1> USE DEF Keeps, Current, Adding, Target, DiffFits
<1>0. /\ ~Adding(u) /\ mon = "del" /\ newU # None /\ etag = newU
      /\ UNCHANGED <<panelUsers, etag, userList, lim, ws>>
  BY NotAdding DEF MonDelUsers, nodeVars, panelVars, Fetched
<1>1. CASE /\ core' = core \ diff.deleted /\ mon' = "add"
           /\ UNCHANGED <<newN, newU, diff, tainted>>
  BY <1>0, <1>1
<1>2. CASE ReturnOnError(diff.deleted \cup diff.added \cup diff.modified)
  <2>1. u \notin diff.deleted /\ u \notin diff.added /\ u \notin diff.modified
    BY <1>2 DEF ReturnOnError
  <2>2. userList[u] = etag[u] /\ (u \in core' <=> u \in core)
    BY <1>0, <2>1, MonDelUsersResult
  <2>3. mon' = "idle"
    BY <1>2 DEF ReturnOnError, Return
  <2>4. QED
    BY <1>0, <2>2, <2>3
<1>3. QED
  BY <1>1, <1>2, MonDelUsersResult

LEMMA KeepsMonAddUsers ==
    ASSUME DataOK, Overlap, Fetched, MonAddUsers, NEW u \in Users \ tainted', u \notin tainted, Keeps(u)
    PROVE  Keeps(u)'
<1> USE DEF Keeps, Current, Adding, Target, DiffFits
<1>0. /\ ~Adding(u) /\ mon = "add" /\ newU # None /\ etag = newU
      /\ UNCHANGED <<panelUsers, etag, userList, lim, ws>>
  BY NotAdding DEF MonAddUsers, nodeVars, panelVars, Fetched
<1>1. CASE /\ core' = core \cup diff.added /\ mon' = "limiter"
           /\ UNCHANGED <<newN, newU, diff, tainted>>
  BY <1>0, <1>1
<1>2. CASE ReturnOnError(diff.deleted \cup diff.added \cup diff.modified)
  <2>1. u \notin diff.deleted /\ u \notin diff.added /\ u \notin diff.modified
    BY <1>2 DEF ReturnOnError
  <2>2. userList[u] = etag[u] /\ (u \in core' <=> u \in core)
    BY <1>0, <2>1, MonAddUsersResult
  <2>3. mon' = "idle"
    BY <1>2 DEF ReturnOnError, Return
  <2>4. QED
    BY <1>0, <2>2, <2>3
<1>3. QED
  BY <1>1, <1>2, MonAddUsersResult

LEMMA KeepsMon ==
    ASSUME DataOK, Overlap, Fetched, MonStep, NEW u \in Users \ tainted', u \notin tainted, Keeps(u)
    PROVE  Keeps(u)'
<1> USE DEF panelVars, nodeVars, monVars
<1>1. CASE GetNodeInfo
  <2>1. ~Adding(u) /\ ~Adding(u)'
    BY <1>1 DEF GetNodeInfo, Adding
  <2>2. mon = "idle" /\ mon' \in {"idle", "users"} /\ UNCHANGED <<panelUsers, etag, userList, lim, core>>
    BY <1>1 DEF GetNodeInfo
  <2>3. QED
    BY <2>1, <2>2 DEF Keeps, Current
<1>2. CASE GetUserList
  <2>1. ~Adding(u) /\ ~Adding(u)'
    BY <1>2, NotAdding DEF GetUserList, Adding
  <2>2. mon = "users" /\ UNCHANGED <<panelUsers, userList, lim, core>>
    BY <1>2 DEF GetUserList
  <2>3. CASE Return /\ UNCHANGED etag
    BY <2>1, <2>2, <2>3 DEF Keeps, Current, Return
  <2>4. CASE /\ etag' = panelUsers
             /\ newU' = IF panelUsers # etag THEN panelUsers ELSE None
             /\ mon' = IF newN # 0 THEN "rcompare"
                    ELSE IF newU' # None THEN "compare" ELSE "idle"
    <3>1. panelUsers # None
      BY NoneAssumption DEF DataOK, Lists
    <3>2. newU' = None => userList[u] = etag'[u]
      BY <2>2, <2>4, <3>1 DEF Keeps, Current
    <3>3. QED
      BY <2>1, <2>2, <2>4, <3>2 DEF Keeps, Current
  <2>5. QED
    BY <1>2, <2>3, <2>4 DEF GetUserList
<1>3. CASE Compare
  <2>1. ~Adding(u) /\ ~Adding(u)'
    BY <1>3, NotAdding DEF Compare, Adding
  <2>2. DiffFits(u)'
    BY <1>3 DEF Compare, DiffFits, Target, CompareUserList, NoDiff, Known
  <2>3. QED
    BY <1>3, <2>1, <2>2 DEF Compare, Keeps
<1>4. CASE MonDelUsers
  BY <1>4, KeepsMonDelUsers
<1>5. CASE MonAddUsers
  BY <1>5, KeepsMonAddUsers
<1>6. CASE MonUpdateUser
  <2>1. ~Adding(u) /\ ~Adding(u)'
    BY <1>6, NotAdding DEF MonUpdateUser, Adding
  <2>2. lim[u] = userList[u] /\ DiffFits(u)
    BY <1>6 DEF MonUpdateUser, Keeps
  <2>3. lim'[u] = Target(u)
    <3>1. CASE newU = None
      BY <1>6, <2>2, <3>1 DEF MonUpdateUser, Target
    <3>2. CASE newU # None
      BY <1>6, <2>2, <3>2 DEF MonUpdateUser, UpdateUser, DiffFits, Target
    <3>3. QED
      BY <3>1, <3>2
  <2>4. QED
    BY <1>6, <2>1, <2>3 DEF MonUpdateUser, Keeps, Target
<1>7. CASE MonSetList
  <2>1. ~Adding(u) /\ ~Adding(u)'
    BY <1>7, NotAdding DEF MonSetList, Adding
  <2>2. userList'[u] = Target(u) /\ UNCHANGED <<panelUsers, etag, lim, core>>
    BY <1>7 DEF MonSetList, Target
  <2>3. CASE mon = "list"
    BY <1>7, <2>1, <2>2, <2>3 DEF MonSetList, Return, Keeps, Current, Fetched, Target
  <2>4. CASE mon = "rlist"
    BY <1>7, <2>1, <2>2, <2>4 DEF MonSetList, Keeps, Fetched, Target
  <2>5. QED
    BY <1>7, <2>3, <2>4 DEF MonSetList
<1>8. CASE DelNode
  <2>1. inbound # 0
    BY <1>8 DEF DelNode, DropOnError, ReturnOnError
  <2>2. ~Adding(u) /\ ~Adding(u)'
    BY <1>8, NotAdding DEF DelNode, Adding
  <2>3. QED
    BY <1>8, <2>1, <2>2 DEF DelNode, Keeps, DiffFits, Target
<1>9. CASE RulesAndCert
  <2>1. mon' = "rnode" /\ UNCHANGED <<newN, newU, diff, faults, tainted, dropped>>
    BY <1>9 DEF RulesAndCert, DropOnError, ReturnOnError
  <2>2. ~Adding(u) /\ ~Adding(u)'
    BY <1>9, NotAdding DEF RulesAndCert, Adding
  <2>3. QED
    BY <1>9, <2>1, <2>2 DEF RulesAndCert, Keeps
<1>10. CASE AddNode
  <2>1. mon' = "rusers" /\ UNCHANGED <<newN, newU, diff, faults, tainted>>
    BY <1>10 DEF AddNode, DropOnError, ReturnOnError
  <2>2. ~Adding(u) /\ ~Adding(u)'
    BY <1>10, NotAdding DEF AddNode, Adding
  <2>3. QED
    BY <1>10, <2>1, <2>2 DEF AddNode, Keeps
<1>11. CASE ReloadUsers
  <2>1. core' = core \cup Known(userList) /\ Return
    BY <1>11, ReloadUsersResult DEF ReturnOnError
  <2>2. ~Adding(u) /\ ~Adding(u)'
    BY <1>11, NotAdding DEF ReloadUsers, Adding
  <2>3. QED
    BY <1>11, <2>1, <2>2 DEF ReloadUsers, Return, Keeps, Current, Known
<1>12. QED
  BY <1>1, <1>2, <1>3, <1>4, <1>5, <1>6, <1>7, <1>8, <1>9, <1>10, <1>11 DEF MonStep


\* A step that changes neither u's entries nor the poll.
LEMMA KeepsUntouched ==
    ASSUME NEW u, Keeps(u), ~Adding(u), ~Adding(u)',
           UNCHANGED <<mon, newU, diff, etag, panelUsers>>,
           userList'[u] = userList[u], lim'[u] = lim[u], u \in core' <=> u \in core
    PROVE  Keeps(u)'
BY DEF Keeps, Current, DiffFits, Target

LEMMA KeepsWsReceive ==
    ASSUME DataOK, WsReceive, NEW u \in Users \ tainted', u \notin tainted, Keeps(u)
    PROVE  Keeps(u)'
<1> DEFINE d == Head(inbox)
<1>0. /\ d \in [action: Deltas, user: Users, limit: Limits \cup {None}]
      /\ ws.place = "idle" /\ (WsRemove(d) \/ WsAdd(d))
      /\ UNCHANGED <<mon, newU, diff, etag, panelUsers, lim, core>>
  BY HeadTypes DEF WsReceive, panelVars, monVars
<1> HIDE DEF d
<1>1. ~Adding(u)
  BY <1>0 DEF Adding
<1>2. CASE u # d.user \/ userList[d.user] # None \/ WsRemove(d)
  <2>1. ~Adding(u)'
    BY <1>0, <1>2, Resets DEF WsRemove, WsAdd, Adding
  <2>2. userList'[u] = userList[u]
    BY <1>0, <1>2 DEF WsRemove, WsAdd, DataOK, Lists
  <2>3. QED
    BY <1>0, <1>1, <2>1, <2>2, KeepsUntouched
<1>3. CASE u = d.user /\ userList[d.user] = None /\ WsAdd(d)
  <2>1. /\ mon = "idle" /\ panelUsers[u] = d.limit
        /\ ws' = [place |-> "add", user |-> d.user, limit |-> d.limit]
        /\ userList'[u] = d.limit
    BY <1>0, <1>3 DEF WsAdd, DataOK, Lists
  <2>2. lim[u] = None /\ u \notin core
    BY <1>1, <1>3, <2>1 DEF Keeps
  <2>3. QED
    BY <1>0, <1>3, <2>1, <2>2 DEF Keeps, Adding, Current
<1>4. QED
  BY <1>0, <1>2, <1>3

LEMMA KeepsWs ==
    ASSUME DataOK, DeltaSound, Overlap, WsStep, NEW u \in Users \ tainted', u \notin tainted, Keeps(u)
    PROVE  Keeps(u)'
<1> USE DEF panelVars, monVars
<1>1. CASE WsReceive
  BY <1>1, KeepsWsReceive
<1>2. CASE WsDelUsers
  <2>1. /\ ws.place = "del" /\ u # ws.user
        /\ UNCHANGED <<mon, newU, diff, etag, panelUsers, userList, lim>>
    BY <1>2 DEF WsDelUsers, Overlap
  <2>2. (u \in core' <=> u \in core) /\ ~Adding(u) /\ ~Adding(u)'
    BY <1>2, <2>1, WsDelUsersResult, WsFields, Resets DEF Adding
  <2>3. QED
    BY <2>1, <2>2, KeepsUntouched
<1>3. CASE WsAddUsers
  <2>1. ws.place = "add" /\ UNCHANGED <<mon, newU, diff, etag, panelUsers, userList, lim>>
    BY <1>3 DEF WsAddUsers
  <2>2. CASE u = ws.user
    <3>1. core' = core \cup {ws.user} /\ ws' = [ws EXCEPT !.place = "addlim"]
      BY <1>3, <2>2, WsAddUsersResult
    <3>2. ws'.place = "addlim" /\ ws'.user = u /\ ws'.limit = ws.limit
      BY <2>2, <3>1, WsFields
    <3>3. mon = "idle" /\ Adding(u) /\ Adding(u)'
      BY <2>1, <2>2, <3>2 DEF Overlap, Adding
    <3>4. QED
      BY <2>1, <3>1, <3>2, <3>3, <2>2 DEF Keeps, Current
  <2>3. CASE u # ws.user
    <3>1. (u \in core' <=> u \in core) /\ ~Adding(u) /\ ~Adding(u)'
      BY <1>3, <2>3, WsAddUsersResult, WsFields, Resets DEF Adding
    <3>2. QED
      BY <2>1, <3>1, KeepsUntouched
  <2>4. QED
    BY <2>2, <2>3
<1>4. CASE WsUpdateUser
  <2>1. /\ ws.place \in {"dellim", "addlim"} /\ ws' = NoDelta /\ ws.user \in Users
        /\ UNCHANGED <<mon, newU, diff, etag, panelUsers, userList, core>>
    BY <1>4 DEF WsUpdateUser, DeltaSound
  <2>2. ~Adding(u)'
    BY <2>1, Resets DEF Adding
  <2>3. CASE u = ws.user
    <3>1. mon = "idle" /\ ws.place = "addlim" /\ ws.limit # None /\ Adding(u)
      BY <2>1, <2>3 DEF Overlap, Adding, DeltaSound
    <3>2. lim'[u] = ws.limit
      BY <1>4, <2>3 DEF WsUpdateUser, DataOK, Lists
    <3>3. QED
      BY <2>1, <2>2, <3>1, <3>2 DEF Keeps, Current
  <2>4. CASE u # ws.user
    <3>1. lim'[u] = lim[u] /\ ~Adding(u)
      BY <1>4, <2>4 DEF WsUpdateUser, DataOK, Lists, Adding
    <3>2. QED
      BY <2>1, <2>2, <3>1, KeepsUntouched
  <2>5. QED
    BY <2>3, <2>4
<1>5. QED
  BY <1>1, <1>2, <1>3, <1>4 DEF WsStep

\* A change of the panel that the next poll cannot see is tainted.
LEMMA KeepsPanel ==
    ASSUME DataOK, PanelStep, NEW u \in Users \ tainted', u \notin tainted, Keeps(u)
    PROVE  Keeps(u)'
<1> USE DEF panelVars, nodeVars, monVars
<1>1. ASSUME NEW v \in Users, NEW l \in Limits \cup {None}, PanelSetUser(v, l)
      PROVE  Keeps(u)'
  <2>1. UNCHANGED <<mon, newU, diff, etag, userList, lim, core, ws>>
    BY <1>1 DEF PanelSetUser
  <2>2. Current(u) => Current(u)'
    BY <1>1, <2>1 DEF PanelSetUser, Current, DataOK, Lists
  <2>3. QED
    BY <2>1, <2>2 DEF Keeps, Adding, DiffFits, Target
<1>2. CASE PanelSetConf
  BY <1>2 DEF PanelSetConf, Keeps, Current, Adding, DiffFits, Target
<1>3. QED
  BY <1>1, <1>2 DEF PanelStep

LEMMA KeepsStep ==
    ASSUME IInv, [Next]_vars PROVE \A u \in Users \ tainted' : Keeps(u)'
<1> SUFFICES ASSUME NEW u \in Users \ tainted' PROVE Keeps(u)'
  OBVIOUS
<1>1. DataOK /\ DeltaSound /\ Overlap /\ Fetched
  BY TypeParts DEF IInv
<1>2. u \notin tainted
  BY <1>1, TaintedGrows
<1>3. Keeps(u)
  BY <1>2 DEF IInv
<1>4. CASE MonStep
  BY <1>1, <1>2, <1>3, <1>4, KeepsMon
<1>5. CASE WsStep
  BY <1>1, <1>2, <1>3, <1>5, KeepsWs
<1>6. CASE PanelStep
  BY <1>1, <1>2, <1>3, <1>6, KeepsPanel
<1>7. CASE UNCHANGED vars
  BY <1>3, <1>7 DEF vars, Keeps, Current, Adding, DiffFits, Target
<1>8. QED
  BY <1>4, <1>5, <1>6, <1>7 DEF Next

-----------------------------------------------------------------------------
(* The results. *)

LEMMA InvHolds == Spec => []IInv
<1>1. ASSUME IInv, [Next]_vars PROVE IInv'
  <2>1. DataOK
    BY <1>1, TypeParts DEF IInv
  <2>2. TypeOK'
    BY <1>1, TypeStep DEF IInv
  <2>3. Counted' /\ DeltaSound' /\ Overlap' /\ Fetched'
    BY <1>1, <2>1, CountedStep, DeltaStep, OverlapStep, FetchedStep DEF IInv
  <2>4. Versions'
    BY <1>1, VersionsStep DEF IInv
  <2>5. QED
    BY <1>1, <2>2, <2>3, <2>4, KeepsStep DEF IInv
<1>2. QED
  BY InitHolds, <1>1, PTL DEF Spec

\* Every variable keeps its type: the answers of the core and the differences are sets
\* of users, every list has every user, and the counters stay within their bounds.
THEOREM UserSyncTyped == Spec => []TypeOK
<1>1. IInv => TypeOK
  BY DEF IInv
<1>2. QED
  BY <1>1, InvHolds, PTL

\* When no poll and no delta is under way and the panel would answer 304, every user
\* that no failed or overlapping update concerned has in list, inbound and limiter what
\* the panel says: whatever the order of the polls, reloads, deltas and failures before.
THEOREM NothingIsLeftBehind == Spec => []NothingLeftBehind
<1>1. IInv => NothingLeftBehind
  <2> SUFFICES ASSUME IInv, Quiet, etag = panelUsers, NEW u \in Users \ tainted
               PROVE  Follows(u)
    BY DEF NothingLeftBehind
  <2>1. Keeps(u) /\ ~Adding(u)
    BY DEF IInv, Quiet, Adding
  <2>2. QED
    BY <2>1 DEF Keeps, Current, Quiet, Follows
<1>2. QED
  BY <1>1, InvHolds, PTL

\* The limiter knows every untainted user the inbound accepts, except between the two
\* calls of one goroutine: no other interleaving rejects a user of the node.
THEOREM LimiterKnowsUsers == Spec => []LimiterKnows
<1>1. IInv => LimiterKnows
  <2> SUFFICES ASSUME IInv, NEW u \in core \ tainted
               PROVE  \/ lim[u] # None
                      \/ mon = "limiter" /\ u \in diff.added
                      \/ ws.place = "addlim" /\ ws.user = u
    BY DEF LimiterKnows
  <2>1. u \in Users /\ Keeps(u) /\ mon \in MonPlaces /\ Overlap
    BY DEF IInv, TypeOK
  <2>2. CASE Adding(u)
    BY <2>1, <2>2 DEF Keeps, Adding
  <2>3. CASE ~Adding(u)
    BY <2>1, <2>3 DEF Keeps, MonPlaces, DiffFits
  <2>4. QED
    BY <2>2, <2>3
<1>2. QED
  BY <1>1, InvHolds, PTL


\* Between two polls the inbound is built from the configuration fetched last, unless a
\* request, the certificate, DelNode or AddNode has failed since an inbound was built:
\* every other way through nodeInfoMonitor brings a new configuration to AddNode.
THEOREM ConfIsKept == Spec => []ConfKept
<1>1. IInv => ConfKept
  BY DEF IInv, Versions, Reload, ConfKept
<1>2. QED
  BY <1>1, InvHolds, PTL

=============================================================================
