------------------------------ MODULE UserSync ------------------------------
(***************************************************************************)
(* How a node's users follow the panel's: the monitor task that polls      *)
(* configuration and user list over REST (nodeInfoMonitor, node/task.go;   *)
(* GetNodeInfo and GetUserList, api/panel), and the WebSocket deltas that  *)
(* are applied in between (removeUsersByIDs, addUsersByWS in               *)
(* node/controller.go).  Both write three things: the controller's list,   *)
(* the users of the Xray inbound (DelUsers, AddUsers in core/xray/user.go) *)
(* and the limiter's table (UpdateUser).                                   *)
(*                                                                         *)
(* The two goroutines share no lock across their steps, only short ones    *)
(* around each.  A user stands for its id and its uuid; its device limit   *)
(* stands for everything compareUserList compares.  The answer 304 is the  *)
(* comparison of the panel's list with the one last fetched.  The node's   *)
(* tag depends on its type and id only, so a reload never changes it.      *)
(***************************************************************************)
EXTENDS Integers, Sequences

CONSTANTS
    Users,
    Limits,      \* device limits
    Deltas,      \* the deltas the panel pushes: a subset of {"add", "remove"}
    MaxChanges,  \* bound: changes of the panel's list or configuration
    MaxFaults,   \* bound: REST, certificate and inbound failures
    None         \* no such user; an answer 304

ASSUME DeltasAssumption == Deltas \subseteq {"add", "remove"}
ASSUME BoundsAssumption == MaxChanges \in Nat /\ MaxFaults \in Nat
ASSUME NoneAssumption == None \notin Limits /\ None \notin [Users -> Limits \cup {None}]

VARIABLES
    panelUsers,  \* external: the panel's user list
    panelConf,   \* external: the version of the panel's node configuration
    inbox,       \* deltas on their way
    changes,     \* panel changes so far
    faults,      \* failures so far
    seenConf,    \* responseBodyHash: the version last fetched
    etag,        \* userEtag: the list last fetched
    userList,    \* Controller.userList
    inbound,     \* the version the inbound was built from, 0 without inbound
    core,        \* the users of the inbound
    lim,         \* UserLimitInfo
    mon,         \* where nodeInfoMonitor stands
    newN,        \* its new configuration, 0 for none
    newU,        \* its new list, None for none
    diff,        \* its result of compareUserList
    ws,          \* the delta handler: its place and its user and limit
    tainted,     \* history: the users a failed or overlapping update, a stale delta or a
                 \* change the panel took back concerned
    dropped      \* history: since an inbound was built last, a step failed after the hash
                 \* of a new configuration was saved

panelVars == <<panelUsers, panelConf, changes>>
monVars == <<mon, newN, newU, diff>>
nodeVars == <<userList, inbound, core, lim>>
vars == <<panelUsers, panelConf, inbox, changes, faults, seenConf, etag, userList,
          inbound, core, lim, mon, newN, newU, diff, ws, tainted, dropped>>

-----------------------------------------------------------------------------
Lists == [Users -> Limits \cup {None}]
Known(list) == {u \in Users : list[u] # None}
NoDiff == [deleted |-> {}, added |-> {}, modified |-> {}]
NoDelta == [place |-> "idle", user |-> None, limit |-> None]

\* nodeInfoMonitor's places; those of the reload of a changed node start with r.
MonPlaces == {"idle", "users", "compare", "del", "add", "limiter", "list",
              "rcompare", "rdel", "rlimiter", "rlist", "rcert", "rnode", "rusers"}
WsPlaces == {"idle", "del", "dellim", "add", "addlim"}

TypeOK ==
    /\ panelUsers \in Lists /\ etag \in Lists /\ userList \in Lists /\ lim \in Lists
    /\ panelConf \in 1..(1 + MaxChanges) /\ seenConf \in 1..(1 + MaxChanges)
    /\ inbound \in 0..(1 + MaxChanges) /\ newN \in 0..(1 + MaxChanges)
    /\ changes \in 0..MaxChanges /\ faults \in 0..MaxFaults
    /\ inbox \in Seq([action: Deltas, user: Users, limit: Limits \cup {None}])
    /\ core \in SUBSET Users
    /\ mon \in MonPlaces
    /\ newU \in Lists \cup {None}
    /\ diff \in [deleted: SUBSET Users, added: SUBSET Users, modified: SUBSET Users]
    /\ ws \in [place: WsPlaces, user: Users \cup {None}, limit: Limits \cup {None}]
    /\ tainted \in SUBSET Users /\ dropped \in BOOLEAN

\* Controller.Start: everything as the first pull says.
Init ==
    /\ panelUsers \in Lists /\ panelConf = 1 /\ inbox = <<>> /\ changes = 0 /\ faults = 0
    /\ seenConf = 1 /\ etag = panelUsers
    /\ userList = panelUsers /\ inbound = 1 /\ core = Known(panelUsers) /\ lim = panelUsers
    /\ mon = "idle" /\ newN = 0 /\ newU = None /\ diff = NoDiff
    /\ ws = NoDelta
    /\ tainted = {} /\ dropped = FALSE

-----------------------------------------------------------------------------
(* The operations both goroutines use. *)

\* Seeded fault: a change of a limit is not looked for.
Bug_CompareSkipsModified(old, new) ==
    [deleted  |-> Known(old) \ Known(new),
     added    |-> Known(new) \ Known(old),
     modified |-> {}]

CompareUserList(old, new) ==
    [deleted  |-> Known(old) \ Known(new),
     added    |-> Known(new) \ Known(old),
     modified |-> {u \in Known(old) \cap Known(new) : old[u] # new[u]}]

\* Xray.AddUsers and DelUsers hold users.mapLock.  The inbound refuses a user it has
\* already, or does not have (Xray's user managers, external); the call then ends
\* with the users before it in the slice done.
AddUsers(us) ==
    IF inbound # 0 /\ us \cap core = {}
    THEN {[ok |-> TRUE, users |-> core \cup us]}
    ELSE {[ok |-> FALSE, users |-> core \cup t] :
             t \in IF inbound = 0 THEN {{}} ELSE SUBSET (us \ core)}

DelUsers(us) ==
    IF inbound # 0 /\ us \subseteq core
    THEN {[ok |-> TRUE, users |-> core \ us]}
    ELSE {[ok |-> FALSE, users |-> core \ t] :
             t \in IF inbound = 0 THEN {{}} ELSE SUBSET (us \cap core)}

\* Limiter.UpdateUser: deleted, then modified (known users only), then added.
UpdateUser(d, list) ==
    [u \in Users |->
        CASE u \in d.added -> list[u]
          [] u \in d.deleted -> None
          [] u \in d.modified /\ lim[u] # None -> list[u]
          [] OTHER -> lim[u]]

\* A failure the environment may cause.
Fault == faults < MaxFaults /\ faults' = faults + 1

-----------------------------------------------------------------------------
(* nodeInfoMonitor. *)

\* It returns; what it fetched and did not use is gone.
Return == mon' = "idle" /\ newN' = 0 /\ newU' = None /\ diff' = NoDiff

\* An early return on an error that concerns the users us.
ReturnOnError(us) == Return /\ tainted' = tainted \cup us

\* The same in the middle of a reload: the new configuration is lost with it, for the
\* next poll finds its hash known.
DropOnError == ReturnOnError(Users) /\ dropped' = TRUE

\* GetNodeInfo: an answer with the known hash is no news; the hash of any other is saved
\* before the answer is decoded, so a failed request leaves the old one and a failed
\* decoding the new one.
GetNodeInfo ==
    /\ mon = "idle"
    /\ tainted' = tainted \cup ({ws.user} \cap Users)
    /\ \/ /\ mon' = "users"
          /\ newN' = IF panelConf # seenConf THEN panelConf ELSE 0
          /\ seenConf' = panelConf
          /\ UNCHANGED <<newU, diff, faults, dropped>>
       \/ Fault /\ UNCHANGED <<seenConf, dropped, monVars>>
       \/ /\ panelConf # seenConf /\ Fault
          /\ seenConf' = panelConf /\ dropped' = TRUE
          /\ UNCHANGED monVars
    /\ UNCHANGED <<panelVars, inbox, etag, nodeVars, ws>>

\* Seeded fault: the ETag is taken from an answer that cannot be used.
Bug_GetUserListEarlyETag ==
    /\ mon = "users"
    /\ etag' = panelUsers
    /\ \/ /\ newU' = IF panelUsers # etag THEN panelUsers ELSE None
          /\ mon' = IF newN # 0 THEN "rcompare"
                 ELSE IF newU' # None THEN "compare" ELSE "idle"
          /\ UNCHANGED <<newN, diff, faults, dropped>>
       \/ Fault /\ Return /\ dropped' = (dropped \/ newN # 0)
    /\ UNCHANGED <<panelVars, inbox, seenConf, nodeVars, ws, tainted>>

\* Seeded fault: an answer 304 ends the round, with a new configuration or without.
Bug_GetUserList304Ends ==
    /\ mon = "users"
    /\ \/ /\ etag' = panelUsers
          /\ newU' = IF panelUsers # etag THEN panelUsers ELSE None
          /\ newN' = IF newU' = None THEN 0 ELSE newN
          /\ mon' = IF newU' = None THEN "idle"
                 ELSE IF newN # 0 THEN "rcompare" ELSE "compare"
          /\ UNCHANGED <<diff, faults, dropped>>
       \/ Fault /\ Return /\ dropped' = (dropped \/ newN # 0) /\ UNCHANGED etag
    /\ UNCHANGED <<panelVars, inbox, seenConf, nodeVars, ws, tainted>>

\* GetUserList: the ETag is taken from a decoded answer only.  A failure ends the round,
\* and with it what GetNodeInfo has just fetched.
GetUserList ==
    /\ mon = "users"
    /\ \/ /\ etag' = panelUsers
          /\ newU' = IF panelUsers # etag THEN panelUsers ELSE None
          /\ mon' = IF newN # 0 THEN "rcompare"
                 ELSE IF newU' # None THEN "compare" ELSE "idle"
          /\ UNCHANGED <<newN, diff, faults, dropped>>
       \/ Fault /\ Return /\ dropped' = (dropped \/ newN # 0) /\ UNCHANGED etag
    /\ UNCHANGED <<panelVars, inbox, seenConf, nodeVars, ws, tainted>>

\* compareUserList under userListMu; after a reload only when there is a new list.
Compare ==
    /\ mon \in {"compare", "rcompare"}
    /\ diff' = IF newU = None THEN NoDiff ELSE CompareUserList(userList, newU)
    /\ mon' = IF mon = "compare" THEN "del" ELSE "rdel"
    /\ UNCHANGED <<panelVars, inbox, faults, seenConf, etag, nodeVars, newN, newU, ws, tainted,
                   dropped>>

MonDelUsers ==
    /\ mon = "del"
    /\ \E r \in IF diff.deleted = {} THEN {[ok |-> TRUE, users |-> core]}
                ELSE DelUsers(diff.deleted) :
         /\ core' = r.users
         /\ IF r.ok THEN mon' = "add" /\ UNCHANGED <<newN, newU, diff, tainted>>
            ELSE ReturnOnError(diff.deleted \cup diff.added \cup diff.modified)
    /\ UNCHANGED <<panelVars, inbox, faults, seenConf, etag, userList, inbound, lim, ws, dropped>>

MonAddUsers ==
    /\ mon = "add"
    /\ \E r \in IF diff.added = {} THEN {[ok |-> TRUE, users |-> core]}
                ELSE AddUsers(diff.added) :
         /\ core' = r.users
         /\ IF r.ok THEN mon' = "limiter" /\ UNCHANGED <<newN, newU, diff, tainted>>
            ELSE ReturnOnError(diff.deleted \cup diff.added \cup diff.modified)
    /\ UNCHANGED <<panelVars, inbox, faults, seenConf, etag, userList, inbound, lim, ws, dropped>>

\* Seeded fault: the limiter does not hear of added users.
Bug_MonUpdateUserDelOnly ==
    /\ mon \in {"limiter", "rlimiter"}
    /\ lim' = IF newU = None THEN lim ELSE UpdateUser([diff EXCEPT !.added = {}], newU)
    /\ mon' = IF mon = "limiter" THEN "list" ELSE "rlist"
    /\ UNCHANGED <<panelVars, inbox, faults, seenConf, etag, userList, inbound, core,
                   newN, newU, diff, ws, tainted, dropped>>

MonUpdateUser ==
    /\ mon \in {"limiter", "rlimiter"}
    /\ lim' = IF newU = None THEN lim ELSE UpdateUser(diff, newU)
    /\ mon' = IF mon = "limiter" THEN "list" ELSE "rlist"
    /\ UNCHANGED <<panelVars, inbox, faults, seenConf, etag, userList, inbound, core,
                   newN, newU, diff, ws, tainted, dropped>>

\* Seeded fault: an answer 304 is stored as the list.
Bug_MonSetListNil ==
    /\ mon \in {"list", "rlist"}
    /\ userList' = newU
    /\ IF mon = "list" THEN Return ELSE mon' = "rcert" /\ UNCHANGED <<newN, newU, diff>>
    /\ UNCHANGED <<panelVars, inbox, faults, seenConf, etag, inbound, core, lim, ws, tainted,
                   dropped>>

\* Seeded fault: without a new list nothing is left to do, in a reload either.
Bug_MonSetListEndsReload ==
    /\ mon \in {"list", "rlist"}
    /\ userList' = IF newU = None THEN userList ELSE newU
    /\ IF mon = "list" \/ newU = None THEN Return
       ELSE mon' = "rcert" /\ UNCHANGED <<newN, newU, diff>>
    /\ UNCHANGED <<panelVars, inbox, faults, seenConf, etag, inbound, core, lim, ws, tainted,
                   dropped>>

\* c.userList = newU: the end of a round, or the middle of a reload.
MonSetList ==
    /\ mon \in {"list", "rlist"}
    /\ userList' = IF newU = None THEN userList ELSE newU
    /\ IF mon = "list" THEN Return ELSE mon' = "rcert" /\ UNCHANGED <<newN, newU, diff>>
    /\ UNCHANGED <<panelVars, inbox, faults, seenConf, etag, inbound, core, lim, ws, tainted,
                   dropped>>

\* The reload of a changed node: DelNode removes the inbound with its users, and
\* fails when there is none.
DelNode ==
    /\ mon = "rdel"
    /\ IF inbound # 0
       THEN mon' = "rlimiter" /\ UNCHANGED <<newN, newU, diff, tainted, dropped>>
       ELSE DropOnError
    /\ inbound' = 0 /\ core' = {}
    /\ UNCHANGED <<panelVars, inbox, faults, seenConf, etag, userList, lim, ws>>

\* UpdateRule and requestCert may fail, and the node is without inbound then.
RulesAndCert ==
    /\ mon = "rcert"
    /\ \/ mon' = "rnode" /\ UNCHANGED <<newN, newU, diff, faults, tainted, dropped>>
       \/ Fault /\ DropOnError
    /\ UNCHANGED <<panelVars, inbox, seenConf, etag, nodeVars, ws>>

\* AddNode: a failure comes before the inbound is there, or after it, at the outbound.
AddNode ==
    /\ mon = "rnode"
    /\ \/ /\ inbound' = newN /\ dropped' = FALSE
          /\ mon' = "rusers" /\ UNCHANGED <<newN, newU, diff, faults, tainted>>
       \/ Fault /\ DropOnError /\ UNCHANGED inbound
       \/ Fault /\ ReturnOnError(Users) /\ inbound' = newN /\ dropped' = FALSE
    /\ UNCHANGED <<panelVars, inbox, seenConf, etag, userList, core, lim, ws>>

\* AddUsers of c.userList as it is now: read without userListMu.
ReloadUsers ==
    /\ mon = "rusers"
    /\ \E r \in AddUsers(Known(userList)) :
         /\ core' = r.users
         /\ IF r.ok THEN Return /\ UNCHANGED tainted ELSE ReturnOnError(Users)
    /\ UNCHANGED <<panelVars, inbox, faults, seenConf, etag, userList, inbound, lim, ws, dropped>>

-----------------------------------------------------------------------------
(* The WebSocket's read loop: one delta after the other. *)

\* removeUsersByIDs, up to the core: a user not in the list is not touched, and the
\* list is left alone.
WsRemove(d) ==
    /\ d.action = "remove"
    /\ ws' = IF userList[d.user] = None THEN NoDelta
             ELSE [place |-> "del", user |-> d.user, limit |-> None]
    /\ tainted' = tainted \cup {d.user}
    /\ UNCHANGED userList

\* addUsersByWS, up to the core: a user in the list is skipped, any other is merged
\* into it first.
WsAdd(d) ==
    /\ d.action = "add"
    /\ IF userList[d.user] # None
       THEN ws' = NoDelta /\ UNCHANGED userList
       ELSE /\ ws' = [place |-> "add", user |-> d.user, limit |-> d.limit]
            /\ userList' = [userList EXCEPT ![d.user] = d.limit]
    /\ tainted' = IF mon # "idle" \/ panelUsers[d.user] # d.limit
                  THEN tainted \cup {d.user} ELSE tainted

WsReceive ==
    /\ ws.place = "idle" /\ inbox # <<>>
    /\ WsRemove(Head(inbox)) \/ WsAdd(Head(inbox))
    /\ inbox' = Tail(inbox)
    /\ UNCHANGED <<panelVars, faults, seenConf, etag, inbound, core, lim, monVars, dropped>>

WsDelUsers ==
    /\ ws.place = "del"
    /\ \E r \in DelUsers({ws.user}) :
         core' = r.users /\ ws' = IF r.ok THEN [ws EXCEPT !.place = "dellim"] ELSE NoDelta
    /\ UNCHANGED <<panelVars, inbox, faults, seenConf, etag, userList, inbound, lim, monVars, tainted,
                   dropped>>

WsAddUsers ==
    /\ ws.place = "add"
    /\ \E r \in AddUsers({ws.user}) :
         /\ core' = r.users
         /\ ws' = IF r.ok THEN [ws EXCEPT !.place = "addlim"] ELSE NoDelta
         /\ tainted' = IF r.ok THEN tainted ELSE tainted \cup {ws.user}
    /\ UNCHANGED <<panelVars, inbox, faults, seenConf, etag, userList, inbound, lim, monVars, dropped>>

WsUpdateUser ==
    /\ ws.place \in {"dellim", "addlim"}
    /\ lim' = [lim EXCEPT ![ws.user] = ws.limit]
    /\ ws' = NoDelta
    /\ UNCHANGED <<panelVars, inbox, faults, seenConf, etag, userList, inbound, core, monVars, tainted,
                   dropped>>

-----------------------------------------------------------------------------
(* The panel: a user is added, restored, changed, removed; a delta for it may be
   pushed, and may be lost.  A change that takes back what only a delta has told
   the node is one the next poll cannot see: the list has its old ETag again.     *)
PanelSetUser(u, l) ==
    /\ changes < MaxChanges /\ l # panelUsers[u]
    /\ changes' = changes + 1
    /\ panelUsers' = [panelUsers EXCEPT ![u] = l]
    /\ LET d == [action |-> IF l = None THEN "remove" ELSE "add", user |-> u, limit |-> l]
       IN  \/ UNCHANGED inbox
           \/ d.action \in Deltas /\ inbox' = Append(inbox, d)
    /\ tainted' = IF l = etag[u] /\ l # userList[u] THEN tainted \cup {u} ELSE tainted
    /\ UNCHANGED <<panelConf, faults, seenConf, etag, nodeVars, monVars, ws, dropped>>

PanelSetConf ==
    /\ changes < MaxChanges
    /\ changes' = changes + 1
    /\ panelConf' = panelConf + 1
    /\ UNCHANGED <<panelUsers, inbox, faults, seenConf, etag, nodeVars, monVars, ws, tainted, dropped>>

-----------------------------------------------------------------------------
MonStep ==
    \/ GetNodeInfo \/ GetUserList \/ Compare
    \/ MonDelUsers \/ MonAddUsers \/ MonUpdateUser \/ MonSetList
    \/ DelNode \/ RulesAndCert \/ AddNode \/ ReloadUsers

WsStep == WsReceive \/ WsDelUsers \/ WsAddUsers \/ WsUpdateUser

PanelStep ==
    \/ \E u \in Users, l \in Limits \cup {None} : PanelSetUser(u, l)
    \/ PanelSetConf

Next == MonStep \/ WsStep \/ PanelStep

Spec == Init /\ [][Next]_vars

\* The monitor task polls for ever, the read loop reads on.
FairSpec == Spec /\ WF_vars(MonStep) /\ WF_vars(WsStep)

-----------------------------------------------------------------------------
(* Properties. *)

Quiet == mon = "idle" /\ ws.place = "idle"

\* A user has the access the panel says: in the inbound and in the limiter with its
\* limit, or in neither.
Follows(u) ==
    /\ u \in core <=> panelUsers[u] # None
    /\ lim[u] = panelUsers[u]
    /\ userList[u] = panelUsers[u]

\* When the panel would answer 304 from now on, nothing will be repaired any more:
\* then every user follows the panel, except one that one of these concerned: a WebSocket
\* removal (the list keeps the user), an overlap of the two goroutines, a failed core
\* call, a delta older than what the panel says by now, or a change the panel took back
\* before a poll (the list has its old ETag again).
NothingLeftBehind ==
    Quiet /\ etag = panelUsers => \A u \in Users \ tainted : Follows(u)

\* A user the inbound accepts is known to the limiter, which would reject it
\* otherwise, except between the two updates of one goroutine.
LimiterKnows ==
    \A u \in core \ tainted :
        \/ lim[u] # None
        \/ mon = "limiter" /\ u \in diff.added
        \/ ws.place = "addlim" /\ ws.user = u

\* Between two polls the inbound is the one of the configuration fetched last, unless a
\* request, the certificate, DelNode or AddNode failed after its hash was saved: no other
\* return of nodeInfoMonitor, no answer 304 and no delta loses it.
ConfKept == mon = "idle" => inbound = seenConf \/ dropped

\* Once the panel rests, every such user comes to follow it and stays so, whatever
\* requests failed in between.
EventuallyFollows == <>[](\A u \in Users \ tainted : Follows(u))

\* Once the panel rests, the inbound is one built from the panel's configuration, and
\* stays so; unless a step failed after its hash was saved, which nodeInfoMonitor never
\* makes good for that configuration.
ConfFollowed == <>[](inbound = panelConf \/ dropped)

=============================================================================
