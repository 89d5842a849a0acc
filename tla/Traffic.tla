------------------------------- MODULE Traffic -------------------------------
(***************************************************************************)
(* Traffic accounting: the per-user counters the connections add to        *)
(* (common/counter, dispatcher/default.go), the reporter that reads and    *)
(* resets them (GetUserTrafficSlice, core/xray/user.go), merges what the   *)
(* last report left over (reportUserTrafficTask, node/user.go) and posts   *)
(* it (ReportUserTraffic, api/panel/user.go), and the deletion of users    *)
(* and nodes that discards counters.                                       *)
(*                                                                         *)
(* Upload and download are treated alike, so one counter stands for both.  *)
(* Loading a counter and storing zero in it are two steps, and bytes come  *)
(* in between.  The panel is external: it adds every body it gets.         *)
(* The controller lives on: what Controller.Close, in a reload or at the   *)
(* end of the process, loses of pendingTraffic is left out.                *)
(***************************************************************************)
EXTENDS Integers, Sequences, SequencesExt

CONSTANTS
    Users,
    MinTraffic,   \* nodeReportMinTrafficBytes
    MaxBytes,     \* bound: bytes a user transfers
    MaxFaults,    \* bound: failed posts
    MaxDeletions  \* bound: deletions of users and nodes

ASSUME BoundsAssumption ==
    /\ MinTraffic \in Nat /\ MaxBytes \in Nat /\ MaxFaults \in Nat /\ MaxDeletions \in Nat

VARIABLES
    cnt,       \* the registered counters
    orphan,    \* the counters of a node deleted while the reporter walks them
    detached,  \* the reporter walks orphan counters
    late,      \* the users with connections whose counter is no longer registered
    mapped,    \* users.uidMap: the users with an id
    place,     \* where the reporter stands
    walk,      \* the users it has still to visit
    cur,       \* the user it visits, with the value it loaded
    list,      \* userTraffic: [user, bytes] entries
    pending,   \* pendingTraffic
    faults, deletions,
    billed,    \* external: what the panel has added up
    used,      \* history: bytes transferred
    lost       \* history: bytes that went astray, per user and way

histVars == <<billed, used, lost>>
walkVars == <<place, walk, cur, detached>>
vars == <<cnt, orphan, detached, late, mapped, place, walk, cur, list, pending, faults,
          deletions, billed, used, lost>>

-----------------------------------------------------------------------------
Zero == [u \in Users |-> 0]
Entry == [user: Users, bytes: Nat]
NoUser == CHOOSE u \in Users : TRUE
NoCur == [user |-> NoUser, bytes |-> 0]

\* The ways a byte can go astray: between Load and Store(0), with a deleted counter,
\* in an entry another one of the same user hides, billed without an answer (minus).
Ways == {"raced", "deleted", "hidden", "repeated"}
NoLoss == [w \in Ways |-> 0]

TypeOK ==
    /\ cnt \in [Users -> Nat] /\ orphan \in [Users -> Nat]
    /\ detached \in BOOLEAN
    /\ late \in SUBSET Users /\ mapped \in SUBSET Users
    /\ place \in {"idle", "walk", "store", "merge", "post"}
    /\ walk \in SUBSET Users
    /\ cur \in Entry \cup {NoCur}
    /\ list \in Seq(Entry) /\ pending \in Seq(Entry)
    /\ faults \in 0..MaxFaults /\ deletions \in 0..MaxDeletions
    /\ billed \in [Users -> Nat] /\ used \in [Users -> Nat]
    /\ lost \in [Users -> [Ways -> Nat]]

Init ==
    /\ cnt = Zero /\ orphan = Zero /\ detached = FALSE
    /\ late = {} /\ mapped = Users
    /\ place = "idle" /\ walk = {} /\ cur = NoCur
    /\ list = <<>> /\ pending = <<>>
    /\ faults = 0 /\ deletions = 0
    /\ billed = Zero /\ used = Zero
    /\ lost = [u \in Users |-> NoLoss]

\* Where the entries of a user are in a slice, and what they add up to.
EntriesOf(s, u) == {i \in DOMAIN s : s[i].user = u}
BytesIn(s, u) ==
    LET sum[i \in 0..Len(s)] ==
          IF i = 0 THEN 0 ELSE sum[i - 1] + (IF i \in EntriesOf(s, u) THEN s[i].bytes ELSE 0)
    IN  sum[Len(s)]

-----------------------------------------------------------------------------
\* SizeStatWriter, CounterReader: a connection adds to the counter getLink found or
\* made for its user; made after the user's deletion, nobody has an id for it.
Transfer(u) ==
    /\ used[u] < MaxBytes
    /\ used' = [used EXCEPT ![u] = @ + 1]
    /\ cnt' = [cnt EXCEPT ![u] = @ + 1]
    /\ UNCHANGED <<orphan, late, mapped, walkVars, list, pending, faults, deletions, billed, lost>>

\* A connection that is still open adds to a counter deleted under it: one that the
\* reporter still walks, or one that is out of everybody's reach.
LateTransfer(u) ==
    /\ used[u] < MaxBytes
    /\ u \in late
    /\ used' = [used EXCEPT ![u] = @ + 1]
    /\ \/ detached /\ orphan' = [orphan EXCEPT ![u] = @ + 1] /\ UNCHANGED lost
       \/ lost' = [lost EXCEPT ![u]["deleted"] = @ + 1] /\ UNCHANGED orphan
    /\ UNCHANGED <<cnt, late, mapped, walkVars, list, pending, faults, deletions, billed>>

\* DelUsers, under users.mapLock: the id and the counter are gone.
DelUser(u) ==
    /\ deletions < MaxDeletions /\ deletions' = deletions + 1
    /\ u \in mapped
    /\ place \notin {"walk", "store"}
    /\ mapped' = mapped \ {u} /\ late' = late \cup {u}
    /\ lost' = [lost EXCEPT ![u]["deleted"] = @ + cnt[u]]
    /\ cnt' = [cnt EXCEPT ![u] = 0]
    /\ UNCHANGED <<orphan, walkVars, list, pending, faults, billed, used>>

\* AddUsers, under users.mapLock.
AddUser(u) ==
    /\ u \notin mapped
    /\ place \notin {"walk", "store"}
    /\ mapped' = mapped \cup {u}
    /\ UNCHANGED <<cnt, orphan, late, walkVars, list, pending, faults, deletions, histVars>>

\* DelNode (a reload): the node's counters are dropped without a lock; a walk that
\* has begun goes on over the counters it found.
DelNode ==
    /\ deletions < MaxDeletions /\ deletions' = deletions + 1
    /\ cnt' = Zero /\ late' = Users
    /\ IF place \in {"walk", "store"} /\ ~detached
       THEN detached' = TRUE /\ orphan' = cnt /\ UNCHANGED lost
       ELSE /\ lost' = [u \in Users |-> [lost[u] EXCEPT !["deleted"] = @ + cnt[u]]]
            /\ UNCHANGED <<detached, orphan>>
    /\ UNCHANGED <<mapped, place, walk, cur, list, pending, faults, billed, used>>

-----------------------------------------------------------------------------
(* reportUserTrafficTask. *)

BeginReport ==
    /\ place = "idle"
    /\ place' = "walk" /\ walk' = Users
    /\ UNCHANGED <<cnt, orphan, detached, late, mapped, cur, list, pending, faults, deletions, histVars>>

Walked(u) == IF detached THEN orphan[u] ELSE cnt[u]

\* GetUserTrafficSlice: one counter is loaded.
LoadCounter(u) ==
    /\ place = "walk" /\ u \in walk
    /\ walk' = walk \ {u}
    /\ IF Walked(u) > MinTraffic
       THEN place' = "store" /\ cur' = [user |-> u, bytes |-> Walked(u)]
       ELSE UNCHANGED <<place, cur>>
    /\ UNCHANGED <<cnt, orphan, detached, late, mapped, list, pending, faults, deletions, histVars>>

\* Seeded fault: the loaded value is subtracted from the registered counter.
Bug_StoreSubtracts ==
    /\ place = "store"
    /\ place' = "walk" /\ cur' = NoCur
    /\ list' = IF cur.user \in mapped THEN Append(list, cur) ELSE list
    /\ cnt' = [cnt EXCEPT ![cur.user] = @ - cur.bytes]
    /\ UNCHANGED <<orphan, detached, late, mapped, walk, pending, faults, deletions, histVars>>

\* ... and set to zero; the counter of a user without id is deleted, its bytes too.
StoreZero ==
    LET u == cur.user
    IN  /\ place = "store"
        /\ place' = "walk" /\ cur' = NoCur
        /\ lost' = [lost EXCEPT ![u]["raced"] = @ + (Walked(u) - cur.bytes),
                                ![u]["deleted"] = IF u \in mapped THEN @ ELSE @ + cur.bytes]
        /\ list' = IF u \in mapped THEN Append(list, cur) ELSE list
        /\ IF detached THEN orphan' = [orphan EXCEPT ![u] = 0] /\ UNCHANGED cnt
                       ELSE cnt' = [cnt EXCEPT ![u] = 0] /\ UNCHANGED orphan
        /\ late' = IF u \in mapped THEN late ELSE late \cup {u}
        /\ UNCHANGED <<detached, mapped, walk, pending, faults, deletions, billed, used>>

\* The end of the walk; what is left in orphan counters nobody will read.
EndWalk ==
    /\ place = "walk" /\ walk = {}
    /\ place' = "merge"
    /\ lost' = [u \in Users |-> [lost[u] EXCEPT !["deleted"] = @ + orphan[u]]]
    /\ orphan' = Zero /\ detached' = FALSE
    /\ UNCHANGED <<cnt, late, mapped, walk, cur, list, pending, faults, deletions, billed, used>>

\* Seeded fault: the leftovers wait for new entries.
Bug_MergeNeedsNew ==
    /\ place = "merge"
    /\ IF list = <<>>
       THEN place' = "idle" /\ UNCHANGED <<list, pending>>
       ELSE place' = "post" /\ list' = list \o pending /\ pending' = <<>>
    /\ UNCHANGED <<cnt, orphan, detached, late, mapped, walk, cur, faults, deletions, histVars>>

\* The leftovers of a failed report go behind the new entries.
MergePending ==
    /\ place = "merge"
    /\ list' = list \o pending
    /\ pending' = <<>>
    /\ place' = IF list' = <<>> THEN "idle" ELSE "post"
    /\ UNCHANGED <<cnt, orphan, detached, late, mapped, walk, cur, faults, deletions, histVars>>

\* ReportUserTraffic's body: data[UID] holds the last entry of a user in the slice.
Body(u) == LET es == EntriesOf(list, u) IN IF es = {} THEN 0 ELSE list[Max(es)].bytes

\* The post is answered; the entries the body left out are gone.
PostAnswered ==
    /\ place = "post"
    /\ billed' = [u \in Users |-> billed[u] + Body(u)]
    /\ lost' = [u \in Users |-> [lost[u] EXCEPT !["hidden"] = @ + BytesIn(list, u) - Body(u)]]
    /\ list' = <<>>
    /\ place' = "idle"
    /\ UNCHANGED <<cnt, orphan, detached, late, mapped, walk, cur, pending, faults, deletions, used>>

\* The panel gets the body but the answer is lost: the HTTP client tries again, or
\* gives up (PostFails).
AnswerLost ==
    /\ place = "post"
    /\ faults < MaxFaults /\ faults' = faults + 1
    /\ billed' = [u \in Users |-> billed[u] + Body(u)]
    /\ lost' = [u \in Users |-> [lost[u] EXCEPT !["repeated"] = @ + Body(u)]]
    /\ UNCHANGED <<cnt, orphan, late, mapped, walkVars, list, pending, deletions, used>>

\* Seeded fault: a failed report is forgotten.
Bug_PostFailsForgets ==
    /\ place = "post"
    /\ faults < MaxFaults /\ faults' = faults + 1
    /\ list' = <<>>
    /\ place' = "idle"
    /\ UNCHANGED <<cnt, orphan, detached, late, mapped, walk, cur, pending, deletions, histVars>>

PostFails ==
    /\ place = "post"
    /\ faults < MaxFaults /\ faults' = faults + 1
    /\ pending' = list
    /\ list' = <<>>
    /\ place' = "idle"
    /\ UNCHANGED <<cnt, orphan, detached, late, mapped, walk, cur, deletions, histVars>>

-----------------------------------------------------------------------------
Reporter ==
    \/ BeginReport
    \/ \E u \in Users : LoadCounter(u)
    \/ StoreZero
    \/ EndWalk
    \/ MergePending
    \/ PostAnswered
    \/ AnswerLost
    \/ PostFails

Next ==
    \/ \E u \in Users : Transfer(u) \/ LateTransfer(u) \/ DelUser(u) \/ AddUser(u)
    \/ DelNode
    \/ Reporter

Spec == Init /\ [][Next]_vars

\* The reporter task runs again and again.
FairSpec == Spec /\ WF_vars(Reporter)

-----------------------------------------------------------------------------
(* Properties. *)

\* The bytes on their way to the panel.
Outstanding(u) == cnt[u] + orphan[u] + BytesIn(list, u) + BytesIn(pending, u)

\* No byte is billed twice and none disappears, but for the four ways named: the
\* merge, the retry and the resets of the reporter keep the books, however they
\* interleave with traffic, deletions, reloads and failing posts.
BooksBalance ==
    \A u \in Users :
        used[u] + lost[u]["repeated"]
            = billed[u] + Outstanding(u)
                + lost[u]["raced"] + lost[u]["deleted"] + lost[u]["hidden"]

\* Traffic above the threshold does not wait for ever, and neither does a report
\* that failed: leftovers are sent with the next round of the same controller.
TrafficReported ==
    \A u \in Users : <>[](cnt[u] <= MinTraffic /\ BytesIn(pending, u) = 0)

\* What the comment on pendingTraffic says: the traffic of a failed report is
\* retried and not lost.  Other ways to lose it left aside, every byte is billed or
\* on its way.
FailedReportKept ==
    \A u \in Users :
        lost[u]["raced"] = 0 /\ lost[u]["deleted"] = 0 /\ lost[u]["repeated"] = 0
            => used[u] = billed[u] + Outstanding(u)

=============================================================================
