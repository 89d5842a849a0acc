------------------------- MODULE DeviceReportProofs -------------------------
(***************************************************************************)
(* Why the saved hash never suppresses a report the panel lacks, and why a *)
(* change leaves a trace until a round has reported it: for any users,     *)
(* addresses, writers and queue, as long as no round of the reporter       *)
(* outlasts a reconnect.                                                   *)
(***************************************************************************)
EXTENDS DeviceReport, WellFoundedInduction, TLAPS

\* The queue lives as long as the connection, and the panel forgets with it.
LinkSound ==
    /\ link = "up" => writeCh # None
    /\ link # "up" => writeCh = None /\ panel = {}
    /\ held = "current" => writeCh # None

View(hash) == IF hash = None THEN {} ELSE DevicesIn(hash)

\* Where the baseline stands, at each place of connection and round.
Baseline ==
    /\ link \in {"opened", "notified"} => round \notin {"put", "save"}
    /\ link = "notified" => lastHash = None
    /\ link = "up" /\ round = "put" => held = "current"
    /\ link = "up" /\ round = "save" => PanelView = DevicesIn(snap)
    /\ link = "up" /\ round # "save" => PanelView = View(lastHash)

Devices(u) == IF snap[u] = None THEN {} ELSE snap[u]

\* The snapshot of a round nothing has changed behind.
Snapped(u) ==
    /\ RefsVisited(u) /\ ~CoolVisited(u) => Devices(u) = open[u]
    /\ CoolVisited(u) => /\ open[u] \cup Active(u) \subseteq Devices(u)
                         /\ Devices(u) \subseteq open[u] \cup Listed(u)

\* Somebody will see to it that a change is noticed.
Due ==
    \/ dirty
    \/ \E w \in Writers : writer[w] # "idle"
    \/ \E u \in Users : Listed(u) # Active(u)

Noticed ==
    /\ round \in {"idle", "prev", "dirty"} =>
          lastHash = None \/ DevicesIn(lastHash) = Reportable \/ missed \/ Due
    /\ round \notin {"idle", "prev"} => prev # None \/ lastHash = None \/ round = "reset"
    /\ round \notin {"idle", "prev", "dirty", "reset"} => dirty \/ lastHash = None
    /\ round = "reset" => lastHash = None \/ lastHash = snap

-----------------------------------------------------------------------------
(* The last report of a queue. *)

LEMMA LeastNat ==
    ASSUME NEW S, S \subseteq Nat, S # {} PROVE \E n \in S : \A m \in S : n <= m
<1>1. \E x \in S : \A y \in S : ~(<<y, x>> \in OpToRel(<, Nat))
  BY WFMin, NatLessThanWellFounded
<1>2. PICK x \in S : \A y \in S : ~(<<y, x>> \in OpToRel(<, Nat))
  BY <1>1
<1>3. \A y \in S : ~(y < x)
  BY <1>2, Zenon DEF OpToRel
<1>4. QED
  BY <1>3

\* A set of places in a sequence has a last one.
LEMMA MaxIs ==
    ASSUME NEW n \in Nat, NEW S, S \subseteq 1..n, S # {}
    PROVE  Max(S) \in S /\ \A y \in S : Max(S) >= y
<1> DEFINE T == {n - x : x \in S}
<1>1. T \subseteq Nat /\ T # {}
  <2>1. \A x \in S : x \in 1..n /\ n - x \in Nat
    OBVIOUS
  <2>2. QED
    BY <2>1
<1>2. PICK t \in T : \A s \in T : t <= s
  BY <1>1, LeastNat
<1>3. PICK x \in S : t = n - x
  OBVIOUS
<1>4. \E z \in S : \A y \in S : z >= y
  BY <1>2, <1>3
<1>5. QED
  BY <1>4 DEF Max

At(q) == {k \in DOMAIN q : q[k].isReport}
Heard(q, p) == IF At(q) = {} THEN p ELSE DevicesIn(q[Max(At(q))].devices)

LEMMA HeardNone ==
    ASSUME NEW q \in Seq(Messages), NEW p, \A j \in 1..Len(q) : ~q[j].isReport
    PROVE  Heard(q, p) = p
BY DEF Heard, At

LEMMA HeardLast ==
    ASSUME NEW q \in Seq(Messages), NEW p, NEW k \in 1..Len(q), q[k].isReport,
           \A j \in 1..Len(q) : j > k => ~q[j].isReport
    PROVE  Heard(q, p) = DevicesIn(q[k].devices)
<1>1. At(q) \subseteq 1..Len(q) /\ k \in At(q) /\ \A j \in At(q) : j <= k
  BY DEF At
<1>2. Max(At(q)) = k
  <2>1. Max(At(q)) \in At(q) /\ \A y \in At(q) : Max(At(q)) >= y
    BY <1>1, MaxIs
  <2>2. QED
    BY <1>1, <2>1
<1>3. QED
  BY <1>1, <1>2 DEF Heard

\* A queue has no report, or a last one.
LEMMA HeardCases ==
    ASSUME NEW q \in Seq(Messages)
    PROVE  \/ \A j \in 1..Len(q) : ~q[j].isReport
           \/ \E k \in 1..Len(q) : q[k].isReport /\ \A j \in 1..Len(q) : j > k => ~q[j].isReport
<1>1. At(q) \subseteq 1..Len(q) /\ Len(q) \in Nat
  BY DEF At
<1>2. CASE At(q) = {}
  BY <1>2 DEF At
<1>3. CASE At(q) # {}
  <2>1. Max(At(q)) \in At(q) /\ \A y \in At(q) : Max(At(q)) >= y
    BY <1>1, <1>3, MaxIs
  <2>2. \A j \in 1..Len(q) : j > Max(At(q)) => j \notin At(q)
    BY <1>1, <2>1
  <2>3. QED
    BY <1>1, <2>1, <2>2 DEF At
<1>4. QED
  BY <1>2, <1>3

LEMMA MessageTypes ==
    /\ Other \in Messages /\ ~Other.isReport
    /\ \A s \in Snapshots : Report(s) \in Messages /\ Report(s).isReport /\ Report(s).devices = s
BY DEF Other, Report, Messages, EmptySnapshot, Snapshots

\* Appending a report decides what the panel will hear, another message does not.
LEMMA HeardAppend ==
    ASSUME NEW q \in Seq(Messages), NEW p, NEW m \in Messages
    PROVE  Heard(Append(q, m), p) = IF m.isReport THEN DevicesIn(m.devices) ELSE Heard(q, p)
<1> DEFINE r == Append(q, m)
<1>1. /\ r \in Seq(Messages) /\ Len(r) = Len(q) + 1 /\ Len(q) \in Nat /\ r[Len(q) + 1] = m
      /\ \A j \in 1..Len(q) : r[j] = q[j]
      /\ \A j \in 1..Len(r) : j \in 1..Len(q) \/ j = Len(q) + 1
  OBVIOUS
<1> HIDE DEF r
<1>2. CASE m.isReport
  <2>1. Len(q) + 1 \in 1..Len(r) /\ \A j \in 1..Len(r) : ~(j > Len(q) + 1)
    BY <1>1
  <2>2. Heard(r, p) = DevicesIn(r[Len(q) + 1].devices)
    BY <1>1, <1>2, <2>1, HeardLast
  <2>3. QED
    BY <1>1, <1>2, <2>2 DEF r
<1>3. CASE ~m.isReport
  <2>1. CASE \A j \in 1..Len(q) : ~q[j].isReport
    <3>1. \A j \in 1..Len(r) : ~r[j].isReport
      BY <1>1, <1>3, <2>1
    <3>2. QED
      BY <1>1, <1>3, <2>1, <3>1, HeardNone DEF r
  <2>2. ASSUME NEW k \in 1..Len(q), q[k].isReport, \A j \in 1..Len(q) : j > k => ~q[j].isReport
        PROVE  Heard(r, p) = Heard(q, p)
    <3>1. k \in 1..Len(r) /\ r[k] = q[k] /\ \A j \in 1..Len(r) : j > k => ~r[j].isReport
      BY <1>1, <1>3, <2>2
    <3>2. Heard(r, p) = DevicesIn(r[k].devices)
      BY <1>1, <2>2, <3>1, HeardLast
    <3>3. QED
      BY <2>2, <3>1, <3>2, HeardLast
  <2>3. QED
    BY <1>3, <2>1, <2>2, HeardCases DEF r
<1>4. QED
  BY <1>2, <1>3

\* The message written first is the one the panel has heard already.
LEMMA HeardTail ==
    ASSUME NEW q \in Seq(Messages), q # <<>>, NEW p
    PROVE  Heard(Tail(q), IF Head(q).isReport THEN DevicesIn(Head(q).devices) ELSE p) = Heard(q, p)
<1> DEFINE r == Tail(q)
           o == IF Head(q).isReport THEN DevicesIn(Head(q).devices) ELSE p
<1>1. Len(q) \in Nat /\ Len(q) # 0
  OBVIOUS
<1>2. /\ r \in Seq(Messages) /\ Len(r) = Len(q) - 1 /\ Head(q) = q[1] /\ 1 \in 1..Len(q)
      /\ \A j \in 1..Len(r) : r[j] = q[j + 1]
  BY <1>1
<1>3. /\ \A j \in 1..Len(r) : j + 1 \in 1..Len(q)
      /\ \A j \in 1..Len(q) : j > 1 => j - 1 \in 1..Len(r) /\ r[j - 1] = q[j]
  BY <1>1, <1>2
<1>4. o = IF q[1].isReport THEN DevicesIn(q[1].devices) ELSE p
  BY <1>2
<1> HIDE DEF r, o
<1>5. CASE \A j \in 1..Len(r) : ~r[j].isReport
  <2>1. \A j \in 1..Len(q) : j > 1 => ~q[j].isReport
    BY <1>3, <1>5
  <2>2. Heard(r, o) = o
    BY <1>2, <1>5, HeardNone
  <2>3. CASE q[1].isReport
    BY <1>2, <1>4, <2>1, <2>2, <2>3, HeardLast DEF r, o
  <2>4. CASE ~q[1].isReport
    <3>1. \A j \in 1..Len(q) : ~q[j].isReport
      BY <1>1, <2>1, <2>4
    <3>2. QED
      BY <1>4, <2>2, <2>4, <3>1, HeardNone DEF r, o
  <2>5. QED
    BY <2>3, <2>4
<1>6. ASSUME NEW k \in 1..Len(r), r[k].isReport, \A j \in 1..Len(r) : j > k => ~r[j].isReport
      PROVE  Heard(r, o) = Heard(q, p)
  <2>1. k + 1 \in 1..Len(q) /\ r[k] = q[k + 1]
    BY <1>2, <1>3
  <2>2. \A j \in 1..Len(q) : j > k + 1 => ~q[j].isReport
    <3> SUFFICES ASSUME NEW j \in 1..Len(q), j > k + 1, q[j].isReport PROVE FALSE
      OBVIOUS
    <3>1. j - 1 \in 1..Len(r) /\ r[j - 1] = q[j] /\ j - 1 > k
      BY <1>1, <1>3
    <3>2. QED
      BY <1>6, <3>1
  <2>3. Heard(q, p) = DevicesIn(q[k + 1].devices)
    BY <1>6, <2>1, <2>2, HeardLast
  <2>4. Heard(r, o) = DevicesIn(r[k].devices)
    BY <1>2, <1>6, HeardLast
  <2>5. QED
    BY <2>1, <2>3, <2>4
<1>7. QED
  BY <1>2, <1>5, <1>6, HeardCases DEF r, o

\* PanelView is what is heard of the queue, or without one what the panel has.
LEMMA ViewIsHeard ==
    /\ writeCh # None => PanelView = Heard(writeCh, panel)
    /\ writeCh = None => PanelView = panel
BY DEF PanelView, ReportsAt, Heard, At

LEMMA ViewIsHeardNext == writeCh' # None => PanelView' = Heard(writeCh', panel')
BY DEF PanelView, ReportsAt, Heard, At

LEMMA NewQueue == <<Other>> \in Seq(Messages) /\ <<Other>> # None
<1>1. <<Other>> \in Seq(Messages)
  BY MessageTypes
<1>2. QED
  BY <1>1, NoneIsNoQueue, Zenon

-----------------------------------------------------------------------------
(* Types. *)

TablesOK ==
    /\ open \in [Users -> SUBSET IPs]
    /\ cool \in [Users -> [IPs -> {"none", "active", "expired"}]]
    /\ writer \in [Writers -> {"idle", "mark"} \cup Users]

RoundOK ==
    /\ round \in Rounds
    /\ prev \in Snapshots \cup {None} /\ lastHash \in Snapshots \cup {None}
    /\ snap \in Snapshots
    /\ walk \in SUBSET Users
    /\ held \in {None, "current", "room", "full"}

LinkOK ==
    /\ link \in {"down", "opened", "notified", "up", "dropped"}
    /\ writeCh = None \/ (writeCh \in Seq(Messages) /\ Len(writeCh) <= QueueCap)
    /\ panel \in SUBSET (Users \X IPs)

FlagsOK == dirty \in BOOLEAN /\ connected \in BOOLEAN /\ missed \in BOOLEAN

LEMMA TypeParts == TypeOK <=> TablesOK /\ RoundOK /\ LinkOK /\ FlagsOK
BY DEF TypeOK, TablesOK, RoundOK, LinkOK, FlagsOK

LEMMA SnapshotTypes ==
    /\ EmptySnapshot \in Snapshots
    /\ \A s \in Snapshots, u \in Users, d \in SUBSET IPs :
          [s EXCEPT ![u] = None] \in Snapshots /\ [s EXCEPT ![u] = d] \in Snapshots
    /\ \A s \in Snapshots, u \in Users : s[u] = None \/ s[u] \in SUBSET IPs
    /\ \A s : DevicesIn(s) \in SUBSET (Users \X IPs)
BY DEF EmptySnapshot, Snapshots, DevicesIn

\* A cooldown set covers only addresses.
LEMMA CoolTypes ==
    ASSUME TablesOK, NEW u \in Users
    PROVE  Listed(u) \in SUBSET IPs /\ Active(u) \subseteq Listed(u)
BY DEF TablesOK, Listed, Active

LEMMA FlagsStep ==
    ASSUME FlagsOK, [Next]_vars PROVE FlagsOK'
<1> USE Zenon DEF FlagsOK, tableVars, roundVars, linkVars
<1>1. ASSUME NEW w \in Writers, WriterStep(w) PROVE FlagsOK'
  BY <1>1 DEF WriterStep, ConnChange, KickDevice, UpdateUserRefs, UpdateUserCooldown, MarkDirty
<1>2. ASSUME NEW u \in Users, NEW i \in IPs, CooldownElapses(u, i) PROVE FlagsOK'
  BY <1>2 DEF CooldownElapses
<1>3. CASE BeginRound \/ ReadPrevHash \/ Decide \/ SaveHash \/ SnapshotCount
  BY <1>3 DEF BeginRound, ReadPrevHash, Decide, SaveHash, SnapshotCount
<1>4. CASE DevicesDirty
  <2>1. dirty' \in BOOLEAN /\ connected' \in BOOLEAN
    BY <1>4 DEF DevicesDirty
  <2>2. missed' \in BOOLEAN
    <3>1. CASE ~dirty' /\ prev # None
      BY <1>4, <3>1 DEF DevicesDirty
    <3>2. CASE ~(~dirty' /\ prev # None)
      BY <1>4, <3>2 DEF DevicesDirty
    <3>3. QED
      BY <3>1, <3>2
  <2>3. QED
    BY <2>1, <2>2
<1>5. ASSUME NEW u \in Users, SnapshotRefs(u) \/ SnapshotCooldown(u) PROVE FlagsOK'
  BY <1>5 DEF SnapshotRefs, SnapshotCooldown
<1>6. CASE SendCheckConnected \/ SendReadChannel \/ SendPut \/ ResetDevicesDirty
  BY <1>6 DEF SendCheckConnected, SendReadChannel, SendPut, ResetDevicesDirty
<1>7. CASE LinkStep
  BY <1>7 DEF LinkStep, Connect, NotifyConnected, MakeWriteCh, QueueOther, WriteMessage,
     ConnectReturns, Disconnected
<1>8. CASE UNCHANGED vars
  BY <1>8 DEF vars
<1>9. QED
  BY <1>1, <1>2, <1>3, <1>4, <1>5, <1>6, <1>7, <1>8 DEF Next, ReporterStep

LEMMA TablesStep ==
    ASSUME TablesOK, [Next]_vars PROVE TablesOK'
<1> USE DEF TablesOK, tableVars
<1>1. ASSUME NEW w \in Writers, WriterStep(w) PROVE TablesOK'
  <2>1. ASSUME NEW u \in Users, NEW i \in IPs, ConnChange(w, u, i) PROVE TablesOK'
    <3>1. PICK ips \in {open[u], open[u] \cup {i}, open[u] \ {i}} :
             open' = [open EXCEPT ![u] = ips]
      BY <2>1 DEF ConnChange
    <3>2. ips \in SUBSET IPs
      BY <3>1
    <3>3. QED
      BY <2>1, <3>1, <3>2 DEF ConnChange
  <2>2. ASSUME NEW u \in Users, NEW i \in IPs, KickDevice(w, u, i) PROVE TablesOK'
    BY <2>2 DEF KickDevice
  <2>3. ASSUME NEW u \in Users, UpdateUserRefs(w, u) PROVE TablesOK'
    BY <2>3 DEF UpdateUserRefs
  <2>4. CASE UpdateUserCooldown(w)
    BY <2>4 DEF UpdateUserCooldown
  <2>5. CASE MarkDirty(w)
    BY <2>5 DEF MarkDirty
  <2>6. QED
    BY <1>1, <2>1, <2>2, <2>3, <2>4, <2>5 DEF WriterStep
<1>2. ASSUME NEW u \in Users, NEW i \in IPs, CooldownElapses(u, i) PROVE TablesOK'
  BY <1>2 DEF CooldownElapses
<1>3. CASE BeginRound \/ ReadPrevHash \/ Decide \/ SaveHash \/ SnapshotCount
  BY <1>3 DEF BeginRound, ReadPrevHash, Decide, SaveHash, SnapshotCount
<1>4. CASE DevicesDirty
  BY <1>4 DEF DevicesDirty
<1>5. ASSUME NEW u \in Users, SnapshotRefs(u) \/ SnapshotCooldown(u) PROVE TablesOK'
  BY <1>5 DEF SnapshotRefs, SnapshotCooldown
<1>6. CASE SendCheckConnected \/ SendReadChannel \/ SendPut \/ ResetDevicesDirty
  BY <1>6 DEF SendCheckConnected, SendReadChannel, SendPut, ResetDevicesDirty
<1>7. CASE LinkStep
  BY <1>7 DEF LinkStep, Connect, NotifyConnected, MakeWriteCh, QueueOther, WriteMessage,
     ConnectReturns, Disconnected
<1>8. CASE UNCHANGED vars
  BY <1>8 DEF vars
<1>9. QED
  BY <1>1, <1>2, <1>3, <1>4, <1>5, <1>6, <1>7, <1>8 DEF Next, ReporterStep

\* What the writers and the clock leave alone.
LEMMA TableSteps ==
    /\ \A w \in Writers : WriterStep(w) => UNCHANGED <<roundVars, lastHash, linkVars>>
    /\ \A u \in Users, i \in IPs :
          CooldownElapses(u, i) => UNCHANGED <<dirty, writer, missed, roundVars, lastHash, linkVars>>
BY DEF WriterStep, ConnChange, KickDevice, UpdateUserRefs, UpdateUserCooldown, MarkDirty,
   CooldownElapses

LEMMA RoundStep ==
    ASSUME TablesOK, RoundOK, [Next]_vars PROVE RoundOK'
<1> USE DEF RoundOK, roundVars
<1>0. Return => prev' = None /\ snap' \in Snapshots /\ round' = "idle" /\ walk' = {} /\ held' = None
  BY SnapshotTypes DEF Return
<1>1. ASSUME NEW w \in Writers, WriterStep(w) PROVE RoundOK'
  BY <1>1, TableSteps
<1>2. ASSUME NEW u \in Users, NEW i \in IPs, CooldownElapses(u, i) PROVE RoundOK'
  BY <1>2, TableSteps
<1>3. CASE BeginRound \/ ReadPrevHash \/ Decide \/ SaveHash \/ SnapshotCount
  BY <1>3, SnapshotTypes DEF BeginRound, ReadPrevHash, Decide, SaveHash, SnapshotCount, Rounds
<1>4. CASE DevicesDirty
  BY <1>0, <1>4 DEF DevicesDirty, Rounds
<1>5. ASSUME NEW u \in Users, SnapshotRefs(u) PROVE RoundOK'
  <2>1. open[u] \in SUBSET IPs
    BY DEF TablesOK
  <2>2. snap' \in Snapshots
    BY <1>5, <2>1, SnapshotTypes DEF SnapshotRefs
  <2>3. QED
    BY <1>5, <2>2 DEF SnapshotRefs, Rounds
<1>6. ASSUME NEW u \in Users, SnapshotCooldown(u) PROVE RoundOK'
  <2>1. (IF snap[u] = None THEN {} ELSE snap[u]) \cup Active(u) \in SUBSET IPs
    BY SnapshotTypes, CoolTypes
  <2>2. snap' \in Snapshots
    <3>1. CASE Listed(u) = {}
      BY <1>6, <3>1 DEF SnapshotCooldown
    <3>2. CASE Listed(u) # {}
      <4>1. snap' = [snap EXCEPT ![u] = (IF snap[u] = None THEN {} ELSE snap[u]) \cup Active(u)]
        BY <1>6, <3>2 DEF SnapshotCooldown, Snapshots
      <4>2. QED
        BY <2>1, <4>1, SnapshotTypes
    <3>3. QED
      BY <3>1, <3>2
  <2>3. QED
    BY <1>6, <2>2 DEF SnapshotCooldown, Rounds
<1>7. CASE SendCheckConnected \/ SendReadChannel \/ SendPut \/ ResetDevicesDirty
  <2>1. CASE Return
    BY <1>0, <1>7, <2>1 DEF SendCheckConnected, SendReadChannel, SendPut, ResetDevicesDirty, Rounds
  <2>2. CASE ~Return
    BY <1>7, <2>2 DEF SendCheckConnected, SendReadChannel, SendPut, ResetDevicesDirty, Rounds
  <2>3. QED
    BY <2>1, <2>2
<1>8. CASE LinkStep
  BY <1>8 DEF LinkStep, Connect, NotifyConnected, MakeWriteCh, QueueOther, WriteMessage,
     ConnectReturns, Disconnected
<1>9. CASE UNCHANGED vars
  BY <1>9 DEF vars
<1>10. QED
  BY <1>1, <1>2, <1>3, <1>4, <1>5, <1>6, <1>7, <1>8, <1>9 DEF Next, ReporterStep


LEMMA LinkTypes ==
    ASSUME RoundOK, LinkOK, LinkSound, [Next]_vars PROVE LinkOK'
<1> USE DEF LinkOK
<1>1. ASSUME NEW w \in Writers, WriterStep(w) PROVE LinkOK'
  BY <1>1, TableSteps DEF linkVars
<1>2. ASSUME NEW u \in Users, NEW i \in IPs, CooldownElapses(u, i) PROVE LinkOK'
  BY <1>2, TableSteps DEF linkVars
<1>3. CASE BeginRound \/ ReadPrevHash \/ DevicesDirty \/ Decide \/ SaveHash \/ SnapshotCount
  BY <1>3 DEF BeginRound, ReadPrevHash, DevicesDirty, Decide, SaveHash, SnapshotCount, linkVars
<1>4. ASSUME NEW u \in Users, SnapshotRefs(u) \/ SnapshotCooldown(u) PROVE LinkOK'
  BY <1>4 DEF SnapshotRefs, SnapshotCooldown, linkVars
<1>5. CASE SendCheckConnected \/ SendReadChannel \/ ResetDevicesDirty
  BY <1>5 DEF SendCheckConnected, SendReadChannel, ResetDevicesDirty, linkVars
<1>6. CASE SendPut
  <2>1. CASE held = "current" /\ Len(writeCh) # QueueCap
    <3>1. writeCh \in Seq(Messages) /\ Len(writeCh) < QueueCap /\ Report(snap) \in Messages
      BY <2>1, MessageTypes, QueueCapAssumption DEF LinkSound, RoundOK
    <3>2. writeCh' = Append(writeCh, Report(snap))
      BY <1>6, <2>1 DEF SendPut
    <3>3. writeCh' \in Seq(Messages) /\ Len(writeCh') <= QueueCap
      BY <3>1, <3>2, QueueCapAssumption
    <3>4. QED
      BY <1>6, <3>3 DEF SendPut
  <2>2. CASE ~(held = "current" /\ Len(writeCh) # QueueCap)
    BY <1>6, <2>2 DEF SendPut
  <2>3. QED
    BY <2>1, <2>2
<1>7. CASE Connect \/ NotifyConnected \/ Disconnected \/ ConnectReturns
  BY <1>7 DEF Connect, NotifyConnected, Disconnected, ConnectReturns
<1>8. CASE MakeWriteCh
  <2>1. <<Other>> \in Seq(Messages) /\ Len(<<Other>>) <= QueueCap
    BY MessageTypes, QueueCapAssumption
  <2>2. QED
    BY <1>8, <2>1 DEF MakeWriteCh
<1>9. CASE QueueOther
  <2>1. writeCh' \in Seq(Messages) /\ Len(writeCh') <= QueueCap
    BY <1>9, MessageTypes, QueueCapAssumption DEF QueueOther
  <2>2. QED
    BY <1>9, <2>1 DEF QueueOther
<1>10. CASE WriteMessage
  <2>1. writeCh \in Seq(Messages) /\ Len(writeCh) <= QueueCap /\ writeCh # <<>>
    BY <1>10 DEF WriteMessage, LinkSound
  <2>2. Tail(writeCh) \in Seq(Messages) /\ Len(Tail(writeCh)) <= QueueCap
    BY <2>1, QueueCapAssumption
  <2>3. panel' \in SUBSET (Users \X IPs)
    <3>1. DevicesIn(Head(writeCh).devices) \in SUBSET (Users \X IPs)
      BY SnapshotTypes
    <3>2. QED
      BY <1>10, <3>1 DEF WriteMessage
  <2>4. QED
    BY <1>10, <2>2, <2>3 DEF WriteMessage
<1>11. CASE UNCHANGED vars
  BY <1>11 DEF vars
<1>12. QED
  BY <1>1, <1>2, <1>3, <1>4, <1>5, <1>6, <1>7, <1>8, <1>9, <1>10, <1>11
  DEF Next, ReporterStep, LinkStep

LEMMA TypeStep ==
    ASSUME TypeOK, LinkSound, [Next]_vars PROVE TypeOK'
BY TypeParts, TablesStep, RoundStep, LinkTypes, FlagsStep
DEF TypeOK, TablesOK, RoundOK, LinkOK, FlagsOK

-----------------------------------------------------------------------------
(* The connection and the baseline. *)

LEMMA LinkSoundStep ==
    ASSUME TypeOK, LinkSound, [Next]_vars PROVE LinkSound'
<1> USE DEF LinkSound, linkVars, roundVars
<1>0. Return => held' = None
  BY DEF Return
<1>1. ASSUME NEW w \in Writers, WriterStep(w) PROVE LinkSound'
  BY <1>1, TableSteps
<1>2. ASSUME NEW u \in Users, NEW i \in IPs, CooldownElapses(u, i) PROVE LinkSound'
  BY <1>2, TableSteps
<1>3. CASE BeginRound \/ ReadPrevHash \/ Decide \/ SaveHash \/ SnapshotCount
  BY <1>3 DEF BeginRound, ReadPrevHash, Decide, SaveHash, SnapshotCount
<1>4. ASSUME NEW u \in Users, SnapshotRefs(u) \/ SnapshotCooldown(u) PROVE LinkSound'
  BY <1>4 DEF SnapshotRefs, SnapshotCooldown
<1>5. CASE SendCheckConnected \/ SendReadChannel \/ DevicesDirty \/ ResetDevicesDirty
  BY <1>0, <1>5, NoneAssumption DEF SendCheckConnected, SendReadChannel, DevicesDirty,
     ResetDevicesDirty
<1>6. CASE SendPut
  <2>1. writeCh' = None => writeCh = None
    <3>1. writeCh \in Seq(Messages) => Append(writeCh, Report(snap)) # None
      BY MessageTypes, NoneIsNoQueue DEF TypeOK
    <3>2. QED
      BY <1>6, <3>1 DEF SendPut, TypeOK
  <2>2. link' = link /\ panel' = panel /\ (writeCh = None => writeCh' = None)
    BY <1>6 DEF SendPut
  <2>3. held' = held \/ held' = None
    BY <1>0, <1>6 DEF SendPut
  <2>4. QED
    BY <2>1, <2>2, <2>3, NoneAssumption
<1>7. CASE Connect \/ NotifyConnected \/ Disconnected \/ ConnectReturns
  BY <1>7, NoneAssumption DEF Connect, NotifyConnected, Disconnected, ConnectReturns
<1>8. CASE MakeWriteCh
  <2>1. <<Other>> # None
    BY NewQueue
  <2>2. QED
    BY <1>8, <2>1 DEF MakeWriteCh
<1>9. CASE QueueOther \/ WriteMessage
  <2>1. writeCh \in Seq(Messages) /\ link = "up"
    BY <1>9 DEF QueueOther, WriteMessage, TypeOK
  <2>2. Append(writeCh, Other) # None /\ (writeCh # <<>> => Tail(writeCh) # None)
    BY <2>1, MessageTypes, NoneIsNoQueue
  <2>3. QED
    BY <1>9, <2>1, <2>2 DEF QueueOther, WriteMessage
<1>10. CASE UNCHANGED vars
  BY <1>10 DEF vars
<1>11. QED
  BY <1>1, <1>2, <1>3, <1>4, <1>5, <1>6, <1>7, <1>8, <1>9, <1>10 DEF Next, ReporterStep, LinkStep

\* The view changes with a report that is queued and with the connection only.
LEMMA SameView ==
    ASSUME UNCHANGED <<writeCh, panel>> PROVE PanelView' = PanelView
BY DEF PanelView, ReportsAt

LEMMA ViewQueueOther ==
    ASSUME TypeOK, QueueOther PROVE PanelView' = PanelView
<1>1. writeCh \in Seq(Messages) /\ writeCh # None /\ panel' = panel
  BY DEF TypeOK, QueueOther
<1>2. writeCh' = Append(writeCh, Other) /\ writeCh' # None
  BY <1>1, MessageTypes, NoneIsNoQueue DEF QueueOther
<1>3. Heard(Append(writeCh, Other), panel) = Heard(writeCh, panel)
  BY <1>1, MessageTypes, HeardAppend
<1>4. PanelView' = Heard(writeCh', panel')
  BY <1>2, ViewIsHeardNext
<1>5. QED
  BY <1>1, <1>2, <1>3, <1>4, ViewIsHeard

LEMMA ViewQueueReport ==
    ASSUME TypeOK, writeCh # None, panel' = panel, writeCh' = Append(writeCh, Report(snap))
    PROVE  PanelView' = DevicesIn(snap)
<1>1. writeCh \in Seq(Messages) /\ snap \in Snapshots /\ Report(snap) \in Messages
  BY MessageTypes DEF TypeOK
<1>2. writeCh' # None
  BY <1>1, NoneIsNoQueue
<1>3. Heard(Append(writeCh, Report(snap)), panel) = DevicesIn(snap)
  BY <1>1, MessageTypes, HeardAppend
<1>4. PanelView' = Heard(writeCh', panel')
  BY <1>2, ViewIsHeardNext
<1>5. QED
  BY <1>3, <1>4

LEMMA ViewWriteMessage ==
    ASSUME TypeOK, LinkSound, WriteMessage PROVE PanelView' = PanelView
<1>1. /\ writeCh \in Seq(Messages) /\ writeCh # None /\ writeCh # <<>>
      /\ writeCh' = Tail(writeCh)
      /\ panel' = IF Head(writeCh).isReport THEN DevicesIn(Head(writeCh).devices) ELSE panel
  BY DEF TypeOK, WriteMessage, LinkSound
<1>2. writeCh' # None
  BY <1>1, NoneIsNoQueue
<1>3. PanelView' = Heard(writeCh', panel')
  BY <1>2, ViewIsHeardNext
<1>4. QED
  BY <1>1, <1>3, HeardTail, ViewIsHeard

LEMMA ViewMakeWriteCh ==
    ASSUME LinkSound, MakeWriteCh PROVE PanelView' = {}
<1>1. writeCh' = <<Other>> /\ writeCh' # None /\ panel' = {} /\ writeCh' \in Seq(Messages)
  BY NewQueue DEF MakeWriteCh, LinkSound, linkVars
<1>2. PanelView' = Heard(writeCh', panel')
  BY <1>1, ViewIsHeardNext
<1>3. \A j \in 1..Len(writeCh') : ~writeCh'[j].isReport
  BY <1>1, MessageTypes
<1>4. QED
  BY <1>1, <1>2, <1>3, HeardNone

LEMMA EmptyHasNoDevices == DevicesIn(EmptySnapshot) = {}
BY DEF DevicesIn, EmptySnapshot

LEMMA BaselineStep ==
    ASSUME ~SlowRounds, TypeOK, LinkSound, Baseline, [Next]_vars PROVE Baseline'
<1> USE DEF Baseline, linkVars, roundVars
<1>0. Return => round' = "idle"
  BY DEF Return
<1>1. ASSUME NEW w \in Writers, WriterStep(w) PROVE Baseline'
  BY <1>1, TableSteps, SameView DEF View
<1>2. ASSUME NEW u \in Users, NEW i \in IPs, CooldownElapses(u, i) PROVE Baseline'
  BY <1>2, TableSteps, SameView DEF View
<1>3. CASE BeginRound \/ ReadPrevHash \/ Decide \/ SnapshotCount
  BY <1>3, SameView DEF BeginRound, ReadPrevHash, Decide, SnapshotCount, View
<1>4. ASSUME NEW u \in Users, SnapshotRefs(u) \/ SnapshotCooldown(u) PROVE Baseline'
  BY <1>4, SameView DEF SnapshotRefs, SnapshotCooldown, View
<1>5. CASE SaveHash
  <2>1. View(lastHash') = DevicesIn(snap)
    <3>1. CASE snap = EmptySnapshot
      BY <1>5, <3>1, EmptyHasNoDevices DEF SaveHash, View
    <3>2. CASE snap # EmptySnapshot
      BY <1>5, <3>2, NoneIsNoSnapshot DEF SaveHash, View, TypeOK
    <3>3. QED
      BY <3>1, <3>2
  <2>2. QED
    BY <1>5, <2>1, SameView DEF SaveHash, View
<1>6. CASE SendCheckConnected \/ SendReadChannel \/ DevicesDirty \/ ResetDevicesDirty
  BY <1>0, <1>6, SameView DEF SendCheckConnected, SendReadChannel, DevicesDirty, ResetDevicesDirty,
     View, LinkSound
<1>7. CASE SendPut
  <2>0. round = "put" /\ link \notin {"opened", "notified"}
    BY <1>7 DEF SendPut
  <2>1. CASE Return
    <3>1. writeCh' = writeCh
      BY <1>7, <2>1 DEF SendPut, Return
    <3>2. QED
      BY <1>0, <1>7, <2>0, <2>1, <3>1, SameView DEF SendPut, View
  <2>2. CASE link = "up" /\ ~Return
    <3>1. held = "current" /\ writeCh # None
      BY <2>0, <2>2 DEF LinkSound
    <3>2. writeCh' = Append(writeCh, Report(snap)) /\ round' = "save"
      BY <1>7, <2>2, <3>1 DEF SendPut
    <3>3. PanelView' = DevicesIn(snap)
      BY <1>7, <3>1, <3>2, ViewQueueReport DEF SendPut
    <3>4. QED
      BY <1>7, <2>2, <3>2, <3>3 DEF SendPut
  <2>3. CASE link # "up" /\ ~Return
    BY <1>7, <2>0, <2>3 DEF SendPut
  <2>4. QED
    BY <2>1, <2>2, <2>3
<1>8. CASE Connect
  BY <1>8, SameView DEF Connect
<1>9. CASE NotifyConnected \/ Disconnected \/ ConnectReturns
  BY <1>9 DEF NotifyConnected, Disconnected, ConnectReturns
<1>10. CASE MakeWriteCh
  <2>1. PanelView' = {} /\ lastHash' = None /\ round' \notin {"put", "save"}
    BY <1>10, ViewMakeWriteCh DEF MakeWriteCh
  <2>2. QED
    BY <1>10, <2>1 DEF MakeWriteCh, View
<1>11. CASE QueueOther
  <2>1. PanelView' = PanelView
    BY <1>11, ViewQueueOther
  <2>2. QED
    BY <1>11, <2>1 DEF QueueOther, View
<1>12. CASE WriteMessage
  <2>1. PanelView' = PanelView
    BY <1>12, ViewWriteMessage
  <2>2. QED
    BY <1>12, <2>1 DEF WriteMessage, View
<1>13. CASE UNCHANGED vars
  BY <1>13, SameView DEF vars, View
<1>14. QED
  BY <1>1, <1>2, <1>3, <1>4, <1>5, <1>6, <1>7, <1>8, <1>9, <1>10, <1>11, <1>12, <1>13
  DEF Next, ReporterStep, LinkStep

-----------------------------------------------------------------------------
(* The snapshot. *)

SnapKept == missed \/ \A u \in Users : Snapped(u)

\* Where the reporter is, when it moves on to another place.
LEMMA VisitedOrder ==
    ASSUME NEW u
    PROVE  /\ CoolVisited(u) => RefsVisited(u)
           /\ round \in {"idle", "prev", "dirty"} => ~RefsVisited(u)
BY DEF CoolVisited, RefsVisited, AfterCool

LEMMA SameSnapped ==
    ASSUME NEW u, Snapped(u), RefsVisited(u)' <=> RefsVisited(u), CoolVisited(u)' <=> CoolVisited(u),
           snap' = snap, open'[u] = open[u], cool'[u] = cool[u]
    PROVE  Snapped(u)'
BY DEF Snapped, Devices, Listed, Active

LEMMA SnapWriterStep ==
    ASSUME TypeOK, SnapKept, NEW w \in Writers, WriterStep(w), ~missed', NEW u \in Users
    PROVE  Snapped(u)'
<1>0. UNCHANGED <<snap, round, walk>>
  BY TableSteps DEF roundVars
<1>1. (RefsVisited(u)' <=> RefsVisited(u)) /\ (CoolVisited(u)' <=> CoolVisited(u))
  BY <1>0 DEF RefsVisited, CoolVisited
<1>2. ASSUME NEW v \in Users, NEW i \in IPs, ConnChange(w, v, i) PROVE Snapped(u)'
  <2>1. PICK ips \in {open[v], open[v] \cup {i}, open[v] \ {i}} :
           /\ open' = [open EXCEPT ![v] = ips]
           /\ missed' = (missed \/ (RefsVisited(v) /\ ips # open[v]))
    BY <1>2 DEF ConnChange
  <2>2. ~missed /\ (RefsVisited(v) => ips = open[v]) /\ cool' = cool
    BY <1>2, <2>1 DEF ConnChange
  <2>3. Snapped(u)
    BY <2>2 DEF SnapKept
  <2>4. CASE RefsVisited(u)
    <3>1. open'[u] = open[u]
      BY <2>1, <2>2, <2>4 DEF TypeOK
    <3>2. QED
      BY <1>0, <1>1, <2>2, <2>3, <3>1, SameSnapped
  <2>5. CASE ~RefsVisited(u)
    BY <1>1, <2>5, VisitedOrder DEF Snapped
  <2>6. QED
    BY <2>4, <2>5
<1>3. ASSUME NEW v \in Users, NEW i \in IPs, KickDevice(w, v, i) PROVE Snapped(u)'
  <2>1. /\ ~missed /\ (CoolVisited(v) => cool[v][i] = "active")
        /\ open' = open /\ cool' = [cool EXCEPT ![v][i] = "active"]
    BY <1>3 DEF KickDevice
  <2>2. Snapped(u)
    BY <2>1 DEF SnapKept
  <2>3. CASE u = v /\ ~CoolVisited(v)
    BY <1>0, <1>1, <2>1, <2>2, <2>3 DEF Snapped, Devices
  <2>4. CASE u # v \/ CoolVisited(v)
    <3>1. cool'[u] = cool[u]
      BY <2>1, <2>4 DEF TypeOK
    <3>2. QED
      BY <1>0, <1>1, <2>1, <2>2, <3>1, SameSnapped
  <2>5. QED
    BY <2>3, <2>4
<1>4. ASSUME NEW v \in Users, UpdateUserRefs(w, v) PROVE Snapped(u)'
  <2>1. /\ ~missed /\ (RefsVisited(v) => open[v] = {}) /\ cool' = cool
        /\ open' = [open EXCEPT ![v] = {}]
    BY <1>4 DEF UpdateUserRefs
  <2>2. Snapped(u)
    BY <2>1 DEF SnapKept
  <2>3. CASE RefsVisited(u)
    <3>1. open'[u] = open[u]
      BY <2>1, <2>3 DEF TypeOK
    <3>2. QED
      BY <1>0, <1>1, <2>1, <2>2, <3>1, SameSnapped
  <2>4. CASE ~RefsVisited(u)
    BY <1>1, <2>4, VisitedOrder DEF Snapped
  <2>5. QED
    BY <2>3, <2>4
<1>5. CASE UpdateUserCooldown(w)
  <2> DEFINE v == writer[w]
  <2>1. /\ ~missed /\ (CoolVisited(v) => Listed(v) = {}) /\ open' = open /\ v \in Users
        /\ cool' = [cool EXCEPT ![v] = [i \in IPs |-> "none"]]
    BY <1>5 DEF UpdateUserCooldown
  <2> HIDE DEF v
  <2>2. Snapped(u)
    BY <2>1 DEF SnapKept
  <2>3. CASE u = v
    <3>1. Listed(u)' = {} /\ Active(u)' = {}
      BY <2>1, <2>3 DEF TypeOK, Listed, Active
    <3>2. Active(u) \subseteq Listed(u)
      BY DEF Listed, Active
    <3>3. QED
      BY <1>0, <1>1, <2>1, <2>2, <2>3, <3>1, <3>2 DEF Snapped, Devices
  <2>4. CASE u # v
    <3>1. cool'[u] = cool[u]
      BY <2>1, <2>4 DEF TypeOK
    <3>2. QED
      BY <1>0, <1>1, <2>1, <2>2, <3>1, SameSnapped
  <2>5. QED
    BY <2>3, <2>4
<1>6. CASE MarkDirty(w)
  <2>1. ~missed /\ UNCHANGED <<open, cool>>
    BY <1>6 DEF MarkDirty, tableVars
  <2>2. QED
    BY <1>0, <1>1, <2>1, SameSnapped DEF SnapKept
<1>7. QED
  BY <1>2, <1>3, <1>4, <1>5, <1>6 DEF WriterStep

LEMMA SnapRefsStep ==
    ASSUME TypeOK, SnapKept, NEW v \in Users, SnapshotRefs(v), ~missed', NEW u \in Users
    PROVE  Snapped(u)'
<1>1. /\ ~missed /\ round = "refs" /\ round' \in {"refs", "count"} /\ UNCHANGED <<open, cool>>
      /\ snap' = [snap EXCEPT ![v] = IF open[v] = {} THEN None ELSE open[v]]
      /\ walk' = walk \ {v} /\ (round' = "count" => walk = {v})
  BY DEF SnapshotRefs, tableVars
<1>2. ~CoolVisited(u)'
  BY <1>1 DEF CoolVisited, AfterCool
<1>3. CASE u = v
  <2>1. open[u] \in SUBSET IPs /\ open[u] # None
    BY NoneAssumption DEF TypeOK
  <2>2. snap'[u] = IF open[u] = {} THEN None ELSE open[u]
    BY <1>1, <1>3 DEF TypeOK, Snapshots
  <2>3. Devices(u)' = open'[u]
    BY <1>1, <2>1, <2>2 DEF Devices
  <2>4. QED
    BY <1>2, <2>3 DEF Snapped
<1>4. CASE u # v
  <2>1. RefsVisited(u)' => RefsVisited(u) /\ ~CoolVisited(u)
    BY <1>1, <1>4 DEF RefsVisited, CoolVisited, AfterCool
  <2>2. snap'[u] = snap[u]
    BY <1>1, <1>4 DEF TypeOK, Snapshots
  <2>3. QED
    BY <1>1, <1>2, <2>1, <2>2 DEF SnapKept, Snapped, Devices
<1>5. QED
  BY <1>3, <1>4

LEMMA SnapCooldownStep ==
    ASSUME TypeOK, SnapKept, NEW v \in Users, SnapshotCooldown(v), ~missed', NEW u \in Users
    PROVE  Snapped(u)'
<1>1. /\ ~missed /\ round = "cool" /\ round' \in {"cool", "decide"} /\ UNCHANGED <<open, cool>>
      /\ v \in walk /\ walk' = walk \ {v} /\ (round' = "decide" => walk = {v})
  BY DEF SnapshotCooldown, tableVars
<1>2. Snapped(u) /\ RefsVisited(u) /\ RefsVisited(u)'
  BY <1>1 DEF SnapKept, RefsVisited, AfterCool
<1>3. CASE u = v
  <2>1. ~CoolVisited(u)
    BY <1>1, <1>3 DEF CoolVisited, AfterCool
  <2>2. Devices(u) = open[u] /\ open[u] \in SUBSET IPs
    BY <1>2, <2>1 DEF Snapped, TypeOK
  <2>3. Active(u) \subseteq Listed(u) /\ Active(u) \in SUBSET IPs
    BY DEF Active, Listed
  <2>4. Devices(u)' = open[u] \cup Active(u)
    <3>1. CASE Listed(u) = {}
      BY <1>3, <2>2, <2>3, <3>1 DEF SnapshotCooldown, Devices
    <3>2. CASE Listed(u) # {}
      <4>1. snap'[u] = Devices(u) \cup Active(u)
        BY <1>3, <3>2 DEF SnapshotCooldown, Devices, TypeOK, Snapshots
      <4>2. snap'[u] \in SUBSET IPs /\ snap'[u] # None
        BY <2>2, <2>3, <4>1, NoneAssumption
      <4>3. QED
        BY <2>2, <4>1, <4>2 DEF Devices
    <3>3. QED
      BY <3>1, <3>2
  <2>5. Active(u)' = Active(u) /\ Listed(u)' = Listed(u)
    BY <1>1 DEF Active, Listed
  <2>6. CoolVisited(u)'
    BY <1>1, <1>3 DEF CoolVisited, AfterCool
  <2>7. QED
    BY <1>1, <2>3, <2>4, <2>5, <2>6 DEF Snapped
<1>4. CASE u # v
  <2>1. CoolVisited(u)' <=> CoolVisited(u)
    BY <1>1, <1>4 DEF CoolVisited, AfterCool
  <2>2. snap'[u] = snap[u]
    BY <1>4 DEF SnapshotCooldown, TypeOK, Snapshots
  <2>3. QED
    BY <1>1, <1>2, <2>1, <2>2 DEF Snapped, Devices, Listed, Active
<1>5. QED
  BY <1>3, <1>4

LEMMA SnapStep ==
    ASSUME TypeOK, SnapKept, [Next]_vars PROVE SnapKept'
<1> SUFFICES ASSUME ~missed', NEW u \in Users PROVE Snapped(u)'
  BY DEF SnapKept
<1> USE DEF roundVars, tableVars
<1>0. Return => Snapped(u)'
  BY DEF Return, Snapped, RefsVisited, CoolVisited, AfterCool
<1>1. ASSUME NEW w \in Writers, WriterStep(w) PROVE Snapped(u)'
  BY <1>1, SnapWriterStep
<1>2. ASSUME NEW v \in Users, NEW i \in IPs, CooldownElapses(v, i) PROVE Snapped(u)'
  <2>1. ~missed /\ UNCHANGED <<snap, round, walk, open>> /\ cool' = [cool EXCEPT ![v][i] = "expired"]
        /\ cool[v][i] = "active"
    BY <1>2 DEF CooldownElapses
  <2>2. Active(u)' \subseteq Active(u) /\ Listed(u)' = Listed(u)
    BY <2>1 DEF Active, Listed, TypeOK
  <2>3. QED
    BY <2>1, <2>2 DEF SnapKept, Snapped, Devices, RefsVisited, CoolVisited
<1>3. CASE BeginRound \/ ReadPrevHash \/ Decide \/ SaveHash
  BY <1>3 DEF BeginRound, ReadPrevHash, Decide, SaveHash, SnapKept, Snapped, Devices, RefsVisited,
     CoolVisited, AfterCool, Listed, Active
<1>4. CASE SnapshotCount
  <2>1. /\ ~missed /\ UNCHANGED <<open, cool, snap>> /\ round = "count"
        /\ RefsVisited(u) /\ ~CoolVisited(u) /\ Devices(u) = open[u] /\ Devices(u)' = Devices(u)
    BY <1>4 DEF SnapshotCount, SnapKept, Snapped, RefsVisited, CoolVisited, AfterCool, Devices
  <2>2. Listed(u)' = Listed(u) /\ Active(u)' = Active(u) /\ Active(u) \subseteq Listed(u)
    BY <2>1 DEF Listed, Active
  <2>3. round' = "cool" => ~CoolVisited(u)'
    BY <1>4 DEF SnapshotCount, CoolVisited, AfterCool
  <2>4. round' # "cool" => Listed(u) = {}
    BY <1>4 DEF SnapshotCount
  <2>5. QED
    BY <2>1, <2>2, <2>3, <2>4 DEF Snapped
<1>5. CASE DevicesDirty
  <2>1. Return \/ (round' = "refs" /\ walk' = Users)
    BY <1>5 DEF DevicesDirty
  <2>2. QED
    BY <1>0, <2>1 DEF Snapped, RefsVisited, CoolVisited, AfterCool
<1>6. ASSUME NEW v \in Users, SnapshotRefs(v) \/ SnapshotCooldown(v) PROVE Snapped(u)'
  BY <1>6, SnapRefsStep, SnapCooldownStep
<1>7. CASE SendCheckConnected \/ SendReadChannel \/ SendPut \/ ResetDevicesDirty
  <2>1. CASE Return
    BY <1>0, <2>1
  <2>2. CASE ~Return
    BY <1>7, <2>2 DEF SendCheckConnected, SendReadChannel, SendPut, ResetDevicesDirty, SnapKept,
       Snapped, Devices, RefsVisited, CoolVisited, AfterCool, Listed, Active
  <2>3. QED
    BY <2>1, <2>2
<1>8. CASE LinkStep \/ UNCHANGED vars
  <2>1. UNCHANGED <<round, snap, walk, open, cool, missed>>
    BY <1>8 DEF LinkStep, Connect, NotifyConnected, MakeWriteCh, QueueOther, WriteMessage,
       ConnectReturns, Disconnected, vars
  <2>2. QED
    BY <2>1 DEF SnapKept, Snapped, Devices, RefsVisited, CoolVisited, Listed, Active
<1>9. QED
  BY <1>1, <1>2, <1>3, <1>4, <1>5, <1>6, <1>7, <1>8 DEF Next, ReporterStep


\* A snapshot nothing has changed behind reports what is there to report.
LEMMA SnapshotComplete ==
    ASSUME TypeOK, \A u \in Users : Snapped(u), round \in AfterCool,
           \A u \in Users : Listed(u) = Active(u)
    PROVE  DevicesIn(snap) = Reportable
<1>1. \A u \in Users : Devices(u) = open[u] \cup Active(u)
  BY DEF Snapped, CoolVisited
<1>2. DevicesIn(snap) = {d \in Users \X IPs : d[2] \in Devices(d[1])}
  BY DEF DevicesIn, Devices
<1>3. \A d \in Users \X IPs : d[1] \in Users
  OBVIOUS
<1>4. QED
  BY <1>1, <1>2, <1>3 DEF Reportable

-----------------------------------------------------------------------------
(* A change is noticed. *)

LEMMA WriterDue ==
    ASSUME TypeOK, NEW w \in Writers, WriterStep(w)
    PROVE  Due' /\ (dirty => dirty')
<1>1. ASSUME NEW u \in Users, NEW i \in IPs, ConnChange(w, u, i) \/ KickDevice(w, u, i)
      PROVE  writer'[w] # "idle" /\ dirty' = dirty
  BY <1>1 DEF ConnChange, KickDevice, TypeOK
<1>2. ASSUME NEW u \in Users, UpdateUserRefs(w, u) PROVE writer'[w] # "idle" /\ dirty' = dirty
  BY <1>2, UsersAssumption DEF UpdateUserRefs, TypeOK
<1>3. CASE UpdateUserCooldown(w)
  <2>1. writer'[w] # "idle" /\ dirty' = dirty
    BY <1>3 DEF UpdateUserCooldown, TypeOK
  <2>2. QED
    BY <2>1 DEF Due
<1>4. CASE MarkDirty(w)
  BY <1>4 DEF MarkDirty, Due
<1>5. QED
  BY <1>1, <1>2, <1>3, <1>4 DEF WriterStep, Due

LEMMA ElapsedDue ==
    ASSUME TypeOK, NEW u \in Users, NEW i \in IPs, CooldownElapses(u, i)
    PROVE  Due' /\ (dirty => dirty')
<1>1. cool'[u][i] = "expired" /\ dirty' = dirty
  BY DEF CooldownElapses, TypeOK
<1>2. i \in Listed(u)' /\ i \notin Active(u)'
  BY <1>1 DEF Listed, Active
<1>3. Listed(u)' # Active(u)'
  BY <1>2
<1>4. QED
  BY <1>1, <1>3 DEF Due

\* A round that ends at DevicesDirty has purged nothing.
LEMMA PurgedNothing ==
    ASSUME TypeOK, DevicesDirty, ~dirty'
    PROVE  /\ cool' = cool /\ ~dirty /\ \A u \in Users : Listed(u) = Active(u)
<1>1. ~dirty /\ \A u \in Users : Listed(u) = Active(u)
  BY DEF DevicesDirty
<1>2. \A u \in Users, i \in IPs : cool[u][i] # "expired"
  BY <1>1 DEF Listed, Active
<1>3. cool' = cool
  <2>1. cool' = [u \in Users |-> [i \in IPs |->
                   IF cool[u][i] = "expired" THEN "none" ELSE cool[u][i]]]
    BY DEF DevicesDirty
  <2>2. \A u \in Users : [i \in IPs |-> IF cool[u][i] = "expired" THEN "none" ELSE cool[u][i]]
                       = cool[u]
    BY <1>2 DEF TypeOK
  <2>3. QED
    BY <2>1, <2>2 DEF TypeOK
<1>4. QED
  BY <1>1, <1>3

Known == lastHash = None \/ DevicesIn(lastHash) = Reportable \/ missed \/ Due

LEMMA NoticedStep ==
    ASSUME TypeOK, SnapKept, Noticed, [Next]_vars PROVE Noticed'
<1> USE DEF roundVars, tableVars, linkVars
<1>0. Return => round' = "idle"
  BY DEF Return
<1>1. ASSUME NEW w \in Writers, WriterStep(w) PROVE Noticed'
  <2>1. UNCHANGED <<round, prev, snap, lastHash>>
    BY <1>1, TableSteps
  <2>2. Due' /\ (dirty => dirty')
    BY <1>1, WriterDue
  <2>3. QED
    BY <2>1, <2>2 DEF Noticed
<1>2. ASSUME NEW u \in Users, NEW i \in IPs, CooldownElapses(u, i) PROVE Noticed'
  <2>1. UNCHANGED <<round, prev, snap, lastHash>>
    BY <1>2, TableSteps
  <2>2. Due' /\ (dirty => dirty')
    BY <1>2, ElapsedDue
  <2>3. QED
    BY <2>1, <2>2 DEF Noticed
<1>3. UNCHANGED <<open, cool, dirty, writer, missed, lastHash>> => (Known' <=> Known)
  BY DEF Known, Due, Reportable, Listed, Active
<1>4. Noticed => (round \in {"idle", "prev", "dirty"} => Known)
  BY DEF Noticed, Known
<1>5. /\ round' \in {"idle", "prev", "dirty"} => Known'
      /\ round' \notin {"idle", "prev"} => prev' # None \/ lastHash' = None \/ round' = "reset"
      /\ round' \notin {"idle", "prev", "dirty", "reset"} => dirty' \/ lastHash' = None
      /\ round' = "reset" => lastHash' = None \/ lastHash' = snap'
      => Noticed'
  BY DEF Noticed, Known
<1>6. CASE BeginRound \/ ReadPrevHash
  <2>1. Known'
    BY <1>3, <1>4, <1>6 DEF BeginRound, ReadPrevHash
  <2>2. QED
    BY <1>5, <1>6, <2>1 DEF BeginRound, ReadPrevHash
<1>7. CASE DevicesDirty
  <2>1. CASE ~dirty' /\ prev # None
    <3>1. cool' = cool /\ ~dirty /\ \A u \in Users : Listed(u) = Active(u)
      BY <1>7, <2>1, PurgedNothing
    <3>2. Known /\ UNCHANGED <<open, writer, missed, lastHash>> /\ round' = "idle"
      BY <1>0, <1>4, <1>7, <2>1 DEF DevicesDirty
    <3>3. dirty' = dirty
      BY <1>7, <2>1, <3>1 DEF DevicesDirty, TypeOK
    <3>4. Known'
      BY <1>3, <3>1, <3>2, <3>3
    <3>5. QED
      BY <1>5, <3>2, <3>4
  <2>2. CASE ~(~dirty' /\ prev # None)
    <3>1. round = "dirty" /\ round' = "refs" /\ UNCHANGED <<prev, snap, lastHash>>
      BY <1>7, <2>2 DEF DevicesDirty
    <3>2. prev # None \/ lastHash = None
      BY <3>1 DEF Noticed
    <3>3. QED
      BY <1>5, <2>2, <3>1, <3>2
  <2>3. QED
    BY <2>1, <2>2
<1>8. ASSUME NEW u \in Users, SnapshotRefs(u) \/ SnapshotCooldown(u) PROVE Noticed'
  <2>1. /\ round \in {"refs", "cool"} /\ round' \in {"refs", "count", "cool", "decide"}
        /\ UNCHANGED <<prev, dirty, lastHash>>
    BY <1>8 DEF SnapshotRefs, SnapshotCooldown
  <2>2. QED
    BY <1>5, <2>1 DEF Noticed
<1>9. CASE SnapshotCount
  BY <1>5, <1>9 DEF SnapshotCount, Noticed
<1>10. CASE Decide
  <2>1. round = "decide" /\ round' \in {"send", "reset"} /\ UNCHANGED <<prev, snap, dirty, lastHash>>
    BY <1>10 DEF Decide
  <2>2. round' = "reset" => lastHash = None \/ lastHash = snap
    BY <1>10 DEF Decide, Noticed
  <2>3. QED
    BY <1>5, <2>1, <2>2 DEF Noticed
<1>11. CASE SendCheckConnected \/ SendReadChannel \/ SendPut
  <2>1. /\ round \in {"send", "chan", "put"} /\ round' \in {"idle", "chan", "put", "save"}
        /\ UNCHANGED <<dirty, lastHash>> /\ (round' # "idle" => prev' = prev)
    BY <1>0, <1>11 DEF SendCheckConnected, SendReadChannel, SendPut, Return
  <2>2. dirty \/ lastHash = None
    BY <2>1 DEF Noticed
  <2>3. Known'
    BY <2>1, <2>2 DEF Known, Due
  <2>4. QED
    BY <1>5, <2>1, <2>2, <2>3 DEF Noticed
<1>12. CASE SaveHash
  BY <1>5, <1>12 DEF SaveHash
<1>13. CASE ResetDevicesDirty
  <2>1. round = "reset" /\ round' = "idle" /\ UNCHANGED <<open, cool, writer, missed, lastHash>>
    BY <1>0, <1>13 DEF ResetDevicesDirty
  <2>2. lastHash = None \/ lastHash = snap
    BY <2>1 DEF Noticed
  <2>3. CASE missed \/ \E u \in Users : Listed(u) # Active(u)
    <3>1. Known'
      BY <2>1, <2>3 DEF Known, Due, Listed, Active
    <3>2. QED
      BY <1>5, <2>1, <3>1
  <2>4. CASE ~missed /\ \A u \in Users : Listed(u) = Active(u)
    <3>1. DevicesIn(snap) = Reportable
      BY <2>1, <2>4, SnapshotComplete DEF SnapKept, AfterCool
    <3>2. Reportable' = Reportable
      BY <2>1 DEF Reportable, Active
    <3>3. Known'
      BY <2>1, <2>2, <3>1, <3>2 DEF Known
    <3>4. QED
      BY <1>5, <2>1, <3>3
  <2>5. QED
    BY <2>3, <2>4
<1>14. CASE NotifyConnected
  BY <1>5, <1>14 DEF NotifyConnected, Known
<1>15. CASE Connect \/ MakeWriteCh \/ QueueOther \/ WriteMessage \/ ConnectReturns \/ Disconnected
            \/ UNCHANGED vars
  <2>1. UNCHANGED <<round, prev, snap, open, cool, dirty, writer, missed, lastHash>>
    BY <1>15 DEF Connect, MakeWriteCh, QueueOther, WriteMessage, ConnectReturns, Disconnected, vars
  <2>2. QED
    BY <1>3, <1>4, <1>5, <2>1 DEF Noticed
<1>16. QED
  BY <1>1, <1>2, <1>6, <1>7, <1>8, <1>9, <1>10, <1>11, <1>12, <1>13, <1>14, <1>15
  DEF Next, ReporterStep, LinkStep

-----------------------------------------------------------------------------
(* The results. *)

TypeInv == TypeOK /\ LinkSound

LEMMA InitHolds == Init => TypeInv /\ Baseline /\ SnapKept /\ Noticed
<1> SUFFICES ASSUME Init PROVE TypeInv /\ Baseline /\ SnapKept /\ Noticed
  OBVIOUS
<1> USE DEF Init
<1>1. TypeOK
  <2>1. TablesOK /\ FlagsOK
    BY DEF TablesOK, FlagsOK
  <2>2. RoundOK /\ LinkOK
    BY SnapshotTypes DEF RoundOK, LinkOK, Rounds
  <2>3. QED
    BY <2>1, <2>2, TypeParts
<1>2. LinkSound /\ Baseline /\ SnapKept /\ Noticed
  BY NoneAssumption DEF LinkSound, Baseline, SnapKept, Noticed, Snapped, RefsVisited, CoolVisited,
     AfterCool
<1>3. QED
  BY <1>1, <1>2 DEF TypeInv

LEMMA TypeInvHolds == Spec => []TypeInv
<1>1. TypeInv /\ [Next]_vars => TypeInv'
  BY TypeStep, LinkSoundStep DEF TypeInv
<1>2. QED
  BY InitHolds, <1>1, PTL DEF Spec

\* Every variable keeps its type: the queue never holds more than its capacity, the
\* panel only addresses of users, the hash nothing but a snapshot.
THEOREM DeviceReportTyped == Spec => []TypeOK
<1>1. TypeInv => TypeOK
  BY DEF TypeInv
<1>2. QED
  BY <1>1, TypeInvHolds, PTL

LEMMA NoticedHolds == Spec => [](SnapKept /\ Noticed)
<1>1. TypeInv /\ SnapKept /\ Noticed /\ [Next]_vars => (SnapKept /\ Noticed)'
  BY SnapStep, NoticedStep DEF TypeInv
<1>2. QED
  BY InitHolds, TypeInvHolds, <1>1, PTL DEF Spec

LEMMA BaselineHolds == ASSUME ~SlowRounds PROVE Spec => []Baseline
<1>1. TypeInv /\ Baseline /\ [Next]_vars => Baseline'
  BY BaselineStep DEF TypeInv
<1>2. QED
  BY InitHolds, TypeInvHolds, <1>1, PTL DEF Spec

\* Between two rounds the saved hash stands for what the panel has or will have, as
\* long as no round outlasts a reconnect: it never suppresses a report that is due,
\* whatever the queue, the messages beside the reports and the reconnects.
THEOREM BaselineIsTrue == ASSUME ~SlowRounds PROVE Spec => []BaselineTrue
<1>1. Baseline => BaselineTrue
  BY DEF Baseline, BaselineTrue, View
<1>2. QED
  BY <1>1, BaselineHolds, PTL

\* A difference between the tables and what the panel will have leaves a trace that
\* makes a later round report it, unless a table changed behind a round's snapshot.
THEOREM ChangeIsNoticed == ASSUME ~SlowRounds PROVE Spec => []ChangeNoticed
<1>1. Baseline /\ Noticed => ChangeNoticed
  BY DEF Baseline, Noticed, ChangeNoticed, View, Due
<1>2. QED
  BY <1>1, BaselineHolds, NoticedHolds, PTL

=============================================================================
