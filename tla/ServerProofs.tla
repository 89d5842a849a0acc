----------------------------- MODULE ServerProofs -----------------------------
(***************************************************************************)
(* Start, reload and exit keep limiters, inbounds and tasks in step: at    *)
(* each place of the event loop, what is there is what the controllers     *)
(* before (when starting) or after (when closing) the current one make.    *)
(***************************************************************************)
EXTENDS Server, TLAPS

\* The tags of the first n nodes of the configuration, and of those from the n-th on.
FirstTags(n) == {NodeConfig[conf][i] : i \in 1..n}
TagsFrom(n) == {NodeConfig[conf][i] : i \in n..Len(NodeConfig[conf])}
AllTags == FirstTags(Len(NodeConfig[conf]))

\* Starting: limiter, inbound and tasks of one controller after the other.
Starting ==
    /\ loop \in {"load", "core"} => idx = 1 /\ limiters = {} /\ inbounds = {} /\ running = {}
    /\ loop = "limiter" =>
          /\ limiters = FirstTags(idx - 1)
          /\ inbounds = FirstTags(idx - 1) /\ running = FirstTags(idx - 1)
    /\ loop = "node" =>
          /\ limiters = FirstTags(idx)
          /\ inbounds = FirstTags(idx - 1) /\ running = FirstTags(idx - 1)
    /\ loop = "tasks" =>
          limiters = FirstTags(idx) /\ inbounds = FirstTags(idx) /\ running = FirstTags(idx - 1)
    /\ loop \in {"watch", "select"} =>
          limiters = AllTags /\ inbounds = AllTags /\ running = AllTags

\* Closing: what is left of limiters and tasks is of controllers still to be closed, and
\* the limiters of those are all there.
Closing ==
    /\ loop = "closelimiter" =>
          /\ limiters \subseteq TagsFrom(idx) /\ running \subseteq TagsFrom(idx)
          /\ AllTags \ FirstTags(idx - 1) \subseteq limiters
    /\ loop = "closetasks" =>
          /\ limiters \subseteq TagsFrom(idx + 1) /\ running \subseteq TagsFrom(idx)
          /\ AllTags \ FirstTags(idx) \subseteq limiters
    /\ loop = "closenode" =>
          /\ limiters \subseteq TagsFrom(idx + 1) /\ running \subseteq TagsFrom(idx + 1)
          /\ AllTags \ FirstTags(idx) \subseteq limiters
    /\ loop \in {"closelimiter", "closetasks", "closenode", "closecore"} =>
          inbounds \subseteq AllTags
    /\ loop = "closecore" => Past(idx) /\ limiters = {} /\ running = {}

\* A controller's steps are taken for a controller that is there.
AtNode ==
    loop \in {"limiter", "node", "tasks", "closelimiter", "closetasks", "closenode"} => ~Past(idx)

\* The flags, apart from the rest of TypeOK.
FlagsOK == event \in BOOLEAN /\ watching \in BOOLEAN /\ exiting \in BOOLEAN /\ missed \in BOOLEAN
DataOK ==
    /\ file \in 0..MaxEdits /\ conf \in 0..MaxEdits
    /\ window \in {"open", "sleep", "hold"}
    /\ reloadCh \in 0..1
    /\ loop \in Places
    /\ idx \in 1..(Len(NodeConfig[conf]) + 1)
    /\ core \in {"none", "first", "later"}
    /\ limiters \in SUBSET Tags /\ inbounds \in SUBSET Tags /\ running \in SUBSET Tags
    /\ faults \in 0..MaxFaults

IInv == TypeOK /\ AtNode /\ Starting /\ Closing

-----------------------------------------------------------------------------
(* The tags of a configuration. *)

LEMMA Nodes ==
    ASSUME NEW v \in 0..MaxEdits
    PROVE  /\ Len(NodeConfig[v]) \in Nat
           /\ \A i \in 1..Len(NodeConfig[v]) : NodeConfig[v][i] \in Tags
BY ConfigAssumption

LEMMA FirstTagsGrow ==
    ASSUME NEW n \in Nat
    PROVE  /\ FirstTags(0) = {}
           /\ FirstTags(n + 1) = FirstTags(n) \cup {NodeConfig[conf][n + 1]}
BY DEF FirstTags

LEMMA TagsFromShrink ==
    ASSUME TypeOK, NEW n \in Nat
    PROVE  /\ AllTags = TagsFrom(1)
           /\ TagsFrom(Len(NodeConfig[conf]) + 1) = {}
           /\ TagsFrom(n) \ {NodeConfig[conf][n]} \subseteq TagsFrom(n + 1)
<1>1. Len(NodeConfig[conf]) \in Nat
  BY Nodes DEF TypeOK
<1>2. QED
  BY <1>1 DEF AllTags, FirstTags, TagsFrom

\* The controller at hand: its tag is one of the configuration's.
LEMMA AtHand ==
    ASSUME TypeOK, ~Past(idx)
    PROVE  /\ idx \in 1..Len(NodeConfig[conf])
           /\ Tag \in Tags /\ Tag \in AllTags
           /\ Len(NodeConfig[conf]) \in Nat
<1>1. /\ Len(NodeConfig[conf]) \in Nat
      /\ \A i \in 1..Len(NodeConfig[conf]) : NodeConfig[conf][i] \in Tags
  BY Nodes DEF TypeOK
<1>2. QED
  BY <1>1 DEF TypeOK, Past, Tag, AllTags, FirstTags

\* The end of a list: nothing is left of it, or all of it was walked.
LEMMA AtEnd ==
    ASSUME TypeOK, Past(idx)
    PROVE  idx = Len(NodeConfig[conf]) + 1
<1>1. Len(NodeConfig[conf]) \in Nat
  BY Nodes DEF TypeOK
<1>2. QED
  BY <1>1 DEF TypeOK, Past

-----------------------------------------------------------------------------
(* The inductive step. *)

LEMMA InitHolds == Init => IInv
<1>1. ASSUME Init PROVE DataOK
  <2>1. 0 \in 0..MaxEdits /\ 0 \in 0..MaxFaults
    BY BoundsAssumption
  <2>2. Len(NodeConfig[0]) \in Nat
    BY Nodes, <2>1
  <2>3. 1 \in 1..(Len(NodeConfig[0]) + 1)
    BY <2>2
  <2>4. QED
    BY <1>1, <2>1, <2>3 DEF Init, DataOK, Places
<1>2. Init => FlagsOK
  BY Zenon DEF Init, FlagsOK
<1>3. Init => TypeOK
  BY <1>1, <1>2 DEF TypeOK, DataOK, FlagsOK
<1>4. QED
  BY <1>3 DEF Init, IInv, AtNode, Starting, Closing

LEMMA DataStep == TypeOK /\ AtNode /\ [Next]_vars => DataOK'
<1> SUFFICES ASSUME TypeOK, AtNode, [Next]_vars PROVE DataOK'
  OBVIOUS
<1> USE DEF TypeOK, DataOK, Places
<1>1. \A v \in 0..MaxEdits : Len(NodeConfig[v]) \in Nat
  BY Nodes
<1>2. ~Past(idx) => idx + 1 \in 1..(Len(NodeConfig[conf]) + 1) /\ Tag \in Tags
  BY <1>1, AtHand
<1>3. CASE LoadFromPath
  BY <1>1, <1>3, BoundsAssumption DEF LoadFromPath, Down, watchVars, nodeVars
<1>4. CASE StartCore
  BY <1>4, BoundsAssumption DEF StartCore, Down, watchVars, nodeVars
<1>5. CASE AddLimiter
  BY <1>2, <1>5, BoundsAssumption DEF AddLimiter, Down, watchVars, AtNode
<1>6. CASE AddNode
  BY <1>2, <1>6, BoundsAssumption DEF AddNode, Down, watchVars, AtNode
<1>7. CASE StartTasks
  BY <1>2, <1>7 DEF StartTasks, watchVars, AtNode
<1>8. CASE BeginWatch
  BY <1>8, BoundsAssumption DEF BeginWatch, Down, nodeVars
<1>9. CASE ExitSignal \/ ReloadSignal
  <2>1. 1 \in 1..(Len(NodeConfig[conf]) + 1)
    BY <1>1
  <2>2. QED
    BY <1>9, <2>1 DEF ExitSignal, ReloadSignal, CloseNodes, nodeVars
<1>10. CASE DeleteLimiter \/ CloseTasks
  BY <1>10 DEF DeleteLimiter, CloseTasks, watchVars
<1>11. CASE DelNode
  BY <1>2, <1>11, BoundsAssumption DEF DelNode, watchVars, AtNode
<1>12. CASE CloseCore
  <2>1. 1 \in 1..(Len(NodeConfig[conf]) + 1)
    BY <1>1
  <2>2. QED
    BY <1>12, <2>1, BoundsAssumption DEF CloseCore, Down, watchVars
<1>13. CASE ExitCloseCore
  BY <1>13 DEF ExitCloseCore, watchVars
<1>14. CASE WatcherStep
  BY <1>14 DEF WatcherStep, WatchEvent, SleepEnds, HoldEnds, nodeVars
<1>15. CASE Edit
  BY <1>15, BoundsAssumption DEF Edit, nodeVars
<1>16. CASE UNCHANGED vars
  BY <1>16 DEF vars
<1>17. QED
  BY <1>3, <1>4, <1>5, <1>6, <1>7, <1>8, <1>9, <1>10, <1>11, <1>12, <1>13, <1>14, <1>15, <1>16
  DEF Next, LoopStep

LEMMA FlagsStep == TypeOK /\ [Next]_vars => FlagsOK'
<1> SUFFICES ASSUME TypeOK, [Next]_vars PROVE FlagsOK'
  OBVIOUS
<1> USE DEF FlagsOK
<1>1. event \in BOOLEAN /\ watching \in BOOLEAN /\ exiting \in BOOLEAN /\ missed \in BOOLEAN
  BY DEF TypeOK
<1>2. CASE LoadFromPath
  BY <1>1, <1>2, Zenon DEF LoadFromPath, watchVars
<1>3. CASE StartCore \/ AddLimiter \/ AddNode \/ StartTasks
  BY <1>1, <1>3, Zenon DEF StartCore, AddLimiter, AddNode, StartTasks, watchVars
<1>4. CASE BeginWatch
  BY <1>1, <1>4, Zenon DEF BeginWatch
<1>5. CASE ExitSignal \/ ReloadSignal
  BY <1>1, <1>5, Zenon DEF ExitSignal, ReloadSignal, CloseNodes
<1>6. CASE DeleteLimiter \/ CloseTasks \/ DelNode
  BY <1>1, <1>6, Zenon DEF DeleteLimiter, CloseTasks, DelNode, watchVars
<1>7. CASE CloseCore \/ ExitCloseCore
  BY <1>1, <1>7, Zenon DEF CloseCore, ExitCloseCore, watchVars
<1>8. CASE WatchEvent
  <2>1. missed' \in BOOLEAN
    <3>1. CASE window = "open"
      BY <1>1, <1>8, <3>1, Zenon DEF WatchEvent
    <3>2. CASE window # "open"
      BY <1>1, <1>8, <3>2, Zenon DEF WatchEvent
    <3>3. QED
      BY <3>1, <3>2
  <2>2. QED
    BY <1>1, <1>8, <2>1, Zenon DEF WatchEvent
<1>9. CASE SleepEnds \/ HoldEnds
  BY <1>1, <1>9, Zenon DEF SleepEnds, HoldEnds
<1>10. CASE Edit
  BY <1>1, <1>10, Zenon DEF Edit
<1>11. CASE UNCHANGED vars
  BY <1>1, <1>11, Zenon DEF vars
<1>12. QED
  BY <1>2, <1>3, <1>4, <1>5, <1>6, <1>7, <1>8, <1>9, <1>10, <1>11, Zenon
  DEF Next, LoopStep, WatcherStep

LEMMA TypeStep == TypeOK /\ AtNode /\ [Next]_vars => TypeOK'
BY DataStep, FlagsStep DEF TypeOK, DataOK, FlagsOK

\* The lists of tags at the current controller, and at the ends.
LEMMA Lists ==
    ASSUME TypeOK
    PROVE  /\ FirstTags(0) = {} /\ FirstTags(idx) = FirstTags(idx - 1) \cup {Tag}
           /\ TagsFrom(1) = AllTags /\ TagsFrom(idx) \ {Tag} \subseteq TagsFrom(idx + 1)
           /\ ~Past(idx) => Tag \in AllTags
           /\ ~Past(idx) /\ Past(idx + 1) => FirstTags(idx) = AllTags /\ TagsFrom(idx + 1) = {}
           /\ Past(1) => AllTags = {}
<1>1. Len(NodeConfig[conf]) \in Nat /\ idx \in Nat \ {0}
  BY Nodes DEF TypeOK
<1>2. idx = (idx - 1) + 1 /\ idx - 1 \in Nat
  BY <1>1
<1>3. FirstTags(0) = {} /\ FirstTags(idx) = FirstTags(idx - 1) \cup {Tag}
  BY <1>1, <1>2, FirstTagsGrow DEF Tag
<1>4. TagsFrom(1) = AllTags /\ TagsFrom(idx) \ {Tag} \subseteq TagsFrom(idx + 1)
  BY <1>1, TagsFromShrink DEF Tag
<1>5. ~Past(idx) => Tag \in AllTags
  BY AtHand
<1>6. ~Past(idx) /\ Past(idx + 1) => idx = Len(NodeConfig[conf])
  BY <1>1 DEF Past
<1>7. Past(1) => Len(NodeConfig[conf]) = 0
  BY <1>1 DEF Past
<1>8. QED
  BY <1>1, <1>3, <1>4, <1>5, <1>6, <1>7, TagsFromShrink, FirstTagsGrow DEF AllTags

\* Unless the configuration is loaded, the lists of tags of the next state are this
\* one's, at its idx.
LEMMA SameTags ==
    ASSUME conf' = conf
    PROVE  /\ FirstTags(idx - 1)' = FirstTags(idx' - 1) /\ FirstTags(idx)' = FirstTags(idx')
           /\ TagsFrom(idx)' = TagsFrom(idx') /\ TagsFrom(idx + 1)' = TagsFrom(idx' + 1)
           /\ AllTags' = AllTags /\ (Past(idx)' <=> Past(idx'))
BY DEF FirstTags, TagsFrom, AllTags, Past

\* Steps that leave the event loop and the nodes as they are.
LEMMA Elsewhere ==
    ASSUME IInv, UNCHANGED <<loop, conf, idx, nodeVars>>
    PROVE  AtNode' /\ Starting' /\ Closing'
BY SameTags DEF IInv, AtNode, Starting, Closing, nodeVars

LEMMA StepHolds == IInv /\ [Next]_vars => IInv'
<1> SUFFICES ASSUME IInv, [Next]_vars PROVE AtNode' /\ Starting' /\ Closing'
  BY TypeStep DEF IInv
<1> USE DEF AtNode, Starting, Closing
<1>1. TypeOK /\ AtNode /\ Starting /\ Closing
  BY DEF IInv
<1>2. idx \in Nat \ {0} /\ (idx + 1) - 1 = idx /\ 1 - 1 = 0
  BY <1>1, Nodes DEF TypeOK
<1>3. CASE LoadFromPath
  BY <1>1, <1>3 DEF LoadFromPath, Down, nodeVars
<1>4. CASE StartCore
  BY <1>1, <1>2, <1>4, Lists, SameTags DEF StartCore, Down, nodeVars
<1>5. CASE AddLimiter
  BY <1>1, <1>5, Lists, SameTags DEF AddLimiter, Down
<1>6. CASE AddNode
  BY <1>1, <1>6, Lists, SameTags DEF AddNode, Down
<1>7. CASE StartTasks
  BY <1>1, <1>2, <1>7, Lists, SameTags DEF StartTasks
<1>8. CASE BeginWatch
  BY <1>1, <1>8, SameTags DEF BeginWatch, Down, nodeVars
<1>9. CASE ExitSignal \/ ReloadSignal
  BY <1>1, <1>2, <1>9, Lists, SameTags DEF ExitSignal, ReloadSignal, CloseNodes, nodeVars
<1>10. CASE DeleteLimiter
  BY <1>1, <1>10, Lists, SameTags DEF DeleteLimiter
<1>11. CASE CloseTasks
  BY <1>1, <1>11, Lists, SameTags DEF CloseTasks
<1>12. CASE DelNode
  BY <1>1, <1>2, <1>12, Lists, SameTags DEF DelNode
<1>13. CASE CloseCore
  BY <1>1, <1>2, <1>13, SameTags DEF CloseCore, Down
<1>14. CASE ExitCloseCore
  BY <1>14 DEF ExitCloseCore
<1>15. CASE WatcherStep \/ Edit \/ UNCHANGED vars
  BY <1>15, Elsewhere DEF WatcherStep, WatchEvent, SleepEnds, HoldEnds, Edit, vars, nodeVars
<1>16. QED
  BY <1>3, <1>4, <1>5, <1>6, <1>7, <1>8, <1>9, <1>10, <1>11, <1>12, <1>13, <1>14, <1>15
  DEF Next, LoopStep

LEMMA InvHolds == Spec => []IInv
<1>1. IInv /\ [Next]_vars => IInv'
  BY StepHolds
<1>2. QED
  BY InitHolds, <1>1, PTL DEF Spec

\* What the lists of tags come to when the event loop waits, and while it works.
LEMMA InvConfigured == IInv => NodesAsConfigured
<1> SUFFICES ASSUME IInv, loop = "select"
             PROVE  LET tags == ToSet(NodeConfig[conf])
                    IN  limiters = tags /\ inbounds = tags /\ running = tags
  BY DEF NodesAsConfigured
<1>1. NodeConfig[conf] \in Seq(Tags)
  BY ConfigAssumption DEF IInv, TypeOK
<1>2. AllTags = ToSet(NodeConfig[conf])
  BY <1>1 DEF AllTags, FirstTags, ToSet
<1>3. QED
  BY <1>2 DEF IInv, Starting

LEMMA InvLimited == IInv => InboundLimited
<1> SUFFICES ASSUME IInv, loop # "down" PROVE inbounds \ limiters \subseteq Closed
  BY DEF InboundLimited
<1>1. TypeOK /\ AtNode /\ Starting /\ Closing
  BY DEF IInv
<1>2. CASE loop \in {"load", "core", "limiter", "node", "tasks", "watch", "select"}
  BY <1>1, <1>2, Lists DEF Starting, AtNode
<1>3. CASE loop \in {"closelimiter", "closetasks", "closenode", "closecore"}
  <2>1. Len(NodeConfig[conf]) \in Nat /\ idx \in Nat \ {0}
    BY <1>1, Nodes DEF TypeOK
  <2>2. DOMAIN NodeConfig[conf] = 1..Len(NodeConfig[conf])
    BY <1>1, ConfigAssumption DEF TypeOK
  <2>3. loop # "closecore" =>
           FirstTags(idx) \subseteq Closed /\ FirstTags(idx - 1) \subseteq Closed
    BY <1>1, <1>3, <2>1, <2>2 DEF AtNode, Past, FirstTags, Closed
  <2>4. loop = "closecore" => AllTags \subseteq Closed
    BY <1>1, <1>3, <2>1, <2>2 DEF Closing, Past, AllTags, FirstTags, Closed
  <2>5. QED
    BY <1>1, <1>3, <2>3, <2>4 DEF Closing
<1>4. QED
  BY <1>1, <1>2, <1>3 DEF TypeOK, Places

-----------------------------------------------------------------------------
(* The theorems. *)

\* Type correctness: every variable of the process stays in its type; in particular the
\* event loop never looks at a controller beyond the end of the list, and reloadCh, of
\* capacity 1, never holds a second signal.
THEOREM ServerTypes == Spec => []TypeOK
<1>1. IInv => TypeOK
  BY DEF IInv
<1>2. QED
  BY InvHolds, <1>1, PTL

\* When serverHandle waits in its select, limiters, inbounds and tasks are exactly those
\* of the configuration it loaded last: for every list of nodes, every number of edits,
\* and every failure of DelNode or of a reload before; without a poll in flight at
\* Controller.Close, which could Start the closed tasks again (task.go:210-225).
THEOREM NodesFollowConfig == Spec => []NodesAsConfigured
<1>1. QED
  BY InvHolds, InvConfigured, PTL

\* While the process runs, every inbound has its limiter, except where Controller.Close,
\* which deletes the limiter before the inbound, has begun or DelNode has failed.
THEOREM InboundsLimited == Spec => []InboundLimited
<1>1. QED
  BY InvHolds, InvLimited, PTL

=============================================================================
