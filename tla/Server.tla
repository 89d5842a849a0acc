------------------------------- MODULE Server -------------------------------
(***************************************************************************)
(* The process: the event loop that starts core and nodes, reloads them    *)
(* when the configuration changes and closes them on a signal              *)
(* (serverHandle and reload, cmd/server.go; Node.Start and Close,          *)
(* node/node.go; Controller.Start and Close, node/controller.go), and the  *)
(* file watcher that asks for reloads (Conf.Watch, conf/watch.go).         *)
(*                                                                         *)
(* A version of the configuration is a number; NodeConfig gives its nodes, *)
(* each named by its tag.  The limiters live in a map of the process, the  *)
(* inbounds in the core, which a reload replaces.  Time is abstracted to   *)
(* the watcher's window: for ten seconds after an event it accepted, it    *)
(* ignores others; half way through, the reload is asked for.  The polls   *)
(* that change a running node are UserSync's subject.                      *)
(***************************************************************************)
EXTENDS Integers, Sequences, SequencesExt

CONSTANTS
    Tags,        \* the nodes' tags
    NodeConfig,  \* the nodes of each version of the configuration
    MaxEdits,    \* bound: edits of the configuration file
    MaxFaults    \* bound: failures of files, panel, certificates and core

ASSUME BoundsAssumption == MaxEdits \in Nat /\ MaxFaults \in Nat
ASSUME ConfigAssumption == NodeConfig \in [0..MaxEdits -> Seq(Tags)]

VARIABLES
    file,      \* the version on disk
    event,     \* the file system has an event for the watcher
    watching,  \* Conf.Watch has been called
    window,    \* the watcher: "open", "sleep" (reload not asked for yet), "hold"
    reloadCh,  \* the signals in reloadCh, a channel of capacity 1
    loop,      \* where the event loop stands
    exiting,   \* it has got SIGINT or SIGTERM
    conf,      \* the version it loaded last
    idx,       \* the controller it starts or closes
    core,      \* the core in vc: "none" (not started or closed), the "first", a "later" one
    limiters,  \* the tags in the limiter map
    inbounds,  \* the tags with an inbound in the core
    running,   \* the tags whose controller's tasks run
    faults,
    missed     \* history: an edit that no reload will follow

watchVars == <<event, watching, window, reloadCh>>
nodeVars == <<limiters, inbounds, running>>
vars == <<file, event, watching, window, reloadCh, loop, exiting, conf, idx, core,
          limiters, inbounds, running, faults, missed>>

-----------------------------------------------------------------------------
\* The event loop's places: the steps of serverHandle and reload, in order.
Places == {"load", "core", "limiter", "node", "tasks", "watch", "select",
           "closelimiter", "closetasks", "closenode", "closecore", "down"}

TypeOK ==
    /\ file \in 0..MaxEdits /\ conf \in 0..MaxEdits
    /\ event \in BOOLEAN /\ watching \in BOOLEAN
    /\ window \in {"open", "sleep", "hold"}
    /\ reloadCh \in 0..1
    /\ loop \in Places /\ exiting \in BOOLEAN
    /\ idx \in 1..(Len(NodeConfig[conf]) + 1)
    /\ core \in {"none", "first", "later"}
    /\ limiters \in SUBSET Tags /\ inbounds \in SUBSET Tags /\ running \in SUBSET Tags
    /\ faults \in 0..MaxFaults
    /\ missed \in BOOLEAN

Init ==
    /\ file = 0 /\ event = FALSE /\ watching = FALSE /\ window = "open" /\ reloadCh = 0
    /\ loop = "load" /\ exiting = FALSE /\ conf = 0 /\ idx = 1
    /\ core = "none" /\ limiters = {} /\ inbounds = {} /\ running = {}
    /\ faults = 0 /\ missed = FALSE

\* The node of the controller that is being started or closed, and the end of them.
Tag == NodeConfig[conf][idx]
Past(i) == i > Len(NodeConfig[conf])

\* An error: serverHandle returns, or panics when it is reload's.
Down ==
    /\ faults < MaxFaults /\ faults' = faults + 1
    /\ loop' = "down"

-----------------------------------------------------------------------------
(* Start and reload. *)

\* LoadFromPath; from here on only a later edit can be missed.
LoadFromPath ==
    /\ loop = "load"
    /\ \/ loop' = "core" /\ conf' = file /\ missed' = FALSE /\ idx' = 1 /\ UNCHANGED faults
       \/ Down /\ UNCHANGED <<conf, missed, idx>>
    /\ UNCHANGED <<file, watchVars, exiting, core, nodeVars>>

\* NewCore and its Start: a core without inbounds.
StartCore ==
    /\ loop = "core"
    /\ \/ /\ loop' = IF ~Past(1) THEN "limiter" ELSE IF watching THEN "select" ELSE "watch"
          /\ core' = IF watching THEN "later" ELSE "first"
          /\ UNCHANGED faults
       \/ Down /\ UNCHANGED core
    /\ UNCHANGED <<file, watchVars, exiting, conf, idx, nodeVars, missed>>

\* Controller.Start: the pulls, then AddLimiter.
AddLimiter ==
    /\ loop = "limiter"
    /\ \/ /\ limiters' = limiters \cup {Tag}
          /\ loop' = "node" /\ UNCHANGED faults
       \/ Down /\ UNCHANGED limiters
    /\ UNCHANGED <<file, watchVars, exiting, conf, idx, core, inbounds, running, missed>>

\* Controller.Start: rules, certificate, AddNode and AddUsers; the core refuses a
\* second inbound of the same tag (external).
AddNode ==
    /\ loop = "node"
    /\ \/ /\ Tag \notin inbounds
          /\ inbounds' = inbounds \cup {Tag}
          /\ loop' = "tasks" /\ UNCHANGED faults
       \/ Tag \in inbounds /\ loop' = "down" /\ UNCHANGED <<inbounds, faults>>
       \/ Down /\ inbounds' \in {inbounds, inbounds \cup {Tag}}
    /\ UNCHANGED <<file, watchVars, exiting, conf, idx, core, limiters, running, missed>>

\* Controller.Start: startTasks and startWS, which cannot fail; the next controller.
StartTasks ==
    /\ loop = "tasks"
    /\ running' = running \cup {Tag}
    /\ idx' = idx + 1
    /\ loop' = IF ~Past(idx + 1) THEN "limiter" ELSE IF watching THEN "select" ELSE "watch"
    /\ UNCHANGED <<file, watchVars, exiting, conf, core, limiters, inbounds, faults, missed>>

BeginWatch ==
    /\ loop = "watch"
    /\ \/ watching' = TRUE /\ loop' = "select" /\ UNCHANGED faults
       \/ Down /\ UNCHANGED watching
    /\ UNCHANGED <<file, event, window, reloadCh, exiting, conf, idx, core, nodeVars, missed>>

\* The event loop leaves its select: the nodes are closed first, whatever comes next.
CloseNodes ==
    /\ loop = "select"
    /\ loop' = IF Past(1) THEN "closecore" ELSE "closelimiter"
    /\ idx' = 1
    /\ UNCHANGED <<file, event, watching, window, conf, core, nodeVars, faults, missed>>

ExitSignal == CloseNodes /\ exiting' = TRUE /\ UNCHANGED reloadCh

ReloadSignal == reloadCh > 0 /\ reloadCh' = reloadCh - 1 /\ CloseNodes /\ UNCHANGED exiting

\* Seeded fault: the whole map is cleared for one controller.
Bug_DeleteLimiterAll ==
    /\ loop = "closelimiter"
    /\ limiters' = {}
    /\ loop' = "closetasks"
    /\ UNCHANGED <<file, watchVars, exiting, conf, idx, core, inbounds, running, faults, missed>>

\* Controller.Close: DeleteLimiter ...
DeleteLimiter ==
    /\ loop = "closelimiter"
    /\ limiters' = limiters \ {Tag}
    /\ loop' = "closetasks"
    /\ UNCHANGED <<file, watchVars, exiting, conf, idx, core, inbounds, running, faults, missed>>

\* Seeded fault: a closed controller's tasks go on.
Bug_CloseTasksForgotten ==
    /\ loop = "closetasks"
    /\ loop' = "closenode"
    /\ UNCHANGED <<file, watchVars, exiting, conf, idx, core, nodeVars, faults, missed>>

\* ... then the tasks, which end at once here.  (A poll in flight may find a new interval
\* and Start them again, task.go:210-225: left out, as all polls are) ...
CloseTasks ==
    /\ loop = "closetasks"
    /\ running' = running \ {Tag}
    /\ loop' = "closenode"
    /\ UNCHANGED <<file, watchVars, exiting, conf, idx, core, limiters, inbounds, faults, missed>>

\* ... then DelNode, whose failure is only logged.
DelNode ==
    /\ loop = "closenode"
    /\ \/ inbounds' = inbounds \ {Tag} /\ UNCHANGED faults
       \/ faults < MaxFaults /\ faults' = faults + 1 /\ UNCHANGED inbounds
    /\ idx' = idx + 1
    /\ loop' = IF Past(idx + 1) THEN "closecore" ELSE "closelimiter"
    /\ UNCHANGED <<file, watchVars, exiting, conf, core, limiters, running, missed>>

\* reload closes the core, with what inbounds it has left, and goes on with the file.
CloseCore ==
    /\ loop = "closecore" /\ ~exiting
    /\ inbounds' = {} /\ core' = "none"
    /\ idx' = 1
    /\ \/ loop' = "load" /\ UNCHANGED faults
       \/ Down
    /\ UNCHANGED <<file, watchVars, exiting, conf, limiters, running, missed>>

\* serverHandle returns: its deferred Close is bound to the first core, whatever vc
\* holds by now.
ExitCloseCore ==
    /\ loop = "closecore" /\ exiting
    /\ loop' = "down"
    /\ IF core = "first"
       THEN inbounds' = {} /\ core' = "none"
       ELSE UNCHANGED <<inbounds, core>>
    /\ UNCHANGED <<file, watchVars, exiting, conf, idx, limiters, running, faults, missed>>

-----------------------------------------------------------------------------
(* The watcher. *)

\* The file changes; without a watcher nobody is told.
Edit ==
    /\ file < MaxEdits
    /\ file' = file + 1
    /\ event' = watching
    /\ missed' = (missed \/ ~watching)
    /\ UNCHANGED <<watching, window, reloadCh, loop, exiting, conf, idx, core, nodeVars, faults>>

\* A reload is due that will read the file as it is now.
ReloadDue ==
    \/ window = "sleep" \/ reloadCh > 0
    \/ ~exiting /\ loop \in {"closelimiter", "closetasks", "closenode", "closecore", "load"}

\* Watch: an event within ten seconds of the last one accepted is ignored.
WatchEvent ==
    /\ event /\ event' = FALSE
    /\ IF window = "open"
       THEN window' = "sleep" /\ UNCHANGED missed
       ELSE /\ missed' = (missed \/ (file # conf /\ ~ReloadDue))
            /\ UNCHANGED window
    /\ UNCHANGED <<file, watching, reloadCh, loop, exiting, conf, idx, core, nodeVars, faults>>

\* Seeded fault: the signals pile up.
Bug_SleepEndsUnbounded ==
    /\ window = "sleep" /\ window' = "hold"
    /\ reloadCh' = reloadCh + 1
    /\ UNCHANGED <<file, event, watching, loop, exiting, conf, idx, core, nodeVars, faults, missed>>

\* Seeded fault: without a buffer only a waiting event loop gets the signal.
Bug_SleepEndsUnbuffered ==
    /\ window = "sleep" /\ window' = "hold"
    /\ reloadCh' = IF loop = "select" THEN 1 ELSE reloadCh
    /\ UNCHANGED <<file, event, watching, loop, exiting, conf, idx, core, nodeVars, faults, missed>>

\* Five seconds after it the reload is asked for, unless one is queued already.
SleepEnds ==
    /\ window = "sleep" /\ window' = "hold"
    /\ reloadCh' = 1
    /\ UNCHANGED <<file, event, watching, loop, exiting, conf, idx, core, nodeVars, faults, missed>>

HoldEnds ==
    /\ window = "hold" /\ window' = "open"
    /\ UNCHANGED <<file, event, watching, reloadCh, loop, exiting, conf, idx, core, nodeVars,
                   faults, missed>>

-----------------------------------------------------------------------------
LoopStep ==
    \/ LoadFromPath \/ StartCore \/ AddLimiter \/ AddNode \/ StartTasks \/ BeginWatch
    \/ ReloadSignal \/ DeleteLimiter \/ CloseTasks \/ DelNode
    \/ CloseCore \/ ExitCloseCore

\* A process that is down takes no more steps.
WatcherStep == loop # "down" /\ (WatchEvent \/ SleepEnds \/ HoldEnds)

Next == LoopStep \/ ExitSignal \/ WatcherStep \/ Edit

Spec == Init /\ [][Next]_vars

\* The two goroutines run on, and the ten seconds pass; nothing makes a signal to exit
\* or an edit come.
FairSpec == Spec /\ WF_vars(LoopStep) /\ WF_vars(WatcherStep)

-----------------------------------------------------------------------------
(* Properties. *)

\* The nodes whose Close has begun.
Closed ==
    IF loop \in {"closetasks", "closenode", "closelimiter", "closecore"}
    THEN {NodeConfig[conf][i] : i \in 1..idx \cap DOMAIN NodeConfig[conf]}
    ELSE {}

\* An inbound never accepts connections its limiter is missing for (getLink refuses
\* them all), except one whose Controller.Close has begun: DelNode comes after
\* DeleteLimiter, and may fail.
InboundLimited == loop # "down" => inbounds \ limiters \subseteq Closed

\* When the event loop waits, limiters, inbounds and tasks are those of the
\* configuration it loaded: no reload, whatever failed on its way, leaves anything of
\* an old node behind or anything of a new one out.  It is stated for tasks without an
\* execution in flight when Controller.Close stops them.
NodesAsConfigured ==
    loop = "select" =>
        LET tags == ToSet(NodeConfig[conf])
        IN  limiters = tags /\ inbounds = tags /\ running = tags

\* An edit is loaded, unless it came before the watcher or in the second half of its
\* window (missed) or the process goes down: no signal is lost on the way to the loop.
\* Every edit is taken to yield an event; whether a rename over the file does is up to
\* fsnotify.
EditLoaded == (file # conf) ~> (file = conf \/ missed \/ loop = "down")

=============================================================================
