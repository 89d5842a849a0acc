-------------------------------- MODULE Task --------------------------------
(***************************************************************************)
(* A periodic task (common/task/task.go): the loop goroutines that Start   *)
(* creates, the goroutines that run Execute, the timeout that abandons an  *)
(* Execute, and Start / Close from any goroutine - the monitor restarts    *)
(* itself and the other tasks from inside its own Execute (node/task.go).  *)
(*                                                                         *)
(* Start number n makes channel n, assigns it to t.stop and starts loop n. *)
(* A loop reads t.stop without the mutex each time it enters the select,   *)
(* so it sees some channel assigned since the one it saw last.  Execute    *)
(* returns nil, panics, or hangs: no Execute of this program returns an    *)
(* error.  Time is abstracted: a tick or a timeout may come at any moment. *)
(***************************************************************************)
EXTENDS Integers

CONSTANTS
    MaxStarts,  \* bound: how often Start really starts
    Execs,      \* slots for the goroutines of executeWithTimeout
    None        \* no goroutine

ASSUME MaxStartsAssumption == MaxStarts \in Nat
ASSUME ExecsAssumption == None \notin Execs

VARIABLES
    running,   \* t.running
    stop,      \* the channel t.stop holds; 0 before the first Start
    closed,    \* the channels that are closed
    inFlight,  \* t.inFlight
    crashed,   \* a close of a closed channel has taken the process down
    pc,        \* where a loop goroutine stands
    watch,     \* the channel a loop last read from t.stop
    awaits,    \* the Execute goroutine whose done channel a loop waits for
    st,        \* the Execute goroutines
    result,    \* what is in their done channels
    wanted     \* history: the owner's last call was Start, not Close

taskVars == <<running, stop, closed, inFlight, crashed, wanted>>
loopVars == <<pc, watch, awaits>>
execVars == <<st, result>>
vars == <<running, stop, closed, inFlight, crashed, pc, watch, awaits, st, result, wanted>>

Loops == 1..MaxStarts

\* The places of a loop goroutine:
\*   none     not created                  run      about to call executeWithTimeout
\*   top      about to enter the select    select   in it, with a channel
\*   wait     waiting for done             fail     got an error
\*   ended    returned
Places == {"none", "run", "top", "select", "wait", "fail", "ended"}

TypeOK ==
    /\ running \in BOOLEAN /\ inFlight \in BOOLEAN
    /\ crashed \in BOOLEAN /\ wanted \in BOOLEAN
    /\ stop \in 0..MaxStarts
    /\ closed \in SUBSET (0..MaxStarts)
    /\ pc \in [Loops -> Places]
    /\ watch \in [Loops -> 0..MaxStarts]
    /\ awaits \in [Loops -> Execs \cup {None}]
    /\ st \in [Execs -> {"idle", "running", "resetting"}]
    /\ result \in [Execs -> {"empty", "nil", "err"}]

Init ==
    /\ running = FALSE /\ inFlight = FALSE /\ crashed = FALSE /\ wanted = FALSE
    /\ stop = 0
    /\ closed = {}
    /\ pc = [l \in Loops |-> "none"]
    /\ watch = [l \in Loops |-> 0]
    /\ awaits = [l \in Loops |-> None]
    /\ st = [e \in Execs |-> "idle"]
    /\ result = [e \in Execs |-> "empty"]

-----------------------------------------------------------------------------
(* The owner. *)

\* Start of a task that is not running; on a running one it does nothing.  The
\* reads of the new loop see at least the channel its Start assigned.
Start(first) ==
    /\ ~running
    /\ stop < MaxStarts
    /\ running' = TRUE /\ wanted' = TRUE
    /\ stop' = stop + 1
    /\ pc' = [pc EXCEPT ![stop + 1] = IF first THEN "run" ELSE "top"]
    /\ watch' = [watch EXCEPT ![stop + 1] = stop + 1]
    /\ UNCHANGED <<closed, inFlight, crashed, awaits, execVars>>

\* Seeded fault: Close forgets the channel.
Bug_CloseKeepsChannel ==
    /\ running' = FALSE /\ wanted' = FALSE
    /\ UNCHANGED <<stop, closed, inFlight, crashed, loopVars, execVars>>

Close ==
    /\ running' = FALSE /\ wanted' = FALSE
    /\ closed' = IF running THEN closed \cup {stop} ELSE closed
    /\ UNCHANGED <<stop, inFlight, crashed, loopVars, execVars>>

-----------------------------------------------------------------------------
(* The loop goroutine. *)

\* It enters the select: t.stop is read without t.access, a race with Start.
EnterSelect(l) ==
    /\ pc[l] = "top"
    /\ \E ch \in watch[l]..stop : watch' = [watch EXCEPT ![l] = ch]
    /\ pc' = [pc EXCEPT ![l] = "select"]
    /\ UNCHANGED <<taskVars, awaits, execVars>>

\* time.After(t.Interval) wins, also against a channel that is closed already.
IntervalElapses(l) ==
    /\ pc[l] = "select"
    /\ pc' = [pc EXCEPT ![l] = "run"]
    /\ UNCHANGED <<taskVars, watch, awaits, execVars>>

StopSeen(l) ==
    /\ pc[l] = "select" /\ watch[l] \in closed
    /\ pc' = [pc EXCEPT ![l] = "ended"]
    /\ UNCHANGED <<taskVars, watch, awaits, execVars>>

\* A slot whose goroutine is gone and whose done channel nobody waits for.
Free(e) == st[e] = "idle" /\ \A l \in Loops : awaits[l] # e

\* Seeded fault: the previous Execute is not looked at.
Bug_ExecuteUnguarded(l) ==
    /\ pc[l] = "run"
    /\ \E e \in Execs :
         /\ Free(e)
         /\ inFlight' = TRUE
         /\ st' = [st EXCEPT ![e] = "running"]
         /\ result' = [result EXCEPT ![e] = "empty"]
         /\ awaits' = [awaits EXCEPT ![l] = e]
         /\ pc' = [pc EXCEPT ![l] = "wait"]
    /\ UNCHANGED <<running, stop, closed, crashed, wanted, watch>>

\* executeWithTimeout up to its select: this tick is skipped while an earlier
\* Execute is in flight, else a goroutine is started for it.
ExecuteWithTimeout(l) ==
    /\ pc[l] = "run"
    /\ \/ /\ inFlight
          /\ pc' = [pc EXCEPT ![l] = "top"]
          /\ UNCHANGED <<inFlight, awaits, execVars>>
       \/ \E e \in Execs :
            /\ ~inFlight /\ Free(e)
            /\ inFlight' = TRUE
            /\ st' = [st EXCEPT ![e] = "running"]
            /\ result' = [result EXCEPT ![e] = "empty"]
            /\ awaits' = [awaits EXCEPT ![l] = e]
            /\ pc' = [pc EXCEPT ![l] = "wait"]
    /\ UNCHANGED <<running, stop, closed, crashed, wanted, watch>>

\* The timeout wins: the loop goes on and the Execute is left to itself.
TimedOut(l) ==
    /\ pc[l] = "wait"
    /\ awaits' = [awaits EXCEPT ![l] = None]
    /\ pc' = [pc EXCEPT ![l] = "top"]
    /\ UNCHANGED <<taskVars, watch, execVars>>

Done(l) ==
    /\ pc[l] = "wait" /\ result[awaits[l]] # "empty"
    /\ awaits' = [awaits EXCEPT ![l] = None]
    /\ pc' = [pc EXCEPT ![l] = IF result[awaits[l]] = "err" THEN "fail" ELSE "top"]
    /\ UNCHANGED <<taskVars, watch, execVars>>

\* Seeded fault: the loop that gives up leaves the task marked running.
Bug_FailKeepsRunning(l) ==
    /\ pc[l] = "fail"
    /\ IF stop \in closed THEN crashed' = TRUE /\ UNCHANGED closed
                          ELSE closed' = closed \cup {stop} /\ UNCHANGED crashed
    /\ pc' = [pc EXCEPT ![l] = "ended"]
    /\ UNCHANGED <<running, stop, inFlight, wanted, watch, awaits, execVars>>

\* An error ends the loop and closes whatever channel t.stop holds by now; the
\* close of a channel that Close has closed panics outside every recover.
Fail(l) ==
    /\ pc[l] = "fail"
    /\ running' = FALSE
    /\ IF stop \in closed THEN crashed' = TRUE /\ UNCHANGED closed
                          ELSE closed' = closed \cup {stop} /\ UNCHANGED crashed
    /\ pc' = [pc EXCEPT ![l] = "ended"]
    /\ UNCHANGED <<stop, inFlight, wanted, watch, awaits, execVars>>

-----------------------------------------------------------------------------
(* The goroutine of an Execute. *)

\* Execute returns nil, or panics and is recovered: done gets nil or an error.
ExecuteEnds(e) ==
    /\ st[e] = "running"
    /\ \E r \in {"nil", "err"} : result' = [result EXCEPT ![e] = r]
    /\ st' = [st EXCEPT ![e] = "resetting"]
    /\ UNCHANGED <<taskVars, loopVars>>

\* Seeded fault: the reset is skipped by a panic.
Bug_ResetUnlessPanic(e) ==
    /\ st[e] = "resetting"
    /\ st' = [st EXCEPT ![e] = "idle"]
    /\ inFlight' = (inFlight /\ result[e] = "err")
    /\ UNCHANGED <<running, stop, closed, crashed, wanted, loopVars, result>>

\* The deferred reset of inFlight.
ResetInFlight(e) ==
    /\ st[e] = "resetting"
    /\ st' = [st EXCEPT ![e] = "idle"]
    /\ inFlight' = FALSE
    /\ UNCHANGED <<running, stop, closed, crashed, wanted, loopVars, result>>

-----------------------------------------------------------------------------
LoopStep(l) ==
    \/ EnterSelect(l)
    \/ IntervalElapses(l)
    \/ StopSeen(l)
    \/ ExecuteWithTimeout(l)
    \/ TimedOut(l)
    \/ Done(l)
    \/ Fail(l)

ExecStep(e) == ExecuteEnds(e) \/ ResetInFlight(e)

\* A crashed process takes no more steps.
Next ==
    /\ ~crashed
    /\ \/ \E first \in BOOLEAN : Start(first)
       \/ Close
       \/ \E l \in Loops : LoopStep(l)
       \/ \E e \in Execs : ExecStep(e)

Spec == Init /\ [][Next]_vars

\* A goroutine that can run does, and timers fire.  Go's select takes a ready case
\* at random: a closed channel is not passed over forever (SF).  Nothing makes an
\* Execute return.
Fairness ==
    /\ \A l \in Loops : WF_vars(~crashed /\ LoopStep(l)) /\ SF_vars(~crashed /\ StopSeen(l))
    /\ \A e \in Execs : WF_vars(~crashed /\ ResetInFlight(e))

FairSpec == Spec /\ Fairness

-----------------------------------------------------------------------------
(* Properties. *)

\* Execute never runs twice at once, whatever timeouts, restarts and leftover loops
\* do: the executions share state that no lock protects.
OneExecution ==
    \A e, f \in Execs : st[e] = "running" /\ st[f] = "running" => e = f

\* A task that calls itself running has a loop that is not told to stop.  Start does
\* nothing on a running task, so one without a loop could never be revived.
RunningServed ==
    running => /\ stop \notin closed
               /\ pc[stop] \notin {"none", "ended"}

\* After Close every loop ends, unless the task is started again or the process is
\* down; a hung Execute does not keep its loop.
LoopsStop ==
    ~wanted ~> (wanted \/ crashed \/ \A l \in Loops : pc[l] \in {"none", "ended"})

\* What executeWithTimeout is for: a task that stays running is executed again and
\* again, whatever timed out or panicked after its timeout; only an Execute that
\* never returns may take the place of all later ones.
TicksResume == []<>(~running \/ crashed \/ \E e \in Execs : st[e] = "running")

\* The inductive form of OneExecution: inFlight covers the goroutine from before it
\* starts until after it ends.
InFlightExact ==
    /\ \A e, f \in Execs : st[e] # "idle" /\ st[f] # "idle" => e = f
    /\ inFlight <=> \E e \in Execs : st[e] # "idle"

\* The inductive form of RunningServed: the loop of the latest Start can only have
\* read that Start's channel, and no later channel exists.
WatchBounds ==
    /\ \A l \in Loops : pc[l] # "none" => l <= watch[l] /\ watch[l] <= stop
    /\ \A ch \in closed : ch <= stop
    /\ running => stop > 0

=============================================================================
