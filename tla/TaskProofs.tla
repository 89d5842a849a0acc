----------------------------- MODULE TaskProofs -----------------------------
(***************************************************************************)
(* Theorems about Task, for any number of restarts and of Execute          *)
(* goroutines: at most one Execute runs, and a running task has its loop.  *)
(***************************************************************************)
EXTENDS Task, TLAPS

\* The initial state has the types.
LEMMA TypeInit == Init => TypeOK
<1> SUFFICES ASSUME Init PROVE TypeOK
  OBVIOUS
<1>1. stop \in 0..MaxStarts /\ closed \in SUBSET (0..MaxStarts)
  BY MaxStartsAssumption DEF Init
<1>2. /\ pc \in [Loops -> Places]
      /\ watch \in [Loops -> 0..MaxStarts]
      /\ awaits \in [Loops -> Execs \cup {None}]
  BY MaxStartsAssumption DEF Init, Places
<1>3. /\ st \in [Execs -> {"idle", "running", "resetting"}]
      /\ result \in [Execs -> {"empty", "nil", "err"}]
  BY DEF Init
<1>4. /\ running \in BOOLEAN /\ inFlight \in BOOLEAN
      /\ crashed \in BOOLEAN /\ wanted \in BOOLEAN
  BY DEF Init
<1> QED
  BY <1>1, <1>2, <1>3, <1>4 DEF TypeOK

\* One step keeps the types.
LEMMA TypeStep == TypeOK /\ [Next]_vars => TypeOK'
<1> SUFFICES ASSUME TypeOK, [Next]_vars PROVE TypeOK'
  OBVIOUS
<1> USE MaxStartsAssumption, ExecsAssumption DEF TypeOK, Loops, Places
<1>1. ASSUME NEW first \in BOOLEAN, Start(first) PROVE TypeOK'
  BY <1>1 DEF Start, execVars
<1>2. CASE Close
  BY <1>2 DEF Close, loopVars, execVars
<1>3. ASSUME NEW l \in Loops, EnterSelect(l) PROVE TypeOK'
  BY <1>3 DEF EnterSelect, taskVars, execVars
<1>4. ASSUME NEW l \in Loops, IntervalElapses(l) PROVE TypeOK'
  BY <1>4 DEF IntervalElapses, taskVars, execVars
<1>5. ASSUME NEW l \in Loops, StopSeen(l) PROVE TypeOK'
  BY <1>5 DEF StopSeen, taskVars, execVars
<1>6. ASSUME NEW l \in Loops, ExecuteWithTimeout(l) PROVE TypeOK'
  <2>1. CASE inFlight
    BY <1>6, <2>1 DEF ExecuteWithTimeout, execVars
  <2>2. CASE ~inFlight
    <3> PICK e \in Execs :
          /\ inFlight' = TRUE
          /\ st' = [st EXCEPT ![e] = "running"]
          /\ result' = [result EXCEPT ![e] = "empty"]
          /\ awaits' = [awaits EXCEPT ![l] = e]
          /\ pc' = [pc EXCEPT ![l] = "wait"]
      BY <1>6, <2>2 DEF ExecuteWithTimeout
    <3> QED
      BY <1>6 DEF ExecuteWithTimeout
  <2> QED
    BY <2>1, <2>2
<1>7. ASSUME NEW l \in Loops, TimedOut(l) PROVE TypeOK'
  BY <1>7 DEF TimedOut, taskVars, execVars
<1>8. ASSUME NEW l \in Loops, Done(l) PROVE TypeOK'
  BY <1>8 DEF Done, taskVars, execVars
<1>9. ASSUME NEW l \in Loops, Fail(l) PROVE TypeOK'
  BY <1>9 DEF Fail, execVars
<1>10. ASSUME NEW e \in Execs, ExecuteEnds(e) PROVE TypeOK'
  BY <1>10 DEF ExecuteEnds, taskVars, loopVars
<1>11. ASSUME NEW e \in Execs, ResetInFlight(e) PROVE TypeOK'
  BY <1>11 DEF ResetInFlight, loopVars
<1>12. CASE UNCHANGED vars
  BY <1>12 DEF vars
<1> QED
  BY <1>1, <1>2, <1>3, <1>4, <1>5, <1>6, <1>7, <1>8, <1>9, <1>10, <1>11, <1>12
  DEF Next, LoopStep, ExecStep

\* The variables keep their types, for every number of starts and goroutines.
THEOREM TaskTypeCorrect == Spec => []TypeOK
  BY TypeInit, TypeStep, PTL DEF Spec

-----------------------------------------------------------------------------
\* inFlight spans the life of the Execute goroutine, in every step: only
\* ExecuteWithTimeout starts one, and only while inFlight is clear; only the
\* goroutine itself clears it, as its last step.
LEMMA InFlightStep == TypeOK /\ InFlightExact /\ [Next]_vars => InFlightExact'
<1> SUFFICES ASSUME TypeOK, InFlightExact, [Next]_vars PROVE InFlightExact'
  OBVIOUS
<1> USE DEF TypeOK, InFlightExact
<1>1. ASSUME UNCHANGED <<st, inFlight>> PROVE InFlightExact'
  BY <1>1
<1>2. ASSUME NEW l \in Loops, ExecuteWithTimeout(l) PROVE InFlightExact'
  <2>1. CASE inFlight
    BY <1>1, <1>2, <2>1 DEF ExecuteWithTimeout, execVars
  <2>2. CASE ~inFlight
    <3> PICK e \in Execs : inFlight' = TRUE /\ st' = [st EXCEPT ![e] = "running"]
      BY <1>2, <2>2 DEF ExecuteWithTimeout
    <3> QED
      BY <2>2
  <2> QED
    BY <2>1, <2>2
<1>3. ASSUME NEW e \in Execs, ExecuteEnds(e) PROVE InFlightExact'
  BY <1>3 DEF ExecuteEnds, taskVars
<1>4. ASSUME NEW e \in Execs, ResetInFlight(e) PROVE InFlightExact'
  BY <1>4 DEF ResetInFlight
<1>5. ASSUME NEW first \in BOOLEAN, Start(first) PROVE InFlightExact'
  BY <1>1, <1>5 DEF Start, execVars
<1>6. CASE Close
  BY <1>1, <1>6 DEF Close, execVars
<1>7. ASSUME NEW l \in Loops,
             \/ EnterSelect(l) \/ IntervalElapses(l) \/ StopSeen(l)
             \/ TimedOut(l) \/ Done(l) \/ Fail(l)
      PROVE  InFlightExact'
  BY <1>1, <1>7 DEF EnterSelect, IntervalElapses, StopSeen, TimedOut, Done, Fail,
                    taskVars, execVars
<1>8. CASE UNCHANGED vars
  BY <1>1, <1>8 DEF vars
<1> QED
  BY <1>2, <1>3, <1>4, <1>5, <1>6, <1>7, <1>8 DEF Next, LoopStep, ExecStep

\* Execute never runs twice at once: executeWithTimeout's inFlight check suffices,
\* however often the task times out, is restarted or keeps an old loop.
THEOREM ExecutionsExclusive == Spec => []OneExecution
<1>1. Init => InFlightExact
  BY DEF Init, InFlightExact
<1>2. InFlightExact => OneExecution
  BY DEF InFlightExact, OneExecution
<1> QED
  BY <1>1, <1>2, TypeInit, TypeStep, InFlightStep, PTL DEF Spec

-----------------------------------------------------------------------------
\* RunningServed and its strengthening, in every step.  The one delicate step is
\* StopSeen of the latest loop: its channel is the latest, which is open.
LEMMA ServedStep ==
    TypeOK /\ WatchBounds /\ RunningServed /\ [Next]_vars => (WatchBounds /\ RunningServed)'
<1> SUFFICES ASSUME TypeOK, WatchBounds, RunningServed, [Next]_vars
             PROVE  (WatchBounds /\ RunningServed)'
  OBVIOUS
<1> USE MaxStartsAssumption DEF TypeOK, Loops, WatchBounds, RunningServed
<1>1. ASSUME NEW first \in BOOLEAN, Start(first) PROVE (WatchBounds /\ RunningServed)'
  BY <1>1 DEF Start
<1>2. CASE Close
  BY <1>2 DEF Close, loopVars
<1>3. ASSUME NEW l \in Loops, EnterSelect(l) PROVE (WatchBounds /\ RunningServed)'
  BY <1>3 DEF EnterSelect, taskVars
<1>4. ASSUME NEW l \in Loops, IntervalElapses(l) PROVE (WatchBounds /\ RunningServed)'
  BY <1>4 DEF IntervalElapses, taskVars
<1>5. ASSUME NEW l \in Loops, StopSeen(l) PROVE (WatchBounds /\ RunningServed)'
  BY <1>5 DEF StopSeen, taskVars
<1>6. ASSUME NEW l \in Loops, ExecuteWithTimeout(l) PROVE (WatchBounds /\ RunningServed)'
  BY <1>6 DEF ExecuteWithTimeout
<1>7. ASSUME NEW l \in Loops, TimedOut(l) PROVE (WatchBounds /\ RunningServed)'
  BY <1>7 DEF TimedOut, taskVars
<1>8. ASSUME NEW l \in Loops, Done(l) PROVE (WatchBounds /\ RunningServed)'
  BY <1>8 DEF Done, taskVars
<1>9. ASSUME NEW l \in Loops, Fail(l) PROVE (WatchBounds /\ RunningServed)'
  <2>1. running' = FALSE /\ stop' = stop /\ watch' = watch
    BY <1>9 DEF Fail
  <2>2. closed' \subseteq closed \cup {stop}
    BY <1>9 DEF Fail
  <2>3. \A m \in Loops : pc'[m] # "none" => pc[m] # "none"
    BY <1>9 DEF Fail
  <2> QED
    BY <2>1, <2>2, <2>3
<1>10. ASSUME NEW e \in Execs, ExecStep(e) PROVE (WatchBounds /\ RunningServed)'
  <2>1. UNCHANGED <<running, stop, closed, pc, watch>>
    BY <1>10 DEF ExecStep, ExecuteEnds, ResetInFlight, taskVars, loopVars
  <2> QED
    BY <2>1
<1>11. CASE UNCHANGED vars
  BY <1>11 DEF vars
<1> QED
  BY <1>1, <1>2, <1>3, <1>4, <1>5, <1>6, <1>7, <1>8, <1>9, <1>10, <1>11
  DEF Next, LoopStep

\* A running task has an open stop channel and a live loop of its own, whatever the
\* order of Start, Close and failing loops: no Start is lost on a dead task.
THEOREM RunningIsServed == Spec => []RunningServed
<1>1. Init => WatchBounds /\ RunningServed
  BY DEF Init, WatchBounds, RunningServed
<1> QED
  BY <1>1, TypeInit, TypeStep, ServedStep, PTL DEF Spec
=============================================================================
