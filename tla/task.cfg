SPECIFICATION FairSpec
CONSTANTS
  e1 = e1  e2 = e2  None = None
  MaxStarts = 3  Execs = {e1, e2}
INVARIANTS OneExecution RunningServed
PROPERTIES LoopsStop TicksResume
CHECK_DEADLOCK FALSE
