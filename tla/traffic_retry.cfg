SPECIFICATION Spec
CONSTANTS
  u1 = u1  u2 = u2
  Users = {u1}
  MinTraffic = 0  MaxBytes = 3  MaxFaults = 2  MaxDeletions = 0
INVARIANT FailedReportKept
CHECK_DEADLOCK FALSE
