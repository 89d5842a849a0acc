SPECIFICATION FairSpec
CONSTANTS
  u1 = u1  u2 = u2
  Users = {u1, u2}
  MinTraffic = 0  MaxBytes = 2  MaxFaults = 2  MaxDeletions = 2
INVARIANTS TypeOK BooksBalance
PROPERTY TrafficReported
CHECK_DEADLOCK FALSE
