SPECIFICATION FairSpec
CONSTANTS
  u1 = u1  u2 = u2  None = None
  Users = {u1, u2}  Limits = {1, 2}
  Deltas = {"add", "remove"}  MaxChanges = 3  MaxFaults = 1
INVARIANTS TypeOK NothingLeftBehind LimiterKnows ConfKept
PROPERTIES EventuallyFollows ConfFollowed
CHECK_DEADLOCK FALSE
