SPECIFICATION FairSpec
CONSTANTS
  u1 = u1  i1 = i1  i2 = i2  c1 = c1  c2 = c2  s1 = s1  None = None
  Users = {u1}  IPs = {i1, i2}  Shards = {s1}  ShardOf <- OneShard
  Conns = {c1}  DeviceLimits <- Limit1  Deletable = {}
  AliveCounts = {0}  Networks = {TRUE}
PROPERTIES AttemptDecided EvictionLands
CHECK_DEADLOCK FALSE
