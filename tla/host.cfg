SPECIFICATION FairHostSpec
CONSTANTS
  a = a  b = b
  Tags = {a, b}  NodeConfig <- Config  MaxEdits = 1  MaxFaults = 1
  Renewals = {"r1", "r2"}  CertTag = a  MaxCrashes = 1
INVARIANTS HostTypeOK PairKept
PROPERTIES ComesBack PairAtStart
CHECK_DEADLOCK FALSE
