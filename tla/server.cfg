SPECIFICATION FairSpec
CONSTANTS
  a = a  b = b
  Tags = {a, b}  NodeConfig <- Config  MaxEdits = 3  MaxFaults = 2
INVARIANTS TypeOK InboundLimited NodesAsConfigured
PROPERTY EditLoaded
CHECK_DEADLOCK FALSE
