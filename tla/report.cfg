SPECIFICATION Spec
CONSTANTS
  u1 = u1  i1 = i1  i2 = i2  w1 = w1  w2 = w2  None = None
  Users = {u1}  IPs = {i1, i2}  Writers = {w1, w2}
  QueueCap = 2  SlowRounds = FALSE
SYMMETRY Sym
INVARIANTS TypeOK BaselineTrue ChangeNoticed
CHECK_DEADLOCK FALSE
