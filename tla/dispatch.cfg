SPECIFICATION Spec
CONSTANTS
  c1 = c1  c2 = c2  None = None
  Conns = {c1, c2}  Rates = {0, 1, 3}  NodeRate = 2  Networks = {TRUE, FALSE}
SYMMETRY Sym
INVARIANTS TypeOK RateFollowsLimit LinksReachable RemovedGone CountPaired
