SPECIFICATION Spec
CONSTANTS
  u1 = u1
  u2 = u2
  b1 = b1
  root = root
  Users = {u1, u2}
  Requests = {r1, r2, r3}
  Seeds = {root}
  SeedRow <- OneRoot
  Boards = {b1}
  Limits = {0, 2}
  None = None
  Nobody = Nobody
SYMMETRY RequestSymmetry
INVARIANT CountersDrift PagesPartition
PROPERTY DeletedStaysDeleted
CHECK_DEADLOCK FALSE
