SPECIFICATION Spec
CONSTANTS
  i1 = i1  i2 = i2  p1 = p1  p2 = p2  p3 = p3  p4 = p4
  a1 = a1  a2 = a2  c1 = c1  d1 = d1  q1 = q1
  device = device
  None = None
  Call = {i1, i2, p1, c1, a1, a2, d1, q1}
  Op <- LifeOp
  MaxPending = 2
  MaxPerDevice = 2
  CleanupLimit = 1
  PoolSize = 2
INVARIANTS
  TypeOK
  Audited
  AnswersHold
  PairingsMatchHosts
PROPERTIES
  ImplementsService
CHECK_DEADLOCK FALSE
