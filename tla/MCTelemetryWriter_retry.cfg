SPECIFICATION Spec
CONSTANTS
  h1 = h1  h2 = h2
  r1 = r1  r2 = r2  r3 = r3
  None = None
  Host = {h1, h2}
  ReportId = {1}
  Time = {1}
  Request = {r1, r2, r3}
  Content <- RetryAndCollision
  QueueCapacity = 2
  BatchSize = 2
SYMMETRY RetrySymmetry
INVARIANTS
  TypeOK
  AckDurable
  RejectionsJustified
  AcceptedOnce
  GracefulDrain
PROPERTIES
  ImplementsService
