SPECIFICATION FairSpec
CONSTANTS
  h1 = h1  h2 = h2
  r1 = r1  r2 = r2  r3 = r3
  None = None
  Host = {h1}
  ReportId = {1, 2}
  Time = {1}
  Request = {r1, r2}
  Content <- SameTime
  QueueCapacity = 2
  BatchSize = 2
INVARIANTS
  StoreConsistent
PROPERTIES
  QueuedAnswered
  ShutdownEnds
