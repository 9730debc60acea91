SPECIFICATION AdmissionSpec
CONSTANTS
  c1 = c1  c2 = c2  c3 = c3  c4 = c4  c5 = c5
  s1 = s1  s2 = s2  s3 = s3  d1 = d1  d2 = d2  d3 = d3
  None = None
  Call = {c1, c2, c3, c4}
  Source = {s1}
  Id = {c1, c2, c3, c4}
  From <- OneSource
  Names <- OwnDevice
  Burst = 1
  Interval = 1
  Capacity = 4
  Ttl = 3
  MaxClock = 3
  Second = 1
INVARIANTS
  BudgetBounded
CHECK_DEADLOCK FALSE
