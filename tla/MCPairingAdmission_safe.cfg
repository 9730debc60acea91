SPECIFICATION AdmissionSpec
CONSTANTS
  c1 = c1  c2 = c2  c3 = c3  c4 = c4  c5 = c5
  s1 = s1  s2 = s2  s3 = s3  d1 = d1  d2 = d2  d3 = d3
  None = None
  Call = {c1, c2, c3, c4, c5}
  Source = {s1, s2, s3}
  Id = {d1, d2, d3}
  From <- ThreeSources
  Names <- ThreeDevices
  Burst = 1
  Interval = 2
  Capacity = 2
  Ttl = 3
  MaxClock = 4
  Second = 1
INVARIANTS
  AdmissionTypeOK
  BudgetPlusSkew
CHECK_DEADLOCK FALSE
