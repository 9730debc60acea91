SPECIFICATION Spec
CONSTANTS
  h1 = h1  h2 = h2  h3 = h3
  None = None
  Host = {h1, h2, h3}
  Burst = 2
  Interval = 2
  Capacity = 2
  Ttl = 4
  Second = 2
  MaxNow = 5
INVARIANTS
  TypeOK
  RateBounded
  RetryAfterSuffices
