SPECIFICATION MetricSpec
CONSTANTS
  Null = Null
  Value = {0, 1, 3}
  MaxSamples = 5
INVARIANTS
  ExactAggregate
CHECK_DEADLOCK FALSE
