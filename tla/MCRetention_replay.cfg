SPECIFICATION Spec
CONSTANTS
  h1 = h1  h2 = h2
  None = None
  Host = {h1}
  ReportId = {1, 2, 3}
  Time = {0, 1, 2}
  Sent <- OneHost
  HourLength = 2
  RawRetention = 1
  AggregateRetention = 2
  BatchSize = 1
  MaxTransactions = 3
  FutureSkew = 1
  MaxNow = 4
  MaxStored = 2
INVARIANTS
  ReplayNotAccepted
