SPECIFICATION FairSpec
CONSTANTS
  h1 = h1  h2 = h2
  None = None
  Host = {h1, h2}
  ReportId = {1, 2, 3, 4}
  Time = {0, 1, 2}
  Sent <- TwoHosts
  HourLength = 2
  RawRetention = 1
  AggregateRetention = 2
  BatchSize = 2
  MaxTransactions = 4
  FutureSkew = 1
  MaxNow = 4
  MaxStored = 2
INVARIANTS
  TypeOK
  LatestSurvives
  Accounted
  Visible
PROPERTIES
  RawOutlivesRetention
  AggregateOutlivesRetention
  OverdueLeaves
