SPECIFICATION Spec
CONSTANTS
  d1 = d1  y1 = y1  y2 = y2  m1 = m1  m2 = m2
  None = None
  Host = {1, 2, 3}
  ReportId = {1, 2, 3}
  Time = {1, 2}
  Sent <- Reports
  Call = {d1, y1, y2, m1, m2}
  Op <- Calls
  HistoryLimit = 2
  PageSize = 1
  Scenarios <- Apart
  MaxFetches = 3
INVARIANTS
  TypeOK
  AnswersJustified
  DetailCoherent
  HistoryComplete
  RemarkAudited
  PageCurrent
  PagesComplete
CHECK_DEADLOCK FALSE
