CONSTANTS
  Postings = {p1, p2}
  MaxHistorical = 1
  MaxDetails = {1, 5}
  Unbounded = 5
  MaxRuns = 2
SPECIFICATION Spec
INVARIANTS
  NewBeforeOld
  ClosedRunsLeaveNoWork
PROPERTIES
  SuccessCoversDiscovery
  WorkStaysDone
  KeepsLedger
  EveryRunEnds
CHECK_DEADLOCK FALSE
