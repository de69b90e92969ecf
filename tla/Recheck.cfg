CONSTANTS
  p1 = p1
  p2 = p2
  Advertisements = {p1, p2}
  ByPostingId <- IdOrder
  MaxRechecks = 1
  Terminals = 2
  WeeklyDays = 2
SPECIFICATION RecheckSpec
INVARIANTS
  DemotedOnEvidence
PROPERTIES
  UnlistedStaysWatched
CHECK_DEADLOCK FALSE
