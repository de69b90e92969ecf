CONSTANTS
  Postings = {p1, p2}
  MaxRuns = 3
  ReconciliationScan = TRUE
SPECIFICATION Spec
SYMMETRY PostingSymmetry
INVARIANTS
  TypeOK
  EveryPostingExplained
  ReturnsCountedOnce
PROPERTIES
  AbsenceIsTrue
  KeepsPromise
CHECK_DEADLOCK FALSE
