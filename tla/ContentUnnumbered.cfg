CONSTANTS
  Contents = {a, b}
  Lineages = {old, new}
  MaxRuns = 3
  MaxObservations = 3
SPECIFICATION Spec
INVARIANTS
  EditsAreReported
CHECK_DEADLOCK FALSE
