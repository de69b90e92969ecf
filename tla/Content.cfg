CONSTANTS
  Contents = {a, b}
  Lineages = {old, new}
  MaxRuns = 3
  MaxObservations = 4
SPECIFICATION Spec
SYMMETRY ContentSymmetry
INVARIANTS
  ChangesAreEdits
  EditsReportedOnce
CHECK_DEADLOCK FALSE
