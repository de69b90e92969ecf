CONSTANTS
  Jobs = {j1, j2, j3}
  PageItems = 1
  MaxPages = 4
  MaxChanges = 2
SPECIFICATION Spec
INVARIANTS
  KeepsContract
PROPERTIES
  Terminates
CHECK_DEADLOCK FALSE
