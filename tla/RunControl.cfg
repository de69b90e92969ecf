CONSTANTS
  Collectors = {timer}
  Retriers = {window}
  NoProc = NoProc
  MaxRetries = 2
  Parents = {0, 1}
  Attempts = {1}
  MaxRuns = 4
  MaxByHand = 1
  MaxDays = 2
SPECIFICATION Spec
INVARIANTS
  TypeOK
  NoTwoRunsOpen
  RetryWithinBudget
  RetryBelongsToSlot
PROPERTIES
  OnlyDeadRunsAborted
  ClosedRunsFinal
  KeepsLedger
CHECK_DEADLOCK FALSE
