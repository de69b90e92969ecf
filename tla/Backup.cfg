CONSTANTS
  Keepers = {collector, operator}
  MaxSnapshots = 5
  Week <- WeekOf
  Month <- MonthOf
  KeepDaily = 1
  KeepWeekly = 2
  KeepMonthly = 1
  Verifies = {TRUE, FALSE}
SPECIFICATION Spec
INVARIANTS
  LatestRestorable
  FailedCheckIsNoLoss
PROPERTIES
  KeepsRecoveryPoint
SYMMETRY Alike
CHECK_DEADLOCK FALSE
