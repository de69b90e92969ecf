CONSTANTS
  Runs = {1}
  Timers = {timer}
  Hosts = {host, operator}
  MaxAttempts = 2
  MaxLaunches = 2
  MaxCrashes = 1
SPECIFICATION Spec
INVARIANTS
  SettledForAReason
  OwedHasAttemptsLeft
PROPERTIES
  OwedIsSettled
CHECK_DEADLOCK FALSE
