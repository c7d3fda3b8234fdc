SPECIFICATION ServiceSpec
CONSTANTS
  Timeout = 2
  Grace = 1
  Horizon = 6
  NoSession = noSession
  MaxEvents = 2
  MaxDelay = 0
  MaxFailures = 0
  MaxCrashes = 0
INVARIANT EndedBeforeNextStart
CHECK_DEADLOCK FALSE
