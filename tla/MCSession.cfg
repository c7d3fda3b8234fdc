SPECIFICATION ServiceSpec
CONSTANTS
  Timeout = 2
  Grace = 1
  Horizon = 6
  NoSession = noSession
  MaxEvents = 3
  MaxDelay = 1
  MaxFailures = 1
  MaxCrashes = 1
INVARIANTS
  SessionTypeOK
  EveryIdStarted
  StartsAccounted
  NoGapInsideSession
  EndedForGood
  EndsFollowStarts
  StartsCloseBehind
CHECK_DEADLOCK FALSE
