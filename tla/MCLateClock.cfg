SPECIFICATION TenancySpec
CONSTANTS
  Rate = 2
  Burst = 3
  Key = {k1}
  NoKey = noKey
  FirstKey = k1
  Replica = {r1}
  MaxLag = 1
  MaxSet = 1
  CacheTTL = 2
  Caller = {c1, c2}
  MaxDelay = 1
  JWTExpiry = 1
  MaxRefresh = 0
  MaxTime = 6
SYMMETRY Symmetric
INVARIANTS
  MeterWithinBurst
CHECK_DEADLOCK FALSE
