SPECIFICATION TenancySpec
CONSTANTS
  Rate = 2
  Burst = 3
  Key = {k1, k2}
  NoKey = noKey
  FirstKey = k1
  Replica = {r1, r2}
  MaxLag = 2
  MaxSet = 1
  CacheTTL = 2
  Caller = {c1}
  MaxDelay = 0
  JWTExpiry = 2
  MaxRefresh = 1
  MaxTime = 9
SYMMETRY Symmetric
INVARIANTS
  TenancyTypeOK
  RevokedKeyExpires
  MeterWithinBurst
  TokensEnd
CHECK_DEADLOCK FALSE
