SPECIFICATION QuerySpec
CONSTANTS
  Caller = {c1, c2}
  Key = {count, funnel}
  Refreshing = {count}
  Refresher = {g1, g2}
  NoEntry = noEntry
  L1TTL = 3
  L1Stale = 2
  L2TTL = 1
  MaxQuery = 1
  MaxEntries = 1
  MaxOrder = 3
SYMMETRY Symmetric
INVARIANTS
  QueryTypeOK
  ReadableIsRecent
  MarkedIsRefreshing
  JanitorBounds
CHECK_DEADLOCK FALSE
