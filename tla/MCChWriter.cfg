SPECIFICATION FairChWriterSpec
CONSTANTS
  Rows = {1, 2, 3, 4}
  NoRow = noRow
  BufSize = 2
  LastRow = 4
  Malformed = {1}
  MaxPoll = 2
  MaxStarts = 2
INVARIANTS
  ChWriterTypeOK
  PendingFollowsQueue
  StoppedIsDrained
  WrittenInOffsetOrder
  HandledRowsAccounted
PROPERTIES
  RowsLeaveMemory
  StopTerminates
  SecondStopLosesNothing
CHECK_DEADLOCK FALSE
