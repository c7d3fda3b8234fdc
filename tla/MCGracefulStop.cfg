SPECIFICATION ChWriterSpec
CONSTANTS
  Rows = {1, 2, 3, 4}
  NoRow = noRow
  BufSize = 2
  LastRow = 4
  Malformed = {1}
  MaxPoll = 2
  MaxStarts = 2
PROPERTY StopFlushesPending
CHECK_DEADLOCK FALSE
