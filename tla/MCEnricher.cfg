SPECIFICATION EnricherSpec
CONSTANTS
  LastRecord = 4
  Malformed = {2}
  Worker = {w1, w2}
  MaxChannel = 1
  MaxBuffered = 1
  MaxPoll = 2
  MaxStarts = 3
PROPERTIES
  ImplementsRelay
  EveryRecordSettled
CHECK_DEADLOCK FALSE
