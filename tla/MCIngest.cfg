SPECIFICATION IngestSpec
CONSTANTS
  App = {app1}
  Loop = loop
  Event = {e1, e2}
  NoEvent = noEvent
  Handler = {h1, h2}
  NoSender = noSender
  MaxBatch = 2
  MaxTracks = 3
  MaxBuffered = 1
SYMMETRY Symmetric
INVARIANTS
  IngestTypeOK
  KnownIdsCovered
  AckedCovered
  OncePerHandler
CHECK_DEADLOCK FALSE
