CONSTANTS
  Calls = {c1, c2}
  MaxSessions = 1
  MaxTime = 1
  Timeout = 1
  MinIdle = 0
  MaxStreams = 1
  Attempts = 3
  MaxFins = 0
  MaxWriterFails = 1
  MayClose = TRUE
SPECIFICATION FairSpec
PROPERTY CallsReturn
PROPERTY CloseReturns
