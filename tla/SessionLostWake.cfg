SPECIFICATION FairSpec
CONSTANTS
  Handles = {h1}
  None = None
  SidSpace = 4
  MaxStreams = 1
  MayTerminate = TRUE
PROPERTY RunStops
