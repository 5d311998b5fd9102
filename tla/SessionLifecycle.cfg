SPECIFICATION FairSpec
CONSTANTS
  Handles = {h1, h2}
  None = None
  SidSpace = 4
  MaxStreams = 2
  MayTerminate = TRUE
INVARIANT NoLostIdle
INVARIANT StreamsTracked
INVARIANT TerminateIsFinal
PROPERTY StreamsEnd
