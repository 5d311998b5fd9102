CONSTANTS
  Calls = {c1, c2}
  MaxSessions = 2
  MaxTime = 1
  Timeout = 1
  MinIdle = 1
  MaxStreams = 1
  Attempts = 1
  MaxFins = 1
  MaxWriterFails = 1
  MayClose = TRUE
SPECIFICATION Spec
SYMMETRY CallSymmetry
INVARIANT TypeOK
INVARIANT NoOrphanStream
INVARIANT StreamsBounded
PROPERTY CleanupKeepsMinIdle
INVARIANT LiveAccounted
INVARIANT CloseLeavesOnlyRacers
