SPECIFICATION Spec
CONSTANTS
  Openings <- MCOpenings
  ServerPadding = "own"
  MaxFaults = 1
CHECK_DEADLOCK FALSE
INVARIANT SessionOutlivesRelay
