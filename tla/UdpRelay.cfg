SPECIFICATION FairSpec
CONSTANTS
  Openings <- MCOpenings
  ServerPadding = "own"
  MaxFaults = 1
CHECK_DEADLOCK FALSE
INVARIANT TypeOK
INVARIANT DatagramsIntact
INVARIANT SettledByFirstDatagram
INVARIANT SparedWhileRelayed
PROPERTY UndeclaredIsRefused
PROPERTY RelayReleased
