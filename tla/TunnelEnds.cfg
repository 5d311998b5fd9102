SPECIFICATION FairSpec
CONSTANTS
  MaxPieces = 1
  MaxDials = 2
  MaxFaults = 1
CHECK_DEADLOCK FALSE
PROPERTY AppReleased
