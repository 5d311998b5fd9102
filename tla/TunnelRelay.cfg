SPECIFICATION Spec
CONSTANTS
  MaxPieces = 2
  MaxDials = 1
  MaxFaults = 1
CHECK_DEADLOCK FALSE
INVARIANT TypeOK
INVARIANT DownloadComplete
INVARIANT PayloadSparesSession
PROPERTY UpInOrder
PROPERTY DownInOrder
