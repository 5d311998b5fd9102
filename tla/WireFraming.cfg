SPECIFICATION Spec
CONSTANTS
  NumFrames = 3
  PayloadSizes = {0, 1, 2}
  Header = 2
  LenMod = 8
  CheckMark = 8
  SizeLists <- MCSizeLists
  Stop = 3
CHECK_DEADLOCK FALSE
INVARIANT TypeOK
INVARIANT NothingLeftOver
PROPERTY FramesInOrder
