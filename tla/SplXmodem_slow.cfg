SPECIFICATION Spec
CONSTANTS
  FileLen = 3
  FrameSize = 3
  OffsetMod = 5
  Value <- PlainValue
  PageBlocks = 2
  BlockPages = 2
  NPages = 6
  NcgRetries = 1
  NakRetries = 1
  Faults = {"slow"}
  MaxFaults = 1
  MaxDownloads = 1
INVARIANT FinishedHoldsFile
CHECK_DEADLOCK FALSE
