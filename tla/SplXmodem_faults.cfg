SPECIFICATION FairSpec
CONSTANTS
  FileLen = 5
  FrameSize = 3
  OffsetMod = 5
  Value <- NumberIsEot
  PageBlocks = 2
  BlockPages = 2
  NPages = 6
  NcgRetries = 1
  NakRetries = 1
  Faults = {"drop", "loseack", "slow", "cancel"}
  MaxFaults = 2
  MaxDownloads = 2
INVARIANTS TypeOK StreamStored FlashIsFile FrameFits
PROPERTIES ProgramsErased Terminates
CHECK_DEADLOCK FALSE
