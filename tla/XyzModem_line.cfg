SPECIFICATION FairSpec
CONSTANTS
  Modes = {"xmodem", "ymodem"}
  Files <- MCFiles
  FrameSizes = {4, 8}
  BufSize = 8
  NumMod = 4
  EotNum = 2
  MAX_RETRIES = 3
  MAX_RETRIES_WITH_CRC = 2
  MaxFaults = 2
  MaxSlow = 2
  MaxLine = 4
INVARIANT StoredInOrder Complete AckedStored
PROPERTY LoadEnds
CHECK_DEADLOCK FALSE
