SPECIFICATION FairSpec
CONSTANTS
  BlockPages = 3
  NPages = 9
  BL1Pages = 1
  BL2Pages = 6
  EnvBlock = 2
  FullPages = 4
  Tail = 1
  AUTOBOOT_TIMEOUTS = 2
  SecondTicks = 2
  MaxWait = 5
  Keys = {"d", "b", "n"}
  MaxCuts = 2
  MaxDownloads = 2
INVARIANTS NotBeforeTimeout KeyCancels BootsInstalled EnvKept
PROPERTY CountdownEnds
CHECK_DEADLOCK FALSE
