SPECIFICATION FairSpec
CONSTANTS
  Setups <- MCSetups
  ARP_TIMEOUT_COUNT = 3
  RetryCnt = 2
  MaxResend = 1
INVARIANT FileIntact
PROPERTY WrapMeansWrap Ends Succeeds
CHECK_DEADLOCK FALSE
