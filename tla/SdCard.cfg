CONSTANTS
  CardKinds = {"hc", "large", "slow", "old", "2GB"}
  Cards <- MCCards
  Lbas <- MCLbas
  MaxRead = 3
  MaxScan = 2
  BLOCK_SIZE = 2
  AddrBlocks = 4
  CsdBlocks = 6
  None = None
SPECIFICATION FairSpec
CHECK_DEADLOCK FALSE
INVARIANTS
  TypeOK
  PublishedIsReadable
  ControllerFollowsCard
  InitSucceeds
  ReadsInPlace
PROPERTIES
  InitEnds
