SPECIFICATION FairSpec
CONSTANTS
  BlkCount = 2
  DataLen = 2
  Bytes = {1}
  MaxSize = 5
  MaxFaults = 1
  Truncates = TRUE
  EmptyAppends = FALSE
  WrittenFiles = TRUE
CHECK_DEADLOCK FALSE
INVARIANTS
  InPosition
  ChainSound
  NoLeak
PROPERTIES
  OthersIntact
  NoDanglingChain
  CallsReturn
