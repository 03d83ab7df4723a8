SPECIFICATION FairSpec
CONSTANTS
  Cards <- MCCards
  ResetMax = 1
  ReadyMax = 1
  WordBits = 5
  BlkWidth = 2
  V2Unit = 4
  MaxFaults = 2
INVARIANTS
  BlocksReachable
PROPERTIES
  GoodCardWorks
  TransfersRight
  CallsReturn
