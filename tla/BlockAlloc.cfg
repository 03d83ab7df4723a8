SPECIFICATION FairSpec
CONSTANTS
  BlkCount = 10
  ByteBits = 2
  BlockBytes = 2
  MaxFaults = 2
  UseAfterFailedFormat = FALSE
INVARIANTS
  IInv
  IExact
  OwnedMarked
  RootInPlace
  NoLeak
  InvalMeansFull
  UsedExact
PROPERTIES
  NoDoubleAlloc
  Implements
  CallsReturn
