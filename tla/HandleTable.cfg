SPECIFICATION Spec
VIEW View
SYMMETRY NameSymmetry
CONSTANTS
  Names = {a, b, c}
  BlkCount = 4
  DirBlkItems = 1
  MaxFds = 2
  UsageMod = 3
  MaxHeld = 3
  GoOn = FALSE
INVARIANTS
  UsageCounted
  UsedHandleFirst
  DescriptorsRight
  DataOwned
PROPERTIES
  BusyExact
