SPECIFICATION Spec
CONSTANTS
  BlkCount = 3
  DataLen = 2
  Bytes = {1, 2}
  MaxSize = 5
  MaxFaults = 0
  Truncates = FALSE
  EmptyAppends = FALSE
  WrittenFiles = FALSE
PROPERTIES
  Implements
