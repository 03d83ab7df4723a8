SPECIFICATION Spec
CONSTANTS
  BlkCount = 3
  DataLen = 2
  Bytes = {1}
  MaxSize = 4
  MaxFaults = 0
  Truncates = TRUE
  EmptyAppends = TRUE
  WrittenFiles = FALSE
PROPERTIES
  TruncSetsSize
