SPECIFICATION Spec
CONSTANTS
  Cards <- MCCards
  ResetMax = 1
  ReadyMax = 1
  WordBits = 5
  BlkWidth = 2
  V2Unit = 4
  MaxFaults = 0
PROPERTIES
  WriteFailureReported
