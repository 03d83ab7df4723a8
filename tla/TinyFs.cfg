SPECIFICATION TreeSpec
CONSTANTS
  BlkCount = 6
  DirItems = 2
  DataLen = 2
  WordBits = 4
  Names = {a, b, c}
  NoName = NoName
  Payloads = {v}
  Lens = {0, 3}
  MaxEntries = 3
  MaxFaults = 0
SYMMETRY Interchangeable
VIEW WithoutStatus
PROPERTIES
  Implements
