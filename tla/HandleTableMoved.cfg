SPECIFICATION Spec
VIEW View
SYMMETRY NameSymmetry
CONSTANTS
  Names = {a, b}
  BlkCount = 4
  DirBlkItems = 1
  MaxFds = 2
  UsageMod = 256
  MaxHeld = 2
  GoOn = TRUE
PROPERTIES
  BusyFilesStay
