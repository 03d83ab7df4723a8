SPECIFICATION Spec
CONSTANTS
  BlkCount = 6
  DirItems = 1
  DataLen = 2
  WordBits = 4
  Names = {a, b, c}
  NoName = NoName
  Payloads = {v}
  Lens = {3}
  MaxEntries = 3
  MaxFaults = 1
SYMMETRY Interchangeable
VIEW WithoutStatus
INVARIANTS
  NoLeak
  StructureSound
  EmptyDirIsOneBlock
PROPERTIES
  BystandersIntact
  DeleteRenameAtomic
  StaysOperable
