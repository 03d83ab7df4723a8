SPECIFICATION Spec
CONSTANTS
  Names <- MCNames
  Cut <- MCCut
  Ids <- MCIds
  Blks = {1, 2, 3}
  Slots = {0}
  Depth = 2
  MaxFds = 1
  UsageMod = 3
  MaxHeld = 2
VIEW MCView
CONSTRAINT MCSound
INVARIANTS
  NoHandleLeak
PROPERTIES
  Implements
  FailsForAReason
