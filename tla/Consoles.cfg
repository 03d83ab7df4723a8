SPECIFICATION Spec
CONSTANTS
  Boards = {"AVR", "ZX81", "ZX81_16K"}
  Chars <- MCChars
  NameLen = 2
  TermLen = 3
  Typed <- MCTyped
  Foreign <- MCForeign
  Programs = {1}
  Slots <- MCSlots
  Lines <- MCLines
  BufLen = 8
  PageLen = 2
  CountMod = 3
  Radix = 2
  MaxExp = 2
CHECK_DEADLOCK FALSE
VIEW MCView
INVARIANTS
  NamesUnique
  NoDeviceNoAccess
PROPERTIES
  OnlyNamed
  ScreenTrue
