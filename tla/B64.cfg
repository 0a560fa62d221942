CONSTANTS
  Byte <- MCByte
  MaxSize = 5
  UIntMod = 65536
SPECIFICATION Spec
INVARIANTS
  StaysInBounds
  ReleasedOnce
  ResultDecodes
CHECK_DEADLOCK FALSE
