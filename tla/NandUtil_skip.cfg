SPECIFICATION Spec
CONSTANTS
  WriteSize = 2
  EraseSize = 4
  NBlocks = 3
  MaxBad = 2
  MaxWorn = 1
  Offsets = {0, 1, 2, 4, 8}
  Lengths = {0, 1, 4, 5, 12}
  MaxCalls = 2
INVARIANTS SkipLenIsExact ReadsBack
PROPERTIES LengthIsTrue StaysInside
CHECK_DEADLOCK FALSE
