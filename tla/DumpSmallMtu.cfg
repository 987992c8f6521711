SPECIFICATION Spec
CONSTANTS
  Capacity = 2
  Mtus = {23}
  UINT16_MAX = 2
  MaxSeq = 2
  MaxLinks = 1
  MaxWrites = 2
CHECK_DEADLOCK FALSE
PROPERTY DumpEnds
