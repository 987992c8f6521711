SPECIFICATION Spec
CONSTANTS
  Capacity = 2
  Mtus = {27, 247}
  UINT16_MAX = 2
  MaxSeq = 3
  MaxLinks = 2
  MaxWrites = 4
CHECK_DEADLOCK FALSE
INVARIANTS StreamIsFrames FrameAnswersRequest NoRequestLost FrameSumsUp
PROPERTY DumpEnds
