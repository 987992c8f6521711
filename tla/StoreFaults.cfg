SPECIFICATION Spec
CONSTANTS
  Capacity = 2
  Readers = {r1}
  Values = {v1, v2}
  OldValue = old
  NoRec = NoRec
  NoEntry = NoEntry
  Faults = {"mount", "metaRead", "formatRead", "floorRead", "recordRead", "clear", "initWrite", "slotWrite", "metaWrite", "powerLoss", "powerLossInInit"}
  MaxOld = 1
  MaxSeq = 3
  MaxTime = 0
SYMMETRY Symmetric
CHECK_DEADLOCK FALSE
INVARIANT ReuseNeedsLostCounter
