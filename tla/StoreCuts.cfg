SPECIFICATION Spec
CONSTANTS
  Capacity = 2
  Readers = {r1}
  Values = {v1, v2}
  OldValue = old
  NoRec = NoRec
  NoEntry = NoEntry
  Faults = {"mount", "formatRead", "recordRead", "slotWrite", "powerLoss"}
  MaxOld = 1
  MaxSeq = 5
  MaxTime = 2
SYMMETRY Symmetric
CHECK_DEADLOCK FALSE
INVARIANTS TypeOK StoreInv OneRecordPerSeq TsFollowsSeq
PROPERTIES LedgerSpec RingSpec
