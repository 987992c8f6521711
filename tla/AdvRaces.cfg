SPECIFICATION Spec
CONSTANTS
  BLE_ADV_WINDOW_S = 3
  MaxPresses = 4
  MaxSessions = 4
  MaxRefusals = 2
INVARIANTS FlagIsTemporary VisibleIsBounded VisibleInWindow
CHECK_DEADLOCK FALSE
