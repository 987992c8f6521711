SPECIFICATION Spec
CONSTANTS
  STORE_PERIOD_S = 4
  SECOND = 2
  PollMax = 1
  StatusMax = 1
  WriteMax = 3
  Starts <- MCStarts
  Appends = {TRUE, FALSE}
  MaxNow = 32
INVARIANTS PeriodIsKept GapIsVisible
CHECK_DEADLOCK FALSE
