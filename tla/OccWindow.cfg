SPECIFICATION Spec
CONSTANTS
  STORE_PERIOD_S = 2
  RADAR_MAX_TARGETS = 2
  DwellMax = 4
  Late = 1
  MaxNow = 9
  MaxFrames = 3
CHECK_DEADLOCK FALSE
INVARIANTS AccSummarisesFrames DwellIsUnbroken DwellMeansSomeone SecondsFit
