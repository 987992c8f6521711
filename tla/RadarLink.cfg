SPECIFICATION Spec
CONSTANTS
  cfg_lines <- MCLines
  Rejected <- MCRejected
  Sites <- MCSites
  StopTimeout = 8
  LineTimeout = 12
  StartTimeout = 60
  BlankTimeout = 2
  BootWait = 9
  RetryWait = 20
  RADAR_STALL_MS = 40
  STORE_PERIOD_S = 120
  WriteTime = 1
  Latency = 1
  LateBy = 5
  MaxFaults = 2
INVARIANTS StreamMeansStarted NeverMute WholeProfile RestartCostsOneRecord
PROPERTIES Recovers
