SPECIFICATION mc_Spec
CONSTANTS
  Bytes <- mc_bytes
  Traces <- mc_traces
  Options <- mc_flaky
  CalFaults = TRUE
  KEEP_UNIQUE_HANG = 2
  KEEP_UNIQUE_CRASH = 1
  TMOUT_LIMIT = 0
  MaxExecs = 2
  MaxCal = 2
  MaxQueue = 8
INVARIANTS
  NothingForgotten
  CrashesKept
CHECK_DEADLOCK FALSE
