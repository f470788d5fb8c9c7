SPECIFICATION Spec
CONSTANTS
  MapSize = 2
  MaxSeeds = 2
  MaxItems = 2
  MaxLen = 2
  Times = {1}
  MaxLevel = 1
  Weights <- mc_weights
  Unstable = FALSE
  Schedules = {"FAST"}
  CycleSchedules = FALSE
  Signals = FALSE
INVARIANT DisabledNeverFuzzed
CHECK_DEADLOCK FALSE
