\* One byte of the map, unstable traces, schedules that change, signals.
SPECIFICATION Spec
CONSTANTS
  MapSize = 1
  MaxSeeds = 2
  MaxItems = 2
  MaxLen = 2
  Times = {1}
  MaxLevel = 3
  Weights <- mc_weights
  Unstable = TRUE
  Schedules = {"EXPLORE", "QUAD"}
  CycleSchedules = TRUE
  Signals = TRUE
INVARIANTS FavoredCover SomeEnabled
PROPERTY StopStops
CHECK_DEADLOCK FALSE
