SPECIFICATION Spec
CONSTANTS
  MapSize = 2
  MaxSeeds = 2
  MaxItems = 3
  MaxLen = 2
  Times = {1, 2}
  MaxLevel = 1
  Weights <- mc_weights
  Unstable = FALSE
  Schedules = {"FAST"}
  CycleSchedules = FALSE
  Signals = FALSE
INVARIANTS RefCounts CountersExact FavoredTriggerAll TopRatedCheapest GreedyUndominated
CHECK_DEADLOCK FALSE
