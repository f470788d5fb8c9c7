\* A persistent child that loops twice; kills, crashes, the user's stop and one
\* restart; every way to build the two sides that the handshake is sound for.
SPECIFICATION Spec
CONSTANTS
  Options <- SoundOptions
  Persistent = TRUE
  LoopCount = 2
  Signal = "SIGKILL"
  Stops = TRUE
  Crashes = TRUE
  MaxRuns = 3
  MaxRestarts = 1
CHECK_DEADLOCK FALSE
INVARIANTS
  MapIsQuiet
  MapIsOfThisRun
PROPERTIES
  RunsAsAsked
