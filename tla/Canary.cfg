\* The monitor has set the file up before the first target runs; a buffer has
\* as many slots as there are bugs.
SPECIFICATION mc_Spec
CONSTANTS
  Bugs = {b1, b2}
  Early = FALSE
  Fatal = FALSE
  MaxCount = 2
  MaxSpawns = 2
  Names = {"A", "B", "C"}
  BUFFERLEN = 3
  MaxLogs = 4
CHECK_DEADLOCK FALSE
INVARIANTS
  SnapshotConsistent
  TriggeredLeReached
PROPERTIES
  PollsMonotone
  EventuallyConsumed
  CountsEveryBug
