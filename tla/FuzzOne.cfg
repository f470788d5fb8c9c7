SPECIFICATION mc_Spec
CONSTANTS
  Cases <- TestCases
  Matter = {"m", "n"}
  TRIM_MIN_BYTES = 1
  TRIM_START_STEPS = 2
  TRIM_END_STEPS = 8
  MinLen = 5
  ShortWrites = TRUE
INVARIANTS
  WellTrimmed
  StagesComplete
  TokensAreStretches
  DictionariesInOrder
PROPERTY LinesLoaded
CHECK_DEADLOCK FALSE
