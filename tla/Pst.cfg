SPECIFICATION mc_Spec
CONSTANTS
  f = f
  g = g
  h = h
  NONE = NONE
  Func <- mc_Func
  Offset = {1, 2, 3}
  VAR = NONE
  Programs <- mc_Programs
  Histories <- mc_Histories
  MaxDepth = 2
  U32 = 8
  MaxItem = 3
  MaxWeight = 2
  MaxDraws = 2
INVARIANTS WeightsByChains MapExact
PROPERTY HeavyInTurn
CHECK_DEADLOCK FALSE
