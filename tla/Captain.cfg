SPECIFICATION mc_Spec
CONSTANTS
  j1 = j1
  j2 = j2
  j3 = j3
  Jobs = {j1, j2, j3}
  Pool = {1, 2}
  Need <- ThreeNeeds
  NoArchive = FALSE
INVARIANTS
  CpusExclusive
  DirsExclusive
PROPERTIES
  AllDone
