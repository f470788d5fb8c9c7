SPECIFICATION mc_Spec
CONSTANTS
  m = m
  a = a
  b = b
  Nodes = {m, b}
  Mains = {m}
  Cases = {"x", "y", "z"}
  Crashes = {}
  Replaced = {}
  Files = {f1, f2}
  MaxTime = 4
 
PROPERTIES  MainElected EveryFileImported
