SPECIFICATION mc_Spec
CONSTANTS
  NONE = NONE
  a = a
  c = c
  x = x
  Fuzzer = {f1, f2}
  Modes = {"auto"}
  Seeds <- mc_seed
  Finds = {c}
  Crashers = {}
  CrashIn = {"move", "marks", "files", "mkdirs", "read", "link", "nuke", "load",
             "running", "stats", "stop"}
  MaxCrashes = 2
  MaxNow = 0
INVARIANTS  MarksExact
PROPERTY FuzzesAgain
