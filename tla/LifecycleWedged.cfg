\* Liveness after one crash or cleanup error.
SPECIFICATION FairSpec
CONSTANTS
  Proc = {p1}
  Run = {r1, r2}
  NoProc = NoProc
  NoRun = NoRun
  Commands = {"up", "status"}
  MaxUps = 1
  MaxFaults = 1
PROPERTIES
  StaleCleared
