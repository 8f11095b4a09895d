\* Liveness without crashes.
SPECIFICATION FairSpec
CONSTANTS
  Proc = {p1, p2}
  Run = {r1}
  NoProc = NoProc
  NoRun = NoRun
  Commands = {"up", "status"}
  MaxUps = 1
  MaxFaults = 0
PROPERTIES
  LockFreed
  StaleCleared
