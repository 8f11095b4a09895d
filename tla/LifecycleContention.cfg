\* Two host processes, all commands, one run, two launches of `up`.
SPECIFICATION Spec
CONSTANTS
  Proc = {p1, p2}
  Run = {r1}
  NoProc = NoProc
  NoRun = NoRun
  Commands = {"up", "down", "clean", "status", "attach"}
  MaxUps = 2
  MaxFaults = 0
SYMMETRY Symmetry
INVARIANTS
  ReadyAliasCurrent
  BusyReportConsistent
