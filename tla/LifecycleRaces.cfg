\* Two host processes compete to launch, stop and clean.
SPECIFICATION Spec
CONSTANTS
  Proc = {p1, p2}
  Run = {r1, r2}
  NoProc = NoProc
  NoRun = NoRun
  Commands = {"up", "down", "clean"}
  MaxUps = 2
  MaxFaults = 0
SYMMETRY Symmetry
INVARIANTS
  OneOwnedSandbox
  RecordIsRight
  ProvisionerOwnsOperation
  OutcomePublished
