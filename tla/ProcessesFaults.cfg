\* Two attempts, two tasks and one command, with two faults each.
SPECIFICATION ProcessSpec
CONSTANTS
  Attempt = {a1, a2}
  NoOwner = NoOwner
  Observed = {a1, a2}
  MaxFaults = 2
  MaxUpdates = 1
  Task = {t1, t2}
  MaxGroupFaults = 2
  MaxCommandFaults = 2
SYMMETRY Symmetry
INVARIANTS
  OneLauncher
  SuccessIsComplete
  NoInstallerEscapes
  ResultsAreTrue
  TreeContained
  EndingIsReported
PROPERTIES
  NoLateUpdate
  Refinement
\* The attempts, the group and the command end.
CHECK_DEADLOCK FALSE
