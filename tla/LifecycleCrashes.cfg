\* One host process after another, killed or failing twice.
SPECIFICATION Spec
CONSTANTS
  Proc = {p1}
  Run = {r1, r2}
  NoProc = NoProc
  NoRun = NoRun
  Commands = {"up", "down", "clean", "status", "attach"}
  MaxUps = 2
  MaxFaults = 2
SYMMETRY Symmetry
INVARIANTS
  IInv
PROPERTIES
  TerminalOutcomeFinal
  OwnershipKept
