\* Two attempts, two tasks and one command, with one fault each and fair
\* scheduling.
SPECIFICATION FairProcesses
CONSTANTS
  Attempt = {a1, a2}
  NoOwner = NoOwner
  Observed = {}
  MaxFaults = 1
  MaxUpdates = 0
  Task = {t1, t2}
  MaxGroupFaults = 1
  MaxCommandFaults = 1
PROPERTIES
  LeaseEndsProcesses
  CancelledReturns
  FailureStopsAll
  CommandEnds
\* The attempts, the group and the command end.
CHECK_DEADLOCK FALSE
