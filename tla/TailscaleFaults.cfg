\* Two killed commands or lost connections, and a changed identity.
SPECIFICATION Spec
CONSTANTS
  Node = {n1, n2}
  Sid = {s1, s2}
  Unenrolled = Unenrolled
  NoGuest = NoGuest
  NoIdentity = NoIdentity
  MaxVersion = 1
  MaxFaults = 2
  MaxChanges = 1
SYMMETRY Symmetry
INVARIANTS
  ReadyIsStored
  ReadyStateKept
  ServiceRestarted
PROPERTIES
  IdentityStable
