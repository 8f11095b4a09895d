\* A down that stores the state of a Sandbox not yet restored.
SPECIFICATION Spec
CONSTANTS
  Node = {n1}
  Sid = {s1}
  Unenrolled = Unenrolled
  NoGuest = NoGuest
  NoIdentity = NoIdentity
  MaxVersion = 0
  MaxFaults = 1
  MaxChanges = 0
SYMMETRY Symmetry
INVARIANTS
  StoredRestores
