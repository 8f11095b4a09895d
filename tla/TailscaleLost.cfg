\* A down that does not capture an enrolled Sandbox.
SPECIFICATION Spec
CONSTANTS
  Node = {n1, n2}
  Sid = {s1}
  Unenrolled = Unenrolled
  NoGuest = NoGuest
  NoIdentity = NoIdentity
  MaxVersion = 0
  MaxFaults = 0
  MaxChanges = 0
SYMMETRY Symmetry
INVARIANTS
  EnrolledKept
