\* A rejected enrollment.
SPECIFICATION Spec
CONSTANTS
  Node = {n1}
  Sid = {s1}
  Unenrolled = Unenrolled
  NoGuest = NoGuest
  NoIdentity = NoIdentity
  MaxVersion = 0
  MaxFaults = 0
  MaxChanges = 0
SYMMETRY Symmetry
PROPERTIES
  UnenrolledEnds
