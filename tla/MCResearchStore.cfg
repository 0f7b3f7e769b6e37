SPECIFICATION Spec
CONSTANTS
  c1 = c1
  c2 = c2
  None = None
  Malformed = Malformed
  Connections = {c1, c2}
  Offered <- MCOffered
SYMMETRY MCSymmetry
INVARIANTS
  LinksSound
PROPERTY KeepsLog
