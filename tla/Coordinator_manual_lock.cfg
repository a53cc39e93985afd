CONSTANTS
  s1 = s1
  s2 = s2
  p1 = p1
  p2 = p2
  p3 = p3
  None = None
  Sessions = {s1}
  Proofs = {p1, p2}
  GrantLife = 1
  PendingLife = 1
  AgeCap = 2
  MaxNotices = 1
  StartDoppler = {FALSE}
  Controls = {}
SPECIFICATION Spec
SYMMETRY ProofSymmetry
PROPERTIES
  ManualLockStays
