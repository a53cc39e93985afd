CONSTANTS
  s1 = s1
  s2 = s2
  p1 = p1
  p2 = p2
  p3 = p3
  None = None
  Sessions = {s1}
  Proofs = {p1, p2}
  GrantLife = 0
  PendingLife = 0
  AgeCap = 1
  MaxNotices = 1
  StartDoppler = {FALSE}
  Controls = {"resume", "reject", "password", "restart"}
SPECIFICATION Spec
SYMMETRY ProofSymmetry
INVARIANTS
  TypeOK
  OneUse
  InOnePlace
PROPERTIES
  FreshUse
  GrantDiesWithUnlock
  RefusedStaysBack
