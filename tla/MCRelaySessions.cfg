CONSTANTS
  fam = fam
  Node = {n1, n2}
  Device = {d1, d2}
  Family = {fam}
  NodeConn = {a1, a2}
  DevConn = {x1, x2}
  FamilyOf <- MCFamilyOf
  None = None
SPECIFICATION Spec
SYMMETRY Symmetric
CHECK_DEADLOCK FALSE
INVARIANTS SessionsOpen LockedByTwo OnlyOwnClose
