SPECIFICATION Spec
CONSTANTS
  c1 = c1 c2 = c2 c3 = c3 n1 = n1 n2 = n2
  Calls = {c1, c2, c3}
  Notes = {n1, n2}
  None = None
  Other = Other
  Worlds <- MCWorlds
  MaxFaults = 1
CONSTRAINT ThreeWithoutFaults
SYMMETRY MCSymmetry
INVARIANTS TypeOK PaidOnce SendsAreOnRecord KnownMeansLanded
CHECK_DEADLOCK FALSE
