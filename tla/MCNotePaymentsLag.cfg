SPECIFICATION Spec
CONSTANTS
  c1 = c1 c2 = c2 c3 = c3 n1 = n1 n2 = n2
  Calls = {c1, c2}
  Notes = {n1, n2}
  None = None
  Other = Other
  Worlds <- MCBothWorlds
  MaxFaults = 0
INVARIANT PaidOnce
CHECK_DEADLOCK FALSE
