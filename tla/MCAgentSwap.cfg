SPECIFICATION FairSpec
CONSTANTS
  Swaps = {k1}
  Sends = {s1}
  None = None
  MaxFaults = 1
INVARIANTS TypeOK NoSecretIsForgotten BalanceIsReal
PROPERTIES ValueIsFound NoteIsFreed
CHECK_DEADLOCK FALSE
