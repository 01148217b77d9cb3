SPECIFICATION FairSpec
CONSTANTS
  k1 = k1 k2 = k2 k3 = k3 n1 = n1 n2 = n2 usd = usd eth = eth p1 = p1
  o1 = o1 o2 = o2 o3 = o3 r1 = r1 r2 = r2 r3 = r3
  Swaps = {k1, k2, k3}
  key <- MCKey
  Nullifiers = {n1, n2}
  Commitments = {o1, o2, o3, r1, r2, r3}
  Assets = {usd, eth}
  Pools = {p1}
  NATIVE = eth
  Unspent = Unspent
  Elsewhere = Elsewhere
  POOL_DELAY = 1
  MaxFee = 1
  MaxTime = 2
  MaxAmount = 2
  MaxStray = 1
INVARIANTS TypeOK NoNoteToADeadEscrow
PROPERTIES StraysAreNeverSpent WaitingMoneyLeaves KeepsPromise
CHECK_DEADLOCK FALSE
