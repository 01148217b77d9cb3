SPECIFICATION Spec
CONSTANTS
  eth = eth
  v1 = v1
  treasury = treasury
  Assets = {eth}
  NATIVE = eth
  Addresses = {treasury}
  NoAddress = none
  Verifiers = {v1}
  LimitValues = {0, 1}
  BPS = 2
  MAX_WITHDRAW_FEE_BPS = 1
  Accounts = {deployer, ops}
  GUARD = guard
  Calls <- MCCalls
  CHANGE_DELAY = 1
  CHANGE_GRACE = 0
  MaxTime = 3
SYMMETRY AccountSymmetry
INVARIANTS GuardedVaultIsClosed LiveVaultIsWired
PROPERTIES RulesSpec NoticeBeforeChange GuardIsOneWay
CHECK_DEADLOCK FALSE
