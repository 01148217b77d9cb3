SPECIFICATION FairSpec
CONSTANTS
  Requests = {q1, q2, q3}
  NoRequest = noRequest
  Elsewhere = elsewhere
  RpcErrorMayBeTaken = FALSE
INVARIANTS TypeOK AtMostOneSendOut NoPaidCopy LockOutlivesSend
PROPERTIES SpendIsFreed
CHECK_DEADLOCK FALSE
