SPECIFICATION Spec
CONSTANTS
  Requests = {q1, q2}
  NoRequest = noRequest
  Elsewhere = elsewhere
  RpcErrorMayBeTaken = TRUE
INVARIANTS AtMostOneSendOut
CHECK_DEADLOCK FALSE
