SPECIFICATION Spec
CONSTANTS
  small = small
  first = first
  second = second
  exit = exit
  s1 = s1
  s2 = s2
  s3 = s3
  Servers = {s1, s2, s3}
  Server <- MCServer
  Amount <- MCAmount
  maxPerPayment = 2
  maxPerDay = 3
  DAY = 1
  KEEP = 3
  KEEP_MAX = 1
  NoCall = noCall
  Calls = {small, first, second}
  Exits = {}
  MaxTime = 0
INVARIANTS DailyCapHolds
CHECK_DEADLOCK FALSE
