SPECIFICATION ClientFairSpec
CONSTANTS
  a = a
  b = b
  s1 = s1
  s2 = s2
  s3 = s3
  Request <- TwoCalls
  History <- TwoCalls
  Served = {}
  Sender = {}
  Sock <- ThreeSocks
  Attempts = 2
  MaxDrops = 0
  MaxCloses = 0
  Trouble = {}
  None = None
  Failed = Failed
CHECK_DEADLOCK FALSE
PROPERTY EveryCallSettles
