SPECIFICATION ProviderLiveSpec
CONSTANTS
  worker1 = worker1
  worker2 = worker2
  NoOwner = NoOwner
  call1 = call1
  call2 = call2
  s1 = s1
  s2 = s2
  s3 = s3
  s4 = s4
  Request <- Calls
  History <- CallWithHistory
  Served <- NoCalls
  Sender <- NoCalls
  Sock <- Socks
  Attempts = 2
  MaxDrops = 0
  MaxCloses = 0
  Trouble <- LimitOnly
  None = None
  Failed = Failed
CHECK_DEADLOCK FALSE
INVARIANT ClientTypeOK
PROPERTY EveryCallSettles
PROPERTY SomebodyServes
PROPERTY LosersStepDown
