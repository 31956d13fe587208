SPECIFICATION ProviderSpec
CONSTANTS
  x1 = x1
  x2 = x2
  y1 = y1
  y2 = y2
  api = api
  None = None
  Failed = Failed
  Candidate <- X
  Proxy <- Api
  LeaseTtl = 3
  MaxLate = 2
  Faults = {"crash", "stop", "subscribe"}
  MaxFaults = 1
  Caller <- Everyone
  Asker <- Api
  NoOwner = NoOwner
  Kind = {"instruments", "sectors", "indices", "prices", "backtest", "historical"}
  SyncCaller <- X
  JobAttempts = 2
  MaxRows = 2
  MaxAsks = 2
  MaxDeaths = 1
  Request <- X
  History <- X
  Served = {}
  Sender <- Api
  Sock <- Y
  Attempts = 2
  MaxDrops = 1
  MaxCloses = 1
  Trouble = {"refuse", "limit", "early"}
CHECK_DEADLOCK FALSE
SYMMETRY Alike
INVARIANT TypeOK
INVARIANT AtMostOneOwner
INVARIANT ExecutedOnce
INVARIANT OneInFlight
INVARIANT NeverSilentlyDisconnected
PROPERTY ImplementsLock
PROPERTY ElectionOutlivesDeadOwner
PROPERTY OnlyOwnerOpensSocket
PROPERTY RefusedOnlyByUnbrokered
 
