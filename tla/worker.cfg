SPECIFICATION WorkerSpec
CONSTANTS
  x1 = x1
  x2 = x2
  y1 = y1
  y2 = y2
  full = full
  none = none
  Symbol <- Symbols
  Empty <- OneOfThem
  Admin <- X
  Slot <- Y
  BullAttempts = 2
  MaxFailures = 1
  MaxCrashes = 1
  MaxStalls = 0
  MaxRequests = 3
  Nobody = Nobody
  Instrument <- Symbols
  MinuteFed <- OneOfThem
  Lane <- OneOfThem
  Caller <- TheOther
  LastDay = 3
  Overlap = 1
  RepairWindow = 2
  MaxTasks = 2
  LastRunDay = 2
  MaxMishaps = 2
  Api <- OneOfThem
  ChartCall <- X
  LastDate = 2
  MaxBoots = 1
  MaxGlitches = 1
  Viewing <- X
  Writing <- OneOfThem
  Tiers = {1}
  MaxChanges = 1
  MaxReleases = 1
  MaxWeeks = 1
CHECK_DEADLOCK FALSE
SYMMETRY Alike
INVARIANT TypeOK
INVARIANT OneRunAtATime
INVARIANT ChartAnswersAreFresh
INVARIANT SnapshotsFollowTheMarket
PROPERTY BacktestsOnlyWhenCovered
PROPERTY CandlesAreAccountedFor
PROPERTY DaysAreRun
