SPECIFICATION DataSpec
CONSTANTS
  x1 = x1
  x2 = x2
  y1 = y1
  y2 = y2
  z1 = z1
  z2 = z2
  vague = vague
  one = one
  Instrument <- Both
  Short <- OneOfThem
  Weeks = 2
  Admin <- OneOfThem
  Slot <- OneOfThem
  MaxVersions = 2
  MaxCalls = 1
  MaxFailures = 1
  MaxFaults = 1
  NoRun = NoRun
  Name <- Names
  Token <- Y
  Vague = vague
  Process <- Z
  NoList = NoList
  MaxSyncs = 2
  MaxEvents = 1
  TradingDay <- Days
  LastDay = 21
  Close <- Closes
  RequestedWeeks = 2
  Tier <- Tiers
  DailyLookback = 2
  MinDailyBars = 2
  MinWeeklyBars = 1
CHECK_DEADLOCK FALSE
SYMMETRY Alike
INVARIANT TypeOK
INVARIANT HistoryFollowsVersions
INVARIANT WeeksShareTheActiveSet
INVARIANT PreparedMeansCurrent
INVARIANT SignalsAreRight
PROPERTY UniverseFollowsTheList
