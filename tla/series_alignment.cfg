SPECIFICATION SignalsSpec
CONSTANTS
  TradingDay <- Days
  LastDay = 11
  Close <- Closes
  RequestedWeeks = 2
  Tier <- Tiers
  DailyLookback = 2
  MinDailyBars = 2
  MinWeeklyBars = 1
CHECK_DEADLOCK FALSE
INVARIANT SeriesAgreesWithLatest
