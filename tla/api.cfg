SPECIFICATION ApiSpec
CONSTANTS
  x1 = x1
  x2 = x2
  y1 = y1
  y2 = y2
  z1 = z1
  z2 = z2
  one = one
  other = other
  Caller <- Callers
  MaxCallsPerHour = 2
  Hour = 5
  BaseCooldown = 3
  MaxCooldown = 6
  Slack = 2
  ReplyBound = 2
  Horizon = 9
  Viewer <- X
  Symbol <- Symbols
  OnGdf <- Y
  Retired <- Others
  Task <- Z
  Message <- Messages
  SymbolLimit = 1
  MaxUpsets = 1
  MaxPosts = 3
  Person <- Single
  Call <- X
  MaxRequests = 5
  Alert <- X
  Device <- Single
  Price <- Prices
  Evaluation <- Y
  MaxEdits = 3
  MaxQuotes = 3
  Server <- Single
  Reader <- X
  Admin <- Y
  Ttl = 2
  DayTtl = 3
  ReadBound = 1
  MaxUpdates = 2
  LastMoment = 2
CHECK_DEADLOCK FALSE
SYMMETRY Alike
INVARIANT ApiTypeOK
 
INVARIANT OneBlockPerBurst
 
INVARIANT WithinSymbolLimit
INVARIANT FeedsKeepUp
INVARIANT CredentialsAreSound
INVARIANT EveryAccountHasAWayIn
 
PROPERTY AlertsTriggerRightly
