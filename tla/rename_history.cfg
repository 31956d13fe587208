SPECIFICATION UniverseSpec
CONSTANTS
  old = old
  new = new
  token1 = token1
  p1 = p1
  Name <- Names
  Token <- OneToken
  Vague = old
  Process <- OneProcess
  NoList = NoList
  MaxSyncs = 1
  MaxEvents = 2
CHECK_DEADLOCK FALSE
INVARIANT RenamesKeepTheHistory
