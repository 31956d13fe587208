SPECIFICATION Spec
CONSTANTS
  full = full
  none = none
  a1 = a1
  u = u
  Symbol <- Symbols
  Empty <- NoData
  Admin <- OneAdmin
  Slot <- OneSlot
  BullAttempts = 1
  MaxFailures = 0
  MaxCrashes = 0
  MaxStalls = 0
  MaxRequests = 1
  Nobody = Nobody
CHECK_DEADLOCK FALSE
PROPERTY ResultSurvivesListing
