SPECIFICATION LiveSpec
CONSTANTS
  full = full
  none = none
  admin1 = admin1
  slot1 = slot1
  slot2 = slot2
  Nobody = Nobody
  NoRun = NoRun
CHECK_DEADLOCK FALSE
PROPERTY EveryCatchUpEnds
PROPERTY OrphansAreSeen
PROPERTY EveryImportIsPrepared
