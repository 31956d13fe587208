SPECIFICATION FairSpec
CONSTANTS
  w1 = w1
  w2 = w2
  Candidate <- Workers
  Proxy = {}
  LeaseTtl = 3
  MaxLate = 2
  Faults = {"subscribe"}
  MaxFaults = 1
  Caller = {}
  Asker = {}
  NoOwner = NoOwner
PROPERTY SomeoneServes
