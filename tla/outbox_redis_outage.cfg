SPECIFICATION FairSpec
CONSTANTS
  e1 = e1
  e2 = e2
  d1 = d1
  d2 = d2
  Events <- MC_Events
  Malformed <- MC_None
  Dispatchers <- MC_Dispatchers
  BatchLimit = 1
  MaxAttempts = 2
  MaxStrikes = 3
  Faults <- MC_Connect
  MaxFaults = 1
PROPERTY NoLostJob
CHECK_DEADLOCK FALSE
