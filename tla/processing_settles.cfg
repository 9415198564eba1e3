SPECIFICATION FairSpec
CONSTANTS
  p1 = p1
  p2 = p2
  p3 = p3
  q1 = q1
  q2 = q2
  FirstRun = p1
  Runs <- MC_ThreeRuns
  Tampered <- MC_None
  Requests <- MC_Two
  MaxInFlight = 1
  MaxJobs = 2
  MaxCopies = 3
  Faults <- MC_None
  MaxFaults = 0
INVARIANTS ReadyInvariant
PROPERTIES DocumentSettles
CHECK_DEADLOCK FALSE
