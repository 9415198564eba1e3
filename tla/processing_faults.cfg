SPECIFICATION Spec
CONSTANTS
  p1 = p1
  p2 = p2
  p3 = p3
  q1 = q1
  q2 = q2
  FirstRun = p1
  Runs <- MC_ThreeRuns
  Tampered <- MC_Second
  Requests <- MC_Two
  MaxInFlight = 2
  MaxJobs = 2
  MaxCopies = 3
  Faults <- MC_All
  MaxFaults = 2
SYMMETRY MC_Symmetry
PROPERTY OutputsAreSound
CHECK_DEADLOCK FALSE
