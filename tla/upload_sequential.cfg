SPECIFICATION Spec
CONSTANTS
  s1 = s1
  s2 = s2
  s3 = s3
  r1 = r1
  r2 = r2
  r3 = r3
  r4 = r4
  k1 = k1
  good = good
  short = short
  spoof = spoof
  None = None
  Sessions <- MC_Two
  Requests <- MC_Requests4
  Keys <- MC_Key
  Contents <- MC_Contents
  WrongSize <- MC_Short
  WrongMagic <- MC_Spoof
  MaxActive = 2
  MaxInFlight = 1
SYMMETRY MC_Symmetry
PROPERTY UploadsAreFinal
CHECK_DEADLOCK FALSE
