SPECIFICATION LiveSpec
CONSTANTS
  s1 = s1
  s2 = s2
  s3 = s3
  s4 = s4
  None = None
  Servers <- FourServers
  MaxMishaps = 1
  MaxClicks = 2
  MaxRuns = 2
INVARIANTS
  PTypeOK
PROPERTIES
  StopEndsIt
  ServerStaysUp
CHECK_DEADLOCK FALSE
