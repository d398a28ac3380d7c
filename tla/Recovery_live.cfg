SPECIFICATION RLiveSpec
CONSTANTS
  m1 = m1
  m2 = m2
  None = None
  Reserved = Reserved
  Monitors <- TwoMonitors
  Takes <- OneTake
  SabrMonitors <- OneMonitor
  Permits = 2
  MaxRetries = 0
  MaxRestarts = 2
PROPERTIES
  EveryRowSettles
CHECK_DEADLOCK FALSE
