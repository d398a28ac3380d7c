SPECIFICATION LiveSpec
CONSTANTS
  m1 = m1
  m2 = m2
  None = None
  Reserved = Reserved
  Monitors <- OneMonitor
  Takes <- TwoTakes
  SabrMonitors <- OneMonitor
  Permits = 1
  MaxRetries = 1
PROPERTIES
  SlotIsFreed
  EveryTakeSettles
  DrainEnds
CHECK_DEADLOCK FALSE
