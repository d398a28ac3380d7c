SPECIFICATION RSpec
CONSTANTS
  m1 = m1
  m2 = m2
  None = None
  Reserved = Reserved
  Monitors <- TwoMonitors
  Takes <- TwoTakes
  SabrMonitors <- OneMonitor
  Permits = 2
  MaxRetries = 0
  MaxRestarts = 2
INVARIANTS
  RTypeOK
  LiveIsRegistered
  NoneForgotten
  StopLeavesNothing
PROPERTIES
  AdoptedBeforeDetection
  VerdictStands
CONSTRAINTS
  OnOneMonitor
CHECK_DEADLOCK FALSE
