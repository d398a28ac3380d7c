SPECIFICATION RSpec
CONSTANTS
  m1 = m1
  None = None
  Reserved = Reserved
  Monitors <- OneMonitor
  Takes <- OneTake
  SabrMonitors <- NoMonitor
  Permits = 2
  MaxRetries = 0
  MaxRestarts = 1
PROPERTIES
  CaptureIsKept
CHECK_DEADLOCK FALSE
