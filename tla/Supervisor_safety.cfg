SPECIFICATION Spec
CONSTANTS
  m1 = m1
  m2 = m2
  None = None
  Reserved = Reserved
  Monitors <- TwoMonitors
  Takes <- TwoTakes
  SabrMonitors <- OneMonitor
  Permits = 2
  MaxRetries = 1
INVARIANTS
  TypeOK
  SlotExclusive
  LiveIsTracked
  OpenRowIsOwned
PROPERTIES
  SettledIsFinal
  LedgerSpec
CHECK_DEADLOCK FALSE
