SPECIFICATION LiveSpec
CONSTANTS
  twitch = twitch
  youtube = youtube
  None = None
  Instances <- TwoInstances
  Dated <- OnlyTwitch
  Sabr <- OnlyYoutube
  Givens <- SomeGivens
  Settle = 3
  StopWait = 2
  FailStep = 5
  MaxWait = 10
  SlowFinalize = FALSE
  MaxMishaps = 1
INVARIANTS
  TypeOK
  OneCapture
PROPERTIES
  SomebodyRecords
  ACaptureLasts
CHECK_DEADLOCK FALSE
