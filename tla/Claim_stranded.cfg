SPECIFICATION LiveSpec
CONSTANTS
  twitch = twitch
  youtube = youtube
  None = None
  Instances <- TwoInstances
  Dated <- OnlyTwitch
  Sabr <- OnlyYoutube
  Givens <- PreferredBlocked
  Settle = 2
  StopWait = 1
  FailStep = 3
  MaxWait = 6
  SlowFinalize = FALSE
  MaxMishaps = 0
PROPERTIES
  StandbyTakesOver
CHECK_DEADLOCK FALSE
