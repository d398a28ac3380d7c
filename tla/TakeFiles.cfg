SPECIFICATION FLiveSpec
CONSTANTS
  None = None
  MaxAttempts = 2
  MaxRestarts = 1
INVARIANTS
  FTypeOK
  RowNamesFiles
  NothingTwice
PROPERTIES
  NothingIsLost
  SpliceComesToAnEnd
  ChaptersComeToAnEnd
CHECK_DEADLOCK FALSE
