SPECIFICATION GapLiveSpec
CONSTANTS
  Last = 4
  Lag = 2
  MaxTries = 2
  MaxMisses = 1
  MaxRestarts = 1
INVARIANTS
  RangesTypeOK
  RowsAreApart
  LossesAreQueued
  SpliceIsAsked
PROPERTIES
  SettledForGood
  JobIsOver
CHECK_DEADLOCK FALSE
