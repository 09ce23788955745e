CONSTANTS
  Timer = {i1, i2}
  Timeouts <- AnyTimeout
  NearShift = 1
  LevelShift = 1
SPECIFICATION FairSpec
CHECK_DEADLOCK FALSE
INVARIANT InPlace
PROPERTIES FiresOnTime EveryTimerFires
