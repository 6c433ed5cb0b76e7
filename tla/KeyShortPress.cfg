CONSTANTS
  HeatTicks = 2
  FlashTick = 1
  RetryTicks = 2
  ConnectTries = 2
SPECIFICATION FairSpec
PROPERTY ShortPressLeavesAirkiss
CHECK_DEADLOCK FALSE
