CONSTANTS
  HeatTicks = 2
  FlashTick = 1
  RetryTicks = 2
  ConnectTries = 2
SPECIFICATION FairSpec
INVARIANTS
  TypeOK
  ModesExclusive
  MonitorOwned
  PhotoAfterHeating
  LeftOnOnlyByExit
  HeatSkippedOnlyByOverlap
PROPERTIES
  ModesSpec
  TaskEnds
  ExitObeyed
CHECK_DEADLOCK FALSE
