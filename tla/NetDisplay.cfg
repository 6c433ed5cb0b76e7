CONSTANTS
  Strengths = 2
  Busy = {"EXE_TASK", "AIRKISS"}
  MaxPublish = 1
  MaxCalls = 4
  Buffers = {b1}
  Turns = 2
SPECIFICATION MCFairSpec
INVARIANTS
  TypesOK
  PhotoIsFresh
PROPERTIES
  LostAfterThreePings
  IconsFollow
  LedObeysLast
