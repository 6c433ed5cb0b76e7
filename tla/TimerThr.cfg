CONSTANTS
  Tasks = {t1}
  Times = {3, 6}
  Second = 3
  Interval = 1
  MaxGap = 4
  Uint32 = 100
  Horizon = 15
  Cells = {n1, n2, n3}
  Keepers = {key}
  Starters = {main}
  ListHead = ListHead
  Null = Null
  MaxIds = 3
  Widths = {1, 3}
  MaxLines = 10
  MaxSaves = 3
  HeatTicks = 1
  FlashTick = 1
  RetryTicks = 1
  MaxTasks = 3
SPECIFICATION MCSpec
INVARIANTS
  TypesOK
  OnTime
  ListIsTasks
  LateCallOnce
  ReportIsOwn
  RecordKept
PROPERTY PeriodKept
