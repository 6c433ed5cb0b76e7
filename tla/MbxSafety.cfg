CONSTANTS
  taskA = taskA
  taskB = taskB
  client = client
  Tasks <- MCTasks
  Clients <- MCClients
  MaySend <- MCMaySend
  Handles = {h1, h2, h3, h4}
  Prms = {p1}
  Cmds = {m1}
  MaxLen = 2
  Reserve = 1
SYMMETRY HandleSymmetry
SPECIFICATION Spec
INVARIANTS
  TypeOK
  HandleOnce
  PrmFreedInTime
  AcksAwaited
  AckNeverWaits
PROPERTY RpcSpec
