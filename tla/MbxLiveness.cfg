CONSTANTS
  taskA = taskA
  taskB = taskB
  client = client
  Tasks <- MCTasks
  Clients <- MCClients
  MaySend <- MCMaySend
  Handles = {h1, h2, h3}
  Prms = {}
  Cmds = {m1, m2}
  MaxLen = 2
  Reserve = 1
SPECIFICATION FairSpec
PROPERTY CallReturns
