SPECIFICATION IpcSpec
CONSTANTS
  c1 = c1
  c2 = c2
  Clients <- TwoClients
  Signals = {"speed"}
  Values = {"v"}
  Events = {}
  MaxBacklog = 1
  MaxTime = 3
  MaxRuns = 1
INVARIANTS
  CatchesUp
