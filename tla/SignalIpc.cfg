SPECIFICATION IpcFairSpec
CONSTANTS
  c1 = c1
  c2 = c2
  Clients <- TwoClients
  Signals = {"speed"}
  Values = {"v"}
  Events = {"edge"}
  MaxBacklog = 1
  MaxTime = 2
  MaxRuns = 2
INVARIANTS
  EventsInOrder
  ViewCatchesUp
PROPERTIES
  ViewNeverGoesBack
  ValuesArrive
