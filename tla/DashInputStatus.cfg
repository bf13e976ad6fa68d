SPECIFICATION InputSpec
CONSTANTS
  c1 = c1
  c2 = c2
  b1 = b1
  Clients <- OneClient
  Signals = {"inputs"}
  Buttons <- OneButton
  Values <- InputStates
  Events <- ButtonEdges
  MaxBacklog = 2
  MaxTime = 6
  MaxRuns = 1
  MaxEdges = 3
  Glued = FALSE
INVARIANTS
  NoPhantomAction
