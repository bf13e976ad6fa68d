SPECIFICATION InputSpec
CONSTANTS
  c1 = c1
  c2 = c2
  b1 = b1
  Clients <- TwoClients
  Signals = {"inputs"}
  Buttons <- OneButton
  Values <- InputStates
  Events <- ButtonEdges
  MaxBacklog = 1
  MaxTime = 6
  MaxRuns = 1
  MaxEdges = 3
  Glued = TRUE
SYMMETRY ClientSymmetry
INVARIANTS
  NoPhantomAction
  EveryPressActs
