SPECIFICATION FairSpec
CONSTANTS
  MaxTotal = 1
  MinFree = 1
  AgeLimited = TRUE
  DiskBytes = 2
  MaxFile = 1
  MaxOther = 1
  MaxSessions = 2
INVARIANTS
  CurrentSessionIntact
PROPERTIES
  MarkedIsProtected
  OldestFirst
  SweepWithinPolicy
  ImplementsJournal
  LimitsEnforced
