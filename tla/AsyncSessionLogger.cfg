SPECIFICATION FairSpec
CONSTANTS
  Capacity = 2
  MaxSessions = 2
  MaxOffers = 3
INVARIANTS
  TypeOK
  NothingLostInQueue
  CompleteMeansFinal
  NoSilentLoss
  ClosedMeansQuiet
PROPERTIES
  ImplementsJournal
  CallerReturns
