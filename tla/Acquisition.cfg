SPECIFICATION FairSpec
CONSTANTS
  Timeout = 1
  Interval = 1
  Configs <- Rates
INVARIANTS
  PacketsDelivered
  HealthHonest
PROPERTIES
  LoggedAtRate
  Vn300Returns
  TerminationEnds
