SPECIFICATION Spec
CONSTANTS
  Ids = {"threshold", "freshness", "demo"}
  Demos = {"demo"}
  Values = {0, 1, 2, 3, 4}
  LimitValues = {1, 3}
  Rules <- ThreeRules
  Presentations <- ThreePresentations
  StaleAfter = 1
  StaleDelay = 1
  FreshDelay = 1
  StaleSeverity = "warning"
  SourceStale = 1
  MaxAge = 3
INVARIANTS
  ListedAsEvaluated
  WarnedInTime
PROPERTIES
  ClearedOnlyWhenCalm
  SilencedAsShown
