SPECIFICATION ReplaySpec
CONSTANTS
  Recordings <- Files
  Speeds = {1, 2, 3}
  BatchSize = 3
  Ms = 2
  MaxElapsed = 8
  Positions = {0, 1, 2, 4, 6, 9}
INVARIANTS
  ScheduledOrAtRest
  PositionIsTrue
PROPERTIES
  NeverEarly
  PlayerSpec
  ReplayEnds
CHECK_DEADLOCK FALSE
