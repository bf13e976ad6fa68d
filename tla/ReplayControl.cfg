SPECIFICATION ControlSpec
CONSTANTS
  Clients = {dash}
  Recordings <- Files
  Speeds = {1}
  BatchSize = 1
  Ms = 1
  MaxElapsed = 1
  Positions = {0}
  MaxBacklog = 1
  MaxCommands = 2
  MaxStarts = 2
INVARIANTS
  EachAnsweredOnce
PROPERTIES
  ClientInformed
CHECK_DEADLOCK FALSE
