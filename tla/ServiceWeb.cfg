SPECIFICATION Spec
CONSTANTS
  Clients = {"c1", "c2"}
  MaxClients = 1
  MaxQueued = 1
  MaxFile = 2
  Names = {"speed"}
  Deployed <- First
  Candidates <- Uploads
  Edits <- OtherEdits
  MaxTokens = 2
  MaxEdits = 1
  Actions = {"reboot"}
INVARIANTS
  AnsweredOnce
  WholeFile
  SetStaysValid
PROPERTIES
  ActivatedAsStaged
  ConnectionEnds
