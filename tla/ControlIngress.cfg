SPECIFICATION FairIngressSpec
CONSTANTS
  Users = {op, other}
  Allowed = {op}
  BatchLimit = 2
  MaxUpdates = 3
  MaxLines = 2
  MaxCrashes = 1
  MaxMissed = 1
INVARIANTS
  ObeyedInOrderPerRun
  FileCommandsAccountedFor
PROPERTIES
  EveryCommandIsTaken
CHECK_DEADLOCK FALSE
