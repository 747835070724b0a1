SPECIFICATION FairSpec
CONSTANTS
  Loops = {"watchdog", "control"}
  Capacity = 2
  Messages = {"feeds", "data", "freeze", "unfreeze", "op_freeze", "op_unfreeze", "other"}
  Workers = {"feeds"}
  Timers = {"data"}
  Timeout = 2
  MaxBurst = 3
INVARIANTS
  TypeOK
  CommandsFollowTrip
PROPERTIES
  LostLivenessFreezes
  RecoveryReleases
