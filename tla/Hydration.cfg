SPECIFICATION FairSpec
CONSTANTS
  Tasks = {1, 2}
  MaxAttempts = 3
  MaxVersions = 3
  MaxEvents = 3
  MaxFaults = 1
  MaxCrashes = 1
INVARIANTS
  TypeOK
  HydratingHasTask
  WritesKept
  EtagHonest
PROPERTIES
  ReconcileComplete
  ReadsReturn
CHECK_DEADLOCK FALSE
