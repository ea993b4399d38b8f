SPECIFICATION Spec
CONSTANTS
  Tasks = {1}
  MaxAttempts = 3
  MaxVersions = 3
  MaxEvents = 3
  MaxFaults = 0
  MaxCrashes = 0
PROPERTY RemoteEditsKept
CHECK_DEADLOCK FALSE
