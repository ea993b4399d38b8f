SPECIFICATION Spec
CONSTANTS
  LocalEdits = {l1}
  RemoteEdits = {r1}
  Uploads = {u1}
  None = None
  MergeEnabled = TRUE
  FaultKinds = {"retry"}
  MaxFaults = 1
  MaxCrashes = 1
  MaxCaptures = 1
INVARIANTS DurablyDirty NothingLost
PROPERTY WritesReachCloud
