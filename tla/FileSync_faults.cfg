SPECIFICATION Spec
CONSTANTS
  LocalEdits = {l1}
  RemoteEdits = {}
  Uploads = {u1, u2}
  None = None
  MergeEnabled = TRUE
  FaultKinds = {"retry", "fatal", "conflict", "resolve", "db"}
  MaxFaults = 1
  MaxCrashes = 0
  MaxCaptures = 1
SYMMETRY Symmetry
INVARIANTS TypeOK NothingLost QuietMeansUploaded
