SPECIFICATION Spec
CONSTANTS
  Files <- PlainFile
  Edits = {e1, e2}
  Stamps <- OneStamp
  None = None
  MaxFaults = 0
  MaxRuns = 1
PROPERTY KeepsYourVersion
CHECK_DEADLOCK FALSE
