SPECIFICATION Spec
CONSTANTS
  Files <- TwoFiles
  Edits = {e1, e2}
  Stamps <- TwoStamps
  None = None
  MaxFaults = 1
  MaxRuns = 2
SYMMETRY Symmetry
INVARIANTS TypeOK NothingLost DirtyKept
CHECK_DEADLOCK FALSE
