SPECIFICATION Spec
CONSTANTS
  Inodes = {i1, i2}
  Contents = {c1, c2}
  None = None
  Mergeable = {i1, i2}
  Retention = 1
  Tasks = {t1}
  MaxWrites = 1
  MaxCuts = 0
  MaxEvents = 1
SYMMETRY Symmetry
INVARIANT HistoryRestorable
