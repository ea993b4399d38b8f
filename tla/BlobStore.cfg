SPECIFICATION Spec
CONSTANTS
  Inodes = {i1, i2}
  Contents = {c1, c2}
  None = None
  Mergeable = {i1, i2}
  Retention = 1
  Tasks = {t1, t2}
  MaxWrites = 2
  MaxCuts = 1
  MaxEvents = 2
SYMMETRY Symmetry
INVARIANTS TypeOK VersionsOnDisk HistoryBounded BasesOnDisk
