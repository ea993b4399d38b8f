SPECIFICATION FairSpec
CONSTANTS
  Items <- MCItems
  Paths <- MCPaths
  Dirs <- MCDirs
  ParentOf <- MCParentOf
  NameOf <- MCNameOf
  Above <- MCAbove
  Rebase <- MCRebase
  ConflictNs <- MCConflict
  Ignored <- MCIgnored
  Home <- MCHome
  HomeInode <- MCInode
  None = None
  FullModeIds = FALSE
  BaseInterval = 240
  FaultPoints = {"list", "start", "restart"}
  MaxInode = 8
  MaxOps = 2
  MaxFaults = 1
  MaxExpiries = 1
  MaxEvents = 2
INVARIANTS TypeOK PollBackoff IndexCurrent
PROPERTIES DirtyRowsKept  Converges
