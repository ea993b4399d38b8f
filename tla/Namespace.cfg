SPECIFICATION Spec
CONSTANTS
  DirNames = {"d", "e"}
  FileNames = {"x", "y"}
  PathOrder <- TwoDirs
  MaxInode = 6
  MaxContents = 5
  MaxEvents = 2
  MaxFaults = 1
INVARIANTS TypeOK NothingLost NeverRefused CacheUnshared
CHECK_DEADLOCK FALSE
