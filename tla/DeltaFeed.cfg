SPECIFICATION FairSpec
CONSTANTS
  folder = folder
  album = album
  photo = photo
  Root = Root
  Outside = Outside
  None = None
  Items <- MCItems
  Dirs <- MCDirs
  Home <- MCHome
  PageSize = 1
  MaxLog = 3
  MaxFaults = 1
  MaxRevocations = 2
  MaxEvents = 3
INVARIANTS TypeOK FeedComplete
PROPERTIES ImplementsFeed CatchesUp
