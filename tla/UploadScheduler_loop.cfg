SPECIFICATION Spec
CONSTANTS
  MinutesPerDay = 4
  SecsPerMinute = 2
  Inodes = {i1, i2}
  Debounce = 3
  CloseDebounce = 1
  MaxConcurrent = 2
  Window <- NightWindow
  NoWindow = NoWindow
  Nobody = Nobody
  NoDeadline = NoDeadline
  ChannelCap = 1
  MaxTriggers = 4
  MaxFaults = 2

INVARIANTS TypeOK NoOversleep UploadsBounded
PROPERTY Drains
