SPECIFICATION LiveSpec
CONSTANTS
  Assets = {"yes_1", "yes_2"}
  HourLen = 2
  HotHours = 1
  ArchiveRetention = 4
  MaxLag = 2
  MaxClock = 6
  MaxTicks = 2
  MaxFaults = 1
INVARIANT TypeOK
PROPERTIES ArchivedBeforeDeleted RewriteKeepsHotRows HotTableDrains
