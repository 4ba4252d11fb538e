SPECIFICATION Spec
CONSTANTS
  Assets = {"yes_1"}
  HourLen = 2
  HotHours = 1
  ArchiveRetention = 4
  MaxLag = 0
  MaxClock = 6
  MaxTicks = 2
  MaxFaults = 0
CHECK_DEADLOCK FALSE
PROPERTY ArchivedRowsKept
