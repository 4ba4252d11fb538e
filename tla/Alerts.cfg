SPECIFICATION Spec
CONSTANTS
  Assets = {yes_1, yes_2}
  Levels <- MCLevels
  WindowSec <- MCWindowSec
  DeltaPct <- MCDeltaPct
  MinTicks <- MCMinTicks
  CooldownSec = 2
  BufferSec = 3
  StaleSec = 1
  WarmupSec = 1
  QuoteSec = 1
  MaxSpread = 1
  Strong <- MCStrong
  Moderate <- MCLimit
  EventOf <- MCEventOf
  AllowedLevels = {"confirmation", "trend"}
  ExcludedConfidences = {"weak"}
  ExcludeTrades = TRUE
  MinPrice = 1
  MaxPrice = 9
  MinMove = 1
  DedupSec = 1
  SevereLevels = {"confirmation", "trend"}
  StartTime = 10
  MaxClock = 12
  Prices = {4, 5}
  Spreads <- MCSpreads
  MaxTicks = 4
  MaxSwitches = 1
  MaxRestarts = 1
SYMMETRY MCSymmetry
INVARIANTS TypeOK AlertCoherent CooldownKept EventSilenced
PROPERTIES InactiveSilent EveryAlertHandedOn
