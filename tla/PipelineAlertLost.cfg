SPECIFICATION Spec
CONSTANTS
  Stages <- MCStages
  MessageIds <- MCMessageIds
  Workers <- MCWorkers
  StageOf <- MCStageOf
  LeaseSec = 1
  Alerts = {1}
  ForeignKeys = FALSE
  FreshSnapshots = TRUE
  ApprovalMode = "manual_all"
  ApprovalTimeout = 1
  CandidateTTL = 1
  Horizons = {1}
  Lookups = {"found"}
  MaxAttempts = 2
  RetryBackoff = 0
  WaitAttempts = 10000
  MaxFaults = 1
  MaxCrashes = 0
  MaxSends = 2
  MaxClicks = 0
  QueueDelays = {0, 1, 2, 3}
  QueueClock <- MCQueueClock
CHECK_DEADLOCK FALSE
INVARIANT AcceptedAlertQueued
