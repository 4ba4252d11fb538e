SPECIFICATION Spec
CONSTANTS
  Stages <- MCStages
  MessageIds <- MCMessageIds
  Workers <- MCWorkers
  StageOf <- MCStageOf
  LeaseSec = 1
  Alerts = {1}
  ForeignKeys = TRUE
  FreshSnapshots = TRUE
  ApprovalMode = "paper_auto_only"
  ApprovalTimeout = 1
  CandidateTTL = 2
  Horizons = {1, 2}
  Lookups = {"found", "missing"}
  MaxAttempts = 2
  RetryBackoff = 0
  WaitAttempts = 10000
  MaxFaults = 0
  MaxCrashes = 2
  MaxSends = 2
  MaxClicks = 0
  QueueDelays = {0, 1, 2, 3}
  QueueClock <- MCQueueClock
CHECK_DEADLOCK FALSE
INVARIANTS HandoffExact OrderTrail AtMostOneSubmission
