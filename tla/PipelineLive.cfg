SPECIFICATION LiveSpec
CONSTANTS
  Stages <- MCStages
  MessageIds <- MCMessageIds
  Workers <- MCWorkers
  StageOf <- MCStageOf
  LeaseSec = 1
  Alerts = {1}
  ForeignKeys = FALSE
  FreshSnapshots = FALSE
  ApprovalMode = "manual_all"
  ApprovalTimeout = 1
  CandidateTTL = 1
  Horizons = {1}
  Lookups = {"found"}
  MaxAttempts = 3
  RetryBackoff = 0
  WaitAttempts = 10000
  MaxFaults = 1
  MaxCrashes = 0
  MaxSends = 1
  MaxClicks = 2
  QueueDelays = {0, 1}
  QueueClock <- MCQueueClock
CHECK_DEADLOCK FALSE
PROPERTIES  AllJobsSettle PlacedOrderRecorded FollowsJobQueue
