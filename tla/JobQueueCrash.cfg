\* Two stages, one message, workers may crash.
SPECIFICATION LiveSpec
CONSTANTS
  Stages <- MCStages
  MessageIds = {1}
  LeaseSec = 1
  Workers = {"researcher_1", "researcher_2", "analyst_1"}
  StageOf <- MCStageOf
  IngressStage = "research"
  AttemptLimits = {2}
  Delays = {0, 1}
  Clock = {}
CHECK_DEADLOCK FALSE
PROPERTY ExpiredLeaseReclaimed
