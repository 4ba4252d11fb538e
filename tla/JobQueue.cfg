SPECIFICATION LiveSpec
CONSTANTS
  Stages = {"research"}
  MessageIds = {1, 2}
  LeaseSec = 1
  Workers = {"researcher_1", "researcher_2"}
  StageOf <- MCStageOf
  IngressStage = "research"
  AttemptLimits = {2, 3}
  Delays = {0, 1}
  Clock = {}
INVARIANTS TypeOK LeaseExclusive LeaseCurrent RunLedger DeadLetterLedger AttemptsBounded
PROPERTIES JobHistory EveryJobSettles
