----------------------------- MODULE MCPipeline -----------------------------
(* Small instances of Pipeline: one worker per stage, as deployed. *)
EXTENDS Pipeline, TLC

MCStages == {"research", "analysis", "execution", "approval", "outcome"}
MCWorkers == {"researcher_1", "analyst_1", "executor_1", "approval_1", "outcome_1"}
MCStageOf == [researcher_1 |-> "research", analyst_1 |-> "analysis", executor_1 |-> "execution",
              approval_1 |-> "approval", outcome_1 |-> "outcome"]
\* A chain of at most seven jobs, each attempted a few times.
MCMessageIds == ({0} \X Alerts) \cup ((1 .. 7) \X (1 .. 4))
MCQueueClock == 0 .. 100
=============================================================================
