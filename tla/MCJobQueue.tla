----------------------------- MODULE MCJobQueue -----------------------------
(* A small instance of JobQueue: two workers on one stage and one on the next. *)
EXTENDS JobQueue, TLC

MCStages == {"research", "analysis"}
MCStageOf == [w \in Workers |-> IF w = "analyst_1" THEN "analysis" ELSE IngressStage]
=============================================================================
