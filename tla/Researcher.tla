----------------------------- MODULE Researcher -----------------------------
(***************************************************************************)
(* ResearcherWorker.process_next.  The agent's verdict is a choice: only   *)
(* PASS hands over to the analyst, every other ResearchStatus ends here.   *)
(***************************************************************************)
EXTENDS StageWorker

ResearchVerdicts == {"pass", "defer"}

\* Mutant: evidence is saved for reports that pass only.
Analyze_PassOnly(w) ==
    /\ At(w, "analyze")
    /\ \E v \in ResearchVerdicts :
         /\ CompleteWithOutput(Held(w),
              Message(Run(w), Trace(w), "research", Parent(w).message_id,
                      ResearchKey(Parent(w).message_id), "ResearchReport", v, None, 0),
              IF v = "pass" THEN "analysis" ELSE NoStage, now, v)
         /\ IF v = "pass" THEN Goto(w, "save_evidence") ELSE Leave(w) /\ UNCHANGED budget
    /\ UNCHANGED <<now, env>>

Analyze(w) ==
    /\ At(w, "analyze")
    /\ \E v \in ResearchVerdicts :
         CompleteWithOutput(Held(w),
            Message(Run(w), Trace(w), "research", Parent(w).message_id,
                    ResearchKey(Parent(w).message_id), "ResearchReport", v, None, 0),
            IF v = "pass" THEN "analysis" ELSE NoStage, now, v)
    /\ Goto(w, "save_evidence")
    /\ UNCHANGED <<now, env>>

\* save_research_evidence for the message complete_job_success returned.
SaveResearchEvidence(w) ==
    /\ At(w, "save_evidence")
    /\ evidence' = Append(evidence, StoredUnder(ResearchKey(Parent(w).message_id)))
    /\ Leave(w)
    /\ UNCHANGED <<now, tables, traces, messages, snapshots, candidates, approvals, orders,
                   observations, budget, env>>

ResearcherStep(w) == Analyze(w) \/ SaveResearchEvidence(w)
=============================================================================
