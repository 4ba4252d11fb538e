------------------------------ MODULE Analyst ------------------------------
(***************************************************************************)
(* AnalystWorker.process_next.  Whether a candidate passes the filters is  *)
(* a choice of the market data.  The executor takes the best candidate     *)
(* only, so one stands for all.                                            *)
(***************************************************************************)
EXTENDS StageWorker

CONSTANTS FreshSnapshots,  \* a new snapshot per job, as with --once or a live provider;
                           \* FALSE: one StaticPortfolioProvider under run_forever.  As
                           \* __main__ makes a new one at each start, FALSE is a
                           \* behaviour in which the analyst is not started again
          CandidateTTL     \* expiry_at of a candidate: 15 minutes, in ticks

ASSUME AnalystAssumption == FreshSnapshots \in BOOLEAN /\ CandidateTTL \in Nat

\* Mutant: the provider takes a new snapshot for every attempt.
SnapshotId_PerRun(w) == Run(w)

SnapshotId(w) == IF FreshSnapshots THEN Run(w) ELSE <<0, 0>>

\* save_portfolio_snapshot: snapshot_id is the primary key, there is no upsert.
SavePortfolioSnapshot(w) ==
    /\ At(w, "snapshot")
    /\ SnapshotId(w) \notin snapshots
    /\ snapshots' = snapshots \cup {SnapshotId(w)}
    /\ Goto(w, "analysis")
    /\ UNCHANGED <<now, tables, traces, messages, evidence, candidates, approvals, orders,
                   observations, env>>

SnapshotExists(w) == At(w, "snapshot") /\ SnapshotId(w) \in snapshots /\ Raises(w)

\* The key contains the snapshot's captured_at.
AnalysisOutput(w, status) ==
    Message(Run(w), Trace(w), "analysis", Parent(w).message_id,
            AnalysisKey(Parent(w).message_id, SnapshotId(w)), "AnalysisReport", status,
            IF status = "pass" THEN Run(w) ELSE None, now + CandidateTTL)

\* Mutant: a rejected report is handed over too.
Analysis_HandsOverAll(w) ==
    /\ At(w, "analysis")
    /\ \E status \in {"pass", "reject"} :
         CompleteWithOutput(Held(w), AnalysisOutput(w, status), "execution", now, status)
    /\ Goto(w, "save_candidates")
    /\ UNCHANGED <<now, env>>

Analysis(w) ==
    /\ At(w, "analysis")
    /\ \E status \in {"pass", "reject"} :
         CompleteWithOutput(Held(w), AnalysisOutput(w, status),
                            IF status = "pass" THEN "execution" ELSE NoStage, now, status)
    /\ Goto(w, "save_candidates")
    /\ UNCHANGED <<now, env>>

SaveAnalysisCandidates(w) ==
    /\ At(w, "save_candidates")
    /\ candidates' = Append(candidates, StoredUnder(AnalysisKey(Parent(w).message_id, SnapshotId(w))))
    /\ Leave(w)
    /\ UNCHANGED <<now, tables, traces, messages, evidence, snapshots, approvals, orders,
                   observations, budget, env>>

AnalystStep(w) == \/ SavePortfolioSnapshot(w) \/ SnapshotExists(w)
                  \/ Analysis(w) \/ SaveAnalysisCandidates(w)
=============================================================================
