------------------------------ MODULE Outcome ------------------------------
(***************************************************************************)
(* OutcomeWorker.process_next.  Prices are data: a price that cannot be    *)
(* had is a fault of the update.                                           *)
(***************************************************************************)
EXTENDS StageWorker

DueNow(a) == {o \in Pending(a) : o.scheduled_for <= now}

\* ExecutionDecision.model_validate refuses the payload of an outcome message.
NotADecision(w) == /\ At(w, "observe")
                   /\ Parent(w).contract # "ExecutionDecision"
                   /\ Raises(w)

\* No intent, or no observations: complete_job_success without an envelope, so
\* the trace_status argument is not written anywhere.
NothingToObserve(w) ==
    /\ At(w, "observe") /\ Parent(w).contract = "ExecutionDecision"
    /\ Parent(w).candidate = None \/ ObservationsOf(Trace(w)) = {}
    /\ CompleteJobSuccess(Held(w), <<>>)
    /\ Leave(w)
    /\ UNCHANGED <<now, budget, records, env>>

CanObserve(w) == /\ At(w, "observe")
                 /\ Parent(w).contract = "ExecutionDecision" /\ Parent(w).candidate # None
                 /\ ObservationsOf(Trace(w)) # {}

\* Nothing is due: sleep until the first pending observation is.
WaitForWindow(w) ==
    /\ CanObserve(w) /\ DueNow(Trace(w)) = {} /\ Pending(Trace(w)) # {}
    /\ CompleteJobRetry(Held(w), FirstDue(Pending(Trace(w))) - now, WaitAttempts)
    /\ Leave(w)
    /\ UNCHANGED <<now, budget, records, env>>

\* min() of no pending observations raises ValueError.
NonePending(w) == CanObserve(w) /\ Pending(Trace(w)) = {} /\ Raises(w)

ReadDue(w) ==
    /\ CanObserve(w) /\ DueNow(Trace(w)) # {}
    /\ GotoWith(w, "update_observation", [NoLocals EXCEPT !.todo = DueNow(Trace(w))])
    /\ UNCHANGED <<now, tables, records, env>>

\* One due row after the other, in the order of scheduled_for.
UpdateObservation(w) ==
    /\ At(w, "update_observation")
    /\ LET o == CHOOSE x \in mem[w].todo : \A y \in mem[w].todo : x.scheduled_for <= y.scheduled_for
           rest == mem[w].todo \ {o}
       IN /\ UpdateOutcomeObservation(o)
          /\ GotoWith(w, IF rest = {} THEN "report" ELSE "update_observation",
                      [NoLocals EXCEPT !.todo = rest])
    /\ UNCHANGED <<now, tables, traces, messages, evidence, snapshots, candidates, approvals,
                   orders, env>>

\* The output message, and with observations left the next outcome job.
ReportOutcome(w) ==
    /\ At(w, "report")
    /\ LET rows == Pending(Trace(w))
           out == Message(Run(w), Trace(w), "outcome", Parent(w).message_id,
                          OutcomeKey(Trace(w), Cardinality(rows)), "OutcomeReport", "", None, 0)
       IN IF rows = {} THEN CompleteWithOutput(Held(w), out, NoStage, now, "outcome_complete")
          ELSE CompleteWithOutput(Held(w), out, "outcome", FirstDue(rows), "outcome_pending")
    /\ Leave(w)
    /\ UNCHANGED <<now, budget, env>>

OutcomeStep(w) == \/ NotADecision(w) \/ NothingToObserve(w) \/ WaitForWindow(w)
                  \/ NonePending(w) \/ ReadDue(w) \/ UpdateObservation(w) \/ ReportOutcome(w)
=============================================================================
