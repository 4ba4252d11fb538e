------------------------------ MODULE Executor ------------------------------
(***************************************************************************)
(* ExecutorWorker: process_next up to the decision, and _submit_order,     *)
(* which the ApprovalWorker runs too.  Of the risk checks the model keeps  *)
(* the one that depends on time, candidate_not_expired; the others are a   *)
(* choice.                                                                 *)
(***************************************************************************)
EXTENDS StageWorker

CONSTANTS ApprovalMode,     \* executor.approval_mode
          ApprovalTimeout,  \* executor.approval_timeout_minutes, in ticks
          Horizons,         \* schedule_default_outcomes: ticks until each horizon
          Lookups           \* how get_portfolio_snapshot may end: "found", "missing" or both

ASSUME ExecutorAssumption ==
    /\ Lookups \subseteq {"found", "missing"}
    /\ ApprovalTimeout \in Nat
    /\ Horizons \subseteq Nat /\ Horizons # {}

Decision(w, stage, key, status, candidate) ==
    Message(Run(w), Trace(w), stage, Parent(w).message_id, key, "ExecutionDecision",
            status, candidate, 0)

\* The report's snapshot is looked up among those the executor was started with.
SnapshotMissing(w) ==
    At(w, "execute") /\ Parent(w).candidate # None /\ "missing" \in Lookups /\ Raises(w)

RiskAccepts(w) ==
    Parent(w).candidate # None /\ "found" \in Lookups /\ Parent(w).expiry_at > now

\* No candidate, or a failed risk check.
RejectRisk(w) ==
    /\ At(w, "execute") /\ (Parent(w).candidate # None => "found" \in Lookups)
    /\ CompleteWithOutput(Held(w),
         Decision(w, "execution", ExecutionKey(Parent(w).message_id), "rejected_risk", None),
         NoStage, now, "rejected_risk")
    /\ Leave(w)
    /\ UNCHANGED <<now, budget, env>>

\* Mutant: the request names the message that is stored already.
RequestApproval_ForParent(w) ==
    /\ At(w, "execute") /\ ApprovalMode = "manual_all" /\ RiskAccepts(w)
    /\ CreateApprovalRequest(Parent(w).message_id, Parent(w).candidate, now + ApprovalTimeout)
    /\ Goto(w, "await_approval")
    /\ UNCHANGED <<now, tables, traces, messages, evidence, snapshots, candidates, orders,
                   observations, env>>

\* manual_all: the request names a message that is stored only afterwards, and
\* where foreign keys are enforced the insert raises.
RequestApproval(w) ==
    /\ At(w, "execute") /\ ApprovalMode = "manual_all" /\ RiskAccepts(w)
    /\ IF ReferenceHolds(Run(w))
       THEN /\ CreateApprovalRequest(Run(w), Parent(w).candidate, now + ApprovalTimeout)
            /\ Goto(w, "await_approval")
            /\ UNCHANGED <<now, tables, traces, messages, evidence, snapshots, candidates,
                           orders, observations, env>>
       ELSE Raises(w)

AwaitApproval(w) ==
    /\ At(w, "await_approval")
    /\ CompleteWithOutput(Held(w),
         Decision(w, "execution", ExecutionKey(Parent(w).message_id), "awaiting_approval",
                  Parent(w).candidate),
         "approval", now, "awaiting_approval")
    /\ Leave(w)
    /\ UNCHANGED <<now, budget, env>>

\* Any other approval mode submits at once.
SubmitUnattended(w) ==
    /\ At(w, "execute") /\ ApprovalMode # "manual_all" /\ RiskAccepts(w)
    /\ Goto(w, "get_order")
    /\ UNCHANGED <<now, tables, records, env>>

ExecutorStep(w) == \/ SnapshotMissing(w) \/ RejectRisk(w) \/ RequestApproval(w)
                   \/ AwaitApproval(w) \/ SubmitUnattended(w)

-----------------------------------------------------------------------------
\* Mutant: the client order id depends on the attempt.
ClientOrderId_PerRun(w) == StableOrderId(Trace(w), Run(w))

\* _submit_order, for the candidate of the parent message.
ClientOrderId(w) == StableOrderId(Trace(w), Parent(w).candidate)

\* Mutant: the order is recorded before it is placed.
GetBrokerOrder_SaveFirst(w) ==
    /\ At(w, "get_order")
    /\ Goto(w, IF ClientOrderId(w) \in orders THEN "submitted" ELSE "save_order")
    /\ UNCHANGED <<now, tables, records, env>>

GetBrokerOrder(w) ==
    /\ At(w, "get_order")
    /\ Goto(w, IF ClientOrderId(w) \in orders THEN "submitted" ELSE "place_order")
    /\ UNCHANGED <<now, tables, records, env>>

\* The broker receives the order; an answer that gets lost is a fault of the
\* next call.  PaperBrokerClient keeps no record of client order ids.
PlaceOrder(w) ==
    /\ At(w, "place_order")
    /\ broker' = Append(broker, [client_order_id |-> ClientOrderId(w), placed_at |-> now,
                                 parent |-> Parent(w).message_id])
    /\ Goto(w, "save_order")
    /\ UNCHANGED <<now, tables, records, req, sends, accepted, clicks>>

SaveBrokerOrder(w) ==
    /\ At(w, "save_order")
    /\ orders' = orders \cup {ClientOrderId(w)}
    /\ Goto(w, "submitted")
    /\ UNCHANGED <<now, tables, traces, messages, evidence, snapshots, candidates, approvals,
                   observations, env>>

\* The outcome job is queued here, before the observations it will look for.
Submitted(w) ==
    /\ At(w, "submitted")
    /\ CompleteWithOutput(Held(w),
         Decision(w, Held(w).stage, ExecutionKey(Parent(w).message_id), "submitted",
                  Parent(w).candidate),
         "outcome", now, "submitted")
    /\ Goto(w, "list_observations")
    /\ UNCHANGED <<now, env>>

\* Mutant: observations are scheduled on every pass.
ListObservations_Unchecked(w) ==
    /\ At(w, "list_observations")
    /\ GotoWith(w, "save_observation", [status |-> "", todo |-> Horizons, at |-> now])
    /\ UNCHANGED <<now, tables, records, env>>

\* Nothing is scheduled when the trace has any observation already.
ListObservations(w) ==
    /\ At(w, "list_observations")
    /\ IF ObservationsOf(Trace(w)) = {}
       THEN GotoWith(w, "save_observation", [status |-> "", todo |-> Horizons, at |-> now])
       ELSE Leave(w) /\ UNCHANGED budget
    /\ UNCHANGED <<now, tables, records, env>>

SaveObservation(w) ==
    /\ At(w, "save_observation")
    /\ LET h == CHOOSE x \in mem[w].todo : \A y \in mem[w].todo : x <= y
           rest == mem[w].todo \ {h}
       IN /\ SaveOutcomeObservation(Run(w), Trace(w), h, mem[w].at)
          /\ IF rest = {} THEN Leave(w) /\ UNCHANGED budget
             ELSE GotoWith(w, "save_observation", [mem[w] EXCEPT !.todo = rest])
    /\ UNCHANGED <<now, tables, traces, messages, evidence, snapshots, candidates, approvals,
                   orders, env>>

SubmitStep(w) == \/ GetBrokerOrder(w) \/ PlaceOrder(w) \/ SaveBrokerOrder(w)
                 \/ Submitted(w) \/ ListObservations(w) \/ SaveObservation(w)
=============================================================================
