------------------------------ MODULE Pipeline ------------------------------
(***************************************************************************)
(* The trading pipeline: ingress, the five stage workers, the approvers    *)
(* and the broker around one database.  Each step is one transaction or    *)
(* one external call of one process.                                       *)
(***************************************************************************)
EXTENDS Ingress, Researcher, Analyst, Approval, Outcome

\* The delays and clock times of the JobQueue the pipeline is compared with:
\* any number, cut down where TLC has to enumerate them.
CONSTANTS QueueDelays, QueueClock

ASSUME QueueAssumption == QueueDelays \subseteq Nat /\ QueueClock \subseteq Nat

vars == <<now, tables, records, lease, pc, mem, budget, env>>

Init == /\ JobInit /\ RecordInit /\ WorkerInit /\ IngressInit
        /\ clicks = <<>> /\ broker = <<>>

\* The clock matters while a job, a request or a candidate has its time ahead.
DeadlineAhead == \/ \E j \in DOMAIN jobs : jobs[j].available_at > now
                 \/ \E r \in approvals : r.expires_at > now
                 \/ \E m \in messages : m.expiry_at > now

Tick == /\ DeadlineAhead
        /\ now' = now + 1
        /\ UNCHANGED <<tables, records, lease, pc, mem, budget, env>>

\* What the program does by itself; the try block of a stage is StageStep.
StageStep(w) == \/ ResearcherStep(w) \/ AnalystStep(w) \/ ExecutorStep(w)
                \/ SubmitStep(w) \/ ApprovalStep(w) \/ OutcomeStep(w)
WorkerStep(w) == Lease(w) \/ StageStep(w) \/ Except(w)

Next == \/ IngressNext
        \/ \E w \in Workers : WorkerStep(w) \/ Fault(w) \/ Crash(w)
        \/ \E r \in approvals, status \in {"approved", "rejected"} : HumanDecides(r, status)
        \/ Tick

Spec == Init /\ [][Next]_vars

\* run_forever polls for ever, a call returns or raises, the event loop serves
\* a request it has begun, and time passes.  Nobody has to post or to click.
Fairness == /\ WF_vars(Tick) /\ WF_vars(IngressHandler)
            /\ \A w \in Workers : WF_vars(WorkerStep(w))
LiveSpec == Spec /\ Fairness
-----------------------------------------------------------------------------
TypeOK ==
    /\ now \in Nat
    /\ jobs \in Seq(JobRows) /\ runs \in Seq(Seq(JobStates)) /\ dead_letters \in Seq(Nat)
    /\ DOMAIN traces \subseteq Alerts
    /\ \A m \in messages : m.message_id \in MessageIds /\ m.trace_id \in DOMAIN traces
    /\ \A r \in approvals : r.status \in {"requested", "approved", "rejected", "expired"}
    /\ \A w \in Workers : lease[w] = <<>> <=> pc[w] = "idle"
    /\ faults \in 0 .. MaxFaults /\ crashes \in 0 .. MaxCrashes

Busy(j) == \E w \in Workers : lease[w] # <<>> /\ Held(w).job_id = j
TraceOfJob(j) == MessageOf(jobs[j].message_id).trace_id

\* The stage a message hands over to, by what its payload says.
NextStageOf(m) ==
    CASE m.contract = "ResearchReport" /\ m.status = "pass" -> "analysis"
      [] m.contract = "AnalysisReport" /\ m.status = "pass" -> "execution"
      [] m.status = "awaiting_approval" -> "approval"
      [] m.status = "submitted" -> "outcome"
      [] m.contract = "OutcomeReport" /\ m.idempotency_key[3] > 0 -> "outcome"
      [] m.contract = "IngestedAlert" -> "research"
      [] OTHER -> NoStage

\* No hand-over is lost and none is invented: a stored output that calls for a
\* next stage has its job from the moment it is stored (complete_job_success
\* is one transaction), and every job answers to a message that calls for its
\* stage.  Faults, retries after the commit and crashes included.  (The ingest
\* message is stored and enqueued in two transactions and is exempt.)
HandoffExact ==
    /\ \A m \in messages : m.contract # "IngestedAlert" /\ NextStageOf(m) # NoStage =>
            IsQueued(jobs, NextStageOf(m), m.message_id)
    /\ \A j \in DOMAIN jobs : \E m \in messages :
            m.message_id = jobs[j].message_id /\ NextStageOf(m) = jobs[j].stage

\* PLAN.md:1194: posting an alert again, retrying a stage or repeating a commit
\* creates no second research, analysis, execution or approval job of a trace.
NoDuplicateStageJobs ==
    \A j, k \in DOMAIN jobs :
        /\ jobs[j].stage = jobs[k].stage /\ jobs[j].stage # "outcome"
        /\ TraceOfJob(j) = TraceOfJob(k)
        => j = k

\* In manual_all mode an order reaches the broker only after a human approved
\* the very request its approval job waits for: neither a timeout, a retry nor
\* an approval of another request opens the gate.
OrderNeedsApproval ==
    ApprovalMode = "manual_all" =>
        \A i \in DOMAIN broker : \E c \in DOMAIN clicks :
            clicks[c] = [message_id |-> broker[i].parent, status |-> "approved"]

\* The approver's last word counts, however often a request is decided: when the
\* approval worker goes on to submit, the latest decision on its request is an
\* approval.  decide_approval overwrites what was decided before, and no retry
\* carries an earlier answer over.
LastClick(id, status) ==
    \E c \in DOMAIN clicks : /\ clicks[c] = [message_id |-> id, status |-> status]
                             /\ \A d \in DOMAIN clicks : d > c => clicks[d].message_id # id
LastDecisionCounts ==
    [][\A w \in Workers : pc[w] = "read_request" /\ pc'[w] = "get_order" =>
         LastClick(Parent(w).message_id, "approved")]_vars

\* What the database says of orders is true: a submitted decision has its
\* broker_orders row, and a row stands for an order the broker received.
OrderTrail ==
    /\ \A m \in messages : m.status = "submitted" =>
            StableOrderId(m.trace_id, m.candidate) \in orders
    /\ \A o \in orders : \E i \in DOMAIN broker : broker[i].client_order_id = o

\* README.md:539, PLAN.md:1067: whatever is retried, all orders of a trace that
\* reach the broker carry one client order id.
OneOrderPerTrace ==
    \A i, k \in DOMAIN broker :
        broker[i].client_order_id[1] = broker[k].client_order_id[1] =>
            broker[i].client_order_id = broker[k].client_order_id

\* An approval job finds the request for its message and candidate, although
\* request and message are written in two transactions: the branch of
\* ApprovalWorker that dead-letters a job without a request is dead code.
ApprovalJobHasRequest ==
    \A j \in DOMAIN jobs : jobs[j].stage = "approval" =>
        \E r \in approvals : /\ r.message_id = jobs[j].message_id
                             /\ r.candidate = MessageOf(jobs[j].message_id).candidate

\* A trace has at most one observation per horizon: rows are inserted without
\* a unique key, only the list_outcome_observations test keeps a retry of
\* _submit_order from scheduling them again.
OneObservationPerHorizon ==
    \A o, p \in observations : o.trace_id = p.trace_id /\ o.horizon = p.horizon => o = p

\* Evidence and candidates are saved after the commit of the job they belong
\* to, but never twice, and a job that ended succeeded has them: a failure in
\* between reopens the job.  (With crashes this fails: see the README.)
CountOf(batch, id) == Cardinality({i \in DOMAIN batch : batch[i] = id})
SideRecordsComplete ==
    \A m \in messages :
        LET batches == CASE m.contract = "ResearchReport" -> CountOf(evidence, m.message_id)
                         [] m.contract = "AnalysisReport" -> CountOf(candidates, m.message_id)
                         [] OTHER -> 1
            done(j) == /\ jobs[j].message_id = m.parent /\ jobs[j].stage = m.stage
                       /\ jobs[j].state = "succeeded" /\ ~Busy(j)
        IN batches <= 1 /\ ((\E j \in DOMAIN jobs : done(j)) => batches = 1)

\* A crash never makes an order go out twice: while calls do not fail, the
\* broker receives a client order id at most once.  A job whose worker died is
\* not leased again, so place_order is not repeated, whether or not the crash
\* came before save_broker_order.
AtMostOneSubmission ==
    faults = 0 => \A i, k \in DOMAIN broker :
        broker[i].client_order_id = broker[k].client_order_id => i = k

\* The pipeline's use of the job tables follows the JobQueue protocol.  Where a
\* worker stands in it shows in the row it holds.
PhaseOf(w) == CASE pc[w] = "idle" -> "idle"
                [] pc[w] # "idle" /\ jobs[Held(w).job_id].state = "running" -> "working"
                [] OTHER -> "finishing"
QueuePhase == [w \in Workers |-> PhaseOf(w)]
JQ == INSTANCE JobQueue WITH
        IngressStage <- "research",
        AttemptLimits <- {MaxAttempts, WaitAttempts},
        Delays <- QueueDelays,
        Clock <- QueueClock,
        phase <- QueuePhase
FollowsJobQueue == JQ!Spec

\* Every job comes to rest, and no worker is stuck in a job (no crashes).
AllJobsSettle ==
    <>[](/\ \A j \in DOMAIN jobs : jobs[j].state \in {"succeeded", "dead_letter"}
         /\ \A w \in Workers : pc[w] = "idle")

\* An order the broker received ends up in broker_orders although a call in
\* between fails: the retry places it again under the same client order id.
\* (Unless the approver takes the approval back before the retry, which then
\* closes the job as cancelled, although the order is out: see the README.)
PlacedOrderRecorded ==
    <>[](\A i \in DOMAIN broker : \/ broker[i].client_order_id \in orders
                                  \/ LastClick(broker[i].parent, "rejected"))
-----------------------------------------------------------------------------
\* What the documents promise and the code does not keep: every property below
\* is violated in a run of its own.

\* PLAN.md:1193: "Replaying a saved Scout alert creates one trace and one
\* research job": an alert that was answered with 202 has its research job.
AcceptedAlertQueued == \A a \in accepted : IsQueued(jobs, "research", <<0, a>>)

\* PLAN.md:1069: "Cancel if approval or price snapshot becomes stale": an order
\* goes out before the request it was approved by has expired.
NoStaleOrder ==
    \A i \in DOMAIN broker : \A r \in approvals :
        r.message_id = broker[i].parent => broker[i].placed_at < r.expires_at

\* README.md:122: outcomes are tracked at every horizon, and the worker
\* "reschedules if observation windows haven't arrived yet": the job it
\* reschedules is one it can process.
OutcomeReschedulable ==
    faults = 0 => \A i \in DOMAIN dead_letters : jobs[dead_letters[i]].stage # "outcome"
=============================================================================
