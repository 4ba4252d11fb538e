----------------------------- MODULE PipelineDB -----------------------------
(***************************************************************************)
(* The tables of src/pipeline/db.py next to the job queue, and the         *)
(* PipelineDB methods that change them.  A table is a set of rows, or a    *)
(* sequence of message ids where only how often a row was written matters. *)
(*                                                                         *)
(* uuid4() identifiers are named after what drew them: a run (job_id,      *)
(* attempt) draws at most one message id, one candidate id and one         *)
(* snapshot id, so <<job_id, attempt>> stands for each; <<0, alert>> is    *)
(* the ingest message of an alert.  A trace is named by its alert          *)
(* (source_alert_id is UNIQUE and ensure_trace is one transaction).        *)
(***************************************************************************)
EXTENDS StageJobs, FiniteSets

CONSTANTS Alerts,          \* alert ids the scout sends
          ForeignKeys      \* REFERENCES enforced: TRUE on Postgres, FALSE on SQLite

VARIABLES traces,          \* pipeline_traces: alert -> [stage, status]
          messages,        \* stage_messages
          evidence,        \* research_evidence: message_id of each batch saved
          snapshots,       \* portfolio_snapshots: snapshot_id
          candidates,      \* analysis_candidates: message_id of each batch saved
          approvals,       \* approval_requests
          orders,          \* broker_orders: client_order_id
          observations     \* outcome_observations

records == <<traces, messages, evidence, snapshots, candidates, approvals, orders, observations>>

None == <<>>
NoStage == "none"

\* A stage_messages row.  contract is the Pydantic model the payload satisfies;
\* status and candidate are the payload fields a later stage branches on.
Message(id, a, s, parent, key, contract, status, candidate, expiry) ==
    [message_id |-> id, trace_id |-> a, stage |-> s, parent |-> parent,
     idempotency_key |-> key, contract |-> contract, status |-> status,
     candidate |-> candidate, expiry_at |-> expiry]

RecordInit == /\ traces = <<>> /\ messages = {} /\ evidence = <<>> /\ snapshots = {}
              /\ candidates = <<>> /\ approvals = {} /\ orders = {} /\ observations = {}

-----------------------------------------------------------------------------
\* idempotency.py: a key is equal to another one exactly when its parts are.
IngestKey(a) == <<"scout", a>>
ResearchKey(parent) == <<"research", parent>>
AnalysisKey(parent, captured_at) == <<"analysis", parent, captured_at>>
ExecutionKey(parent) == <<"execution", parent>>
ApprovalKey(parent, status) == <<"approval", parent, status>>
OutcomeKey(a, pending) == <<"outcome", a, pending>>
StableOrderId(a, candidate) == <<a, candidate>>

\* ensure_trace: also an existing trace is set back to the given stage.
EnsureTrace(a) ==
    traces' = [x \in DOMAIN traces \cup {a} |->
                 IF x = a THEN [stage |-> "ingest", status |-> "persisted"] ELSE traces[x]]

\* get_message
MessageOf(id) == CHOOSE m \in messages : m.message_id = id

\* _upsert_message_conn: the row that ends up under an idempotency key.  The key
\* is UNIQUE in the schemas besides, and looked up in the inserting transaction.
IsStored(key) == \E m \in messages : m.idempotency_key = key
StoredUnder(key) == (CHOOSE m \in messages : m.idempotency_key = key).message_id
UpsertMessage(m) ==
    messages' = IF IsStored(m.idempotency_key) THEN messages ELSE messages \cup {m}

\* Mutant: the next job is enqueued also when the message existed already.
CompleteWithOutput_Always(l, out, next_stage, at, trace_status) ==
    /\ CompleteJobSuccess(l,
         IF next_stage = NoStage THEN <<>>
         ELSE <<[stage |-> next_stage, message_id |-> out.message_id, available_at |-> at]>>)
    /\ UpsertMessage(out)
    /\ traces' = [traces EXCEPT ![out.trace_id] = [stage |-> out.stage, status |-> trace_status]]
    /\ UNCHANGED <<evidence, snapshots, candidates, approvals, orders, observations>>

\* complete_job_success with an output envelope: message, next job (only if the
\* message is new), trace, job and run in one transaction.
CompleteWithOutput(l, out, next_stage, at, trace_status) ==
    /\ CompleteJobSuccess(l,
         IF next_stage = NoStage \/ IsStored(out.idempotency_key) THEN <<>>
         ELSE <<[stage |-> next_stage, message_id |-> out.message_id, available_at |-> at]>>)
    /\ UpsertMessage(out)
    /\ traces' = [traces EXCEPT ![out.trace_id] = [stage |-> out.stage, status |-> trace_status]]
    /\ UNCHANGED <<evidence, snapshots, candidates, approvals, orders, observations>>

-----------------------------------------------------------------------------
\* create_approval_request.  message_id REFERENCES stage_messages: the insert
\* raises on Postgres while the message is not stored.
ReferenceHolds(id) == ForeignKeys => \E m \in messages : m.message_id = id

\* Mutant: a status that no reader of the table knows.
CreateApprovalRequest_Pending(id, candidate, expires_at) ==
    approvals' = approvals \cup {[message_id |-> id, candidate |-> candidate,
                                  status |-> "pending", expires_at |-> expires_at]}

CreateApprovalRequest(id, candidate, expires_at) ==
    approvals' = approvals \cup {[message_id |-> id, candidate |-> candidate,
                                  status |-> "requested", expires_at |-> expires_at]}

\* get_approval_request_by_message: a message id has at most one request.
RequestOf(id) == CHOOSE r \in approvals : r.message_id = id

\* Mutant: only a request that is still open can be decided.
DecideApproval_FirstWins(r, status) ==
    approvals' = IF r.status = "requested" THEN (approvals \ {r}) \cup {[r EXCEPT !.status = status]}
                 ELSE approvals

\* decide_approval: whatever the status was, it is overwritten.
DecideApproval(r, status) ==
    approvals' = (approvals \ {r}) \cup {[r EXCEPT !.status = status]}

-----------------------------------------------------------------------------
\* outcome_observations of a trace, the pending ones, and when the first is due.
ObservationsOf(a) == {o \in observations : o.trace_id = a}
Pending(a) == {o \in ObservationsOf(a) : ~o.observed}
FirstDue(rows) == CHOOSE t \in {o.scheduled_for : o \in rows} :
                     \A o \in rows : t <= o.scheduled_for

SaveOutcomeObservation(run, a, horizon, base_time) ==
    observations' = observations \cup
        {[saved_by |-> run, trace_id |-> a, horizon |-> horizon,
          scheduled_for |-> base_time + horizon, observed |-> FALSE]}

UpdateOutcomeObservation(o) ==
    observations' = (observations \ {o}) \cup {[o EXCEPT !.observed = TRUE]}
=============================================================================
