---------------------------- MODULE OrderProofs ----------------------------
(***************************************************************************)
(* Proofs about orders in Pipeline: in manual_all mode each one follows an *)
(* approval of its own request, what the database says of orders is true,  *)
(* and without failing calls no order goes out twice.                      *)
(***************************************************************************)
EXTENDS PipelineProofs

-----------------------------------------------------------------------------
(* The steps, seen from the worker that takes them. *)

\* Where a worker stands tells the step it takes next.
Departure(w) ==
    /\ pc[w] = "analyze" => Analyze(w)
    /\ pc[w] = "save_evidence" => SaveResearchEvidence(w)
    /\ pc[w] = "snapshot" => SavePortfolioSnapshot(w) \/ SnapshotExists(w)
    /\ pc[w] = "analysis" => Analysis(w)
    /\ pc[w] = "save_candidates" => SaveAnalysisCandidates(w)
    /\ pc[w] = "place_order" => PlaceOrder(w)
    /\ pc[w] = "save_order" => SaveBrokerOrder(w)
    /\ pc[w] = "submitted" => Submitted(w)
    /\ pc[w] = "list_observations" => ListObservations(w)
    /\ pc[w] = "save_observation" => SaveObservation(w)
    /\ pc[w] = "update_observation" => UpdateObservation(w)
    /\ pc[w] = "except" => Except(w)
    /\ pc[w] = "idle" => Lease(w)

LEMMA Guards ==
    ASSUME NEW w \in Workers
    PROVE  /\ Lease(w) => pc[w] = "idle"
           /\ Except(w) => pc[w] = "except"
           /\ Analyze(w) => pc[w] = "analyze"
           /\ SaveResearchEvidence(w) => pc[w] = "save_evidence"
           /\ SavePortfolioSnapshot(w) \/ SnapshotExists(w) => pc[w] = "snapshot"
           /\ Analysis(w) => pc[w] = "analysis"
           /\ SaveAnalysisCandidates(w) => pc[w] = "save_candidates"
           /\ RejectRisk(w) \/ SnapshotMissing(w) \/ RequestApproval(w) \/ SubmitUnattended(w)
                => pc[w] = "execute"
           /\ AwaitApproval(w) => pc[w] = "await_approval"
           /\ GetBrokerOrder(w) => pc[w] = "get_order"
           /\ PlaceOrder(w) => pc[w] = "place_order"
           /\ SaveBrokerOrder(w) => pc[w] = "save_order"
           /\ Submitted(w) => pc[w] = "submitted"
           /\ ListObservations(w) => pc[w] = "list_observations"
           /\ SaveObservation(w) => pc[w] = "save_observation"
           /\ ReadRequest(w) => pc[w] = "read_request"
           /\ ExpireRequest(w) => pc[w] = "expire"
           /\ WaitForApproval(w) => pc[w] = "wait"
           /\ CloseApproval(w) => pc[w] = "close"
           /\ NotADecision(w) \/ NothingToObserve(w) \/ WaitForWindow(w) \/ NonePending(w)
                \/ ReadDue(w) => pc[w] = "observe"
           /\ UpdateObservation(w) => pc[w] = "update_observation"
           /\ ReportOutcome(w) => pc[w] = "report"
<1> USE DEF At
<1>1. /\ Lease(w) => pc[w] = "idle"
      /\ Except(w) => pc[w] = "except"
      /\ Analyze(w) => pc[w] = "analyze"
      /\ SaveResearchEvidence(w) => pc[w] = "save_evidence"
  BY Zenon DEF Lease, Except, Analyze, SaveResearchEvidence
<1>2. /\ SavePortfolioSnapshot(w) \/ SnapshotExists(w) => pc[w] = "snapshot"
      /\ Analysis(w) => pc[w] = "analysis"
      /\ SaveAnalysisCandidates(w) => pc[w] = "save_candidates"
  BY Zenon DEF SavePortfolioSnapshot, SnapshotExists, Analysis, SaveAnalysisCandidates
<1>3. /\ RejectRisk(w) \/ SnapshotMissing(w) \/ RequestApproval(w) \/ SubmitUnattended(w)
                => pc[w] = "execute"
      /\ AwaitApproval(w) => pc[w] = "await_approval"
  BY Zenon DEF RejectRisk, SnapshotMissing, RequestApproval, SubmitUnattended, AwaitApproval
<1>4. /\ GetBrokerOrder(w) => pc[w] = "get_order"
      /\ PlaceOrder(w) => pc[w] = "place_order"
      /\ SaveBrokerOrder(w) => pc[w] = "save_order"
      /\ Submitted(w) => pc[w] = "submitted"
      /\ ListObservations(w) => pc[w] = "list_observations"
      /\ SaveObservation(w) => pc[w] = "save_observation"
  BY Zenon DEF GetBrokerOrder, PlaceOrder, SaveBrokerOrder, Submitted, ListObservations,
     SaveObservation
<1>5. /\ ReadRequest(w) => pc[w] = "read_request"
      /\ ExpireRequest(w) => pc[w] = "expire"
      /\ WaitForApproval(w) => pc[w] = "wait"
      /\ CloseApproval(w) => pc[w] = "close"
  BY Zenon DEF ReadRequest, ExpireRequest, WaitForApproval, CloseApproval
<1>6. /\ NotADecision(w) \/ NothingToObserve(w) \/ WaitForWindow(w) \/ NonePending(w)
                \/ ReadDue(w) => pc[w] = "observe"
      /\ UpdateObservation(w) => pc[w] = "update_observation"
      /\ ReportOutcome(w) => pc[w] = "report"
  BY Zenon DEF NotADecision, NothingToObserve, WaitForWindow, NonePending, ReadDue, CanObserve,
     UpdateObservation, ReportOutcome
<1> QED BY <1>1, <1>2, <1>3, <1>4, <1>5, <1>6

LEMMA Departs ==
    ASSUME NEW w \in Workers, WorkerStep(w)
    PROVE  Departure(w)
BY Guards DEF Departure, WorkerStep, StageStep, ResearcherStep, AnalystStep, ExecutorStep,
   SubmitStep, ApprovalStep, OutcomeStep

\* What a step outside the workers leaves alone.
Aside == /\ UNCHANGED <<lease, pc, mem, evidence, snapshots, candidates, orders, observations,
                        broker, crashes>>
         /\ faults' = faults \/ faults' = faults + 1
         /\ \A m \in messages' \ messages : \E a \in Alerts : m = IngestMessage(a)
WorkerShape(w) == /\ WorkerStep(w) \/ Fault(w) \/ Crash(w)
                  /\ WorkerStep(w) => Departure(w)
                  /\ Frame(w) /\ Arrival(w) /\ Written(w)
StepShape == \/ \E w \in Workers : WorkerShape(w)
             \/ Aside /\ UNCHANGED <<approvals, clicks>>
             \/ /\ Aside /\ messages' = messages
                /\ \E r \in approvals, status \in {"approved", "rejected"} : HumanDecides(r, status)
Goes == /\ QueueStep /\ now' \in Nat /\ PipelineInv' /\ StepShape
        /\ messages \subseteq messages'
        /\ \A w \in Workers : pc[w] # "idle" /\ pc'[w] # "idle" => StaysIn(w)

LEMMA Shapes ==
    ASSUME PipelineInv, [Next]_vars
    PROVE  Goes
<1> USE DEF tables, records, ingressRest, budget, env
<1>1. QueueInv /\ IngressOK /\ ObservationsOK
  BY DEF PipelineInv
<1>2. QueueStep /\ now' \in Nat /\ PipelineInv'
  BY NextKinds, IngressKept, RequestsKept, ObservationsKept, BudgetKept DEF PipelineInv
<1>3. /\ messages \subseteq messages'
      /\ \A w \in Workers : pc[w] # "idle" /\ pc'[w] # "idle" => StaysIn(w)
  BY <1>1, <1>2, LeaseStays DEF PipelineInv
<1>4. ASSUME NEW w \in Workers, WorkerStep(w) \/ Fault(w) \/ Crash(w)
      PROVE  StepShape
  BY <1>1, <1>4, WorkerFrames, Departs DEF StepShape, WorkerShape
<1>5. ASSUME IngressNext \/ Tick \/ UNCHANGED vars PROVE StepShape
  <2>1. CASE HandleUpsertMessage
    <3>1. req[1].alert \in Alerts
      BY <1>1, <2>1 DEF IngressOK, HandleUpsertMessage, InCall
    <3>2. UNCHANGED <<lease, pc, mem, evidence, snapshots, candidates, orders, observations,
                      broker, crashes, approvals, clicks, faults>>
      BY <2>1 DEF HandleUpsertMessage
    <3>3. messages' \subseteq messages \cup {IngestMessage(req[1].alert)}
      BY <2>1 DEF HandleUpsertMessage, UpsertMessage
    <3>4. Aside
      BY <3>1, <3>2, <3>3 DEF Aside
    <3> QED BY <3>2, <3>4 DEF StepShape
  <2>2. CASE ~HandleUpsertMessage
    <3>1. /\ UNCHANGED <<lease, pc, mem, evidence, snapshots, candidates, orders, observations,
                         broker, crashes, messages, approvals, clicks>>
          /\ faults' = faults \/ faults' = faults + 1
      BY <1>5, <2>2 DEF IngressNext, IngressHandler, Post, HandleEnsureTrace,
         HandleEnqueueJob, Respond202, IngressFault, Tick, vars
    <3>2. Aside
      BY <3>1 DEF Aside
    <3> QED BY <3>1, <3>2 DEF StepShape
  <2> QED BY <2>1, <2>2
<1>6. ASSUME NEW r \in approvals, NEW status \in {"approved", "rejected"}, HumanDecides(r, status)
      PROVE  StepShape
  <2>1. Aside /\ messages' = messages
    BY <1>6 DEF HumanDecides, Aside
  <2> QED BY <1>6, <2>1 DEF StepShape
<1>7. StepShape
  BY <1>4, <1>5, <1>6 DEF Next
<1> QED BY <1>2, <1>3, <1>7 DEF Goes

-----------------------------------------------------------------------------
(* Jobs that no worker will take up again. *)

\* A row that is running or done changes only by a step of the worker that
\* holds it, and gets no other holder.
LEMMA RowShift ==
    ASSUME QueueInv, QueueStep, QueueInv', NEW j \in DOMAIN jobs,
           jobs[j].state \in {"running", "succeeded"}
    PROVE  /\ \/ jobs'[j] = jobs[j]
              \/ \E v \in Workers : pc[v] # "idle" /\ Held(v).job_id = j /\ pc'[v] # pc[v]
           /\ \A v \in Workers : pc'[v] # "idle" /\ Held(v)'.job_id = j =>
                                   pc[v] # "idle" /\ Held(v).job_id = j
<1>1. TablesOK /\ LeasesOK /\ DOMAIN pc = Workers /\ DOMAIN lease = Workers /\ now' \in Nat
  BY DEF QueueInv, LeasesOK, TablesOK
<1> DEFINE Own(v) == pc[v] # "idle" /\ Held(v).job_id = j /\ pc'[v] # pc[v]
<1>2. ASSUME NEW w \in Workers, NEW k \in DOMAIN jobs, Takes(w, k)
      PROVE  jobs'[j] = jobs[j] /\ k # j /\ Held(w)'.job_id # j
  <2>1. jobs[k].state \in {"queued", "retry_wait"} /\ \A i \in DOMAIN jobs \ {k} : jobs'[i] = jobs[i]
    BY <1>1, <1>2, TakesSound
  <2>2. lease'[w] = <<LeaseOf(k)>>
    BY <1>1, <1>2 DEF Takes
  <2>3. Held(w)'.job_id = k
    BY <2>2 DEF Held, LeaseOf
  <2> QED BY <2>1, <2>3
<1>3. ASSUME NEW w \in Workers, NEW states, Ended(w, states), pc[w] # "idle", pc'[w] # pc[w]
      PROVE  jobs'[j] = jobs[j] \/ Own(w)
  BY <1>3 DEF Ended
<1>4. jobs'[j] = jobs[j] \/ \E v \in Workers : Own(v)
  <2>1. CASE Quiet \/ \E a \in Alerts : StoresAlert(a) \/ QueuesAlert(a)
    BY <1>1, <2>1, QueuesSound DEF Quiet, StoresAlert
  <2>2. ASSUME NEW w \in Workers, (\E c : Moves(w, c)) \/ Quits(w) PROVE jobs'[j] = jobs[j]
    BY <2>2 DEF Moves, Quits
  <2>3. ASSUME NEW w \in Workers, Finishes(w) PROVE jobs'[j] = jobs[j] \/ Own(w)
    <3>1. pc[w] # "idle" /\ pc'[w] = "idle"
      BY <1>1, <2>3 DEF Finishes, BeforeCommit, LetsGo
    <3> QED BY <1>1, <1>3, <2>3, <3>1, FinishesSound
  <2>4. ASSUME NEW w \in Workers, NEW delay \in Nat, NEW limit \in Nat, Retries(w, delay, limit)
        PROVE  jobs'[j] = jobs[j] \/ Own(w)
    <3>1. pc[w] # "idle" /\ pc'[w] = "idle"
      BY <1>1, <2>4 DEF Retries, LetsGo
    <3> QED BY <1>1, <1>3, <2>4, <3>1, RetriesSound
  <2>5. ASSUME NEW w \in Workers, NEW out, NEW at, Emits(w, out, at)
        PROVE  jobs'[j] = jobs[j] \/ Own(w)
    <3>1. pc[w] # "idle" /\ pc'[w] # pc[w]
      BY <1>1, <2>5 DEF Emits, BeforeCommit, LetsGo
    <3> QED BY <1>1, <1>3, <2>5, <3>1, EmitsSound
  <2> HIDE DEF Own
  <2> QED BY <1>2, <2>1, <2>2, <2>3, <2>4, <2>5 DEF QueueStep
<1>5. ASSUME NEW v \in Workers, pc'[v] # "idle", Held(v)'.job_id = j
      PROVE  pc[v] # "idle" /\ Held(v).job_id = j
  <2>1. pc[v] # "idle"
    <3>1. SUFFICES ASSUME pc[v] = "idle" PROVE FALSE
      OBVIOUS
    <3>2. \E k \in DOMAIN jobs : Takes(v, k)
      BY <1>1, <1>5, <3>1 DEF QueueStep, Quiet, StoresAlert, QueuesAlert, Moves, Quits, Takes,
         Finishes, Retries, Emits, LetsGo, BeforeCommit
    <3> QED BY <1>2, <1>5, <3>2
  <2>2. StaysIn(v)
    BY <1>5, <2>1, LeaseStays
  <2> QED BY <1>5, <2>1, <2>2 DEF StaysIn
<1> QED BY <1>4, <1>5

-----------------------------------------------------------------------------
(* The invariant about orders, by parts. *)

OrderRows == [client_order_id : Alerts \X (Ids \cup {None}), placed_at : Nat, parent : Ids]
ClickRows == [message_id : Ids, status : {"approved", "rejected"}]
LogsOK == broker \in Seq(OrderRows) /\ clicks \in Seq(ClickRows)

\* The stage that submits orders in this mode, and its calls.
OrderStage == IF ApprovalMode = "manual_all" THEN "approval" ELSE "execution"
ModeOK ==
    /\ \A w \in Workers : /\ pc[w] \in SubmitCalls => StageOf[w] = OrderStage
                          /\ pc[w] = "await_approval" => ApprovalMode = "manual_all"
    /\ \A m \in messages : m.status = "awaiting_approval" => ApprovalMode = "manual_all"

\* What a candidate id says of the message that carries it.
CandidateOK(m) ==
    /\ m.contract = "AnalysisReport" /\ m.status = "pass" => m.candidate = m.message_id
    /\ m.status = "awaiting_approval" => m.idempotency_key = ExecutionKey(m.candidate)
CandidatesOK == \A m \in messages : CandidateOK(m)

\* A message id that a run has drawn.  A run draws it once, for its request, so
\* a message has at most one request.
Drawn(id) == \E j \in DOMAIN jobs : \E n \in Nat : n <= jobs[j].attempt_count /\ id = <<j, n>>
RequestIdsOK ==
    /\ \A q, r \in approvals : q.message_id = r.message_id => q = r
    /\ \A r \in approvals : Drawn(r.message_id)
    /\ \A w \in Workers : pc[w] = "execute" => \A r \in approvals : r.message_id # Run(w)

\* A human approved the request for message id.
Clicked(id) == \E c \in DOMAIN clicks : clicks[c] = [message_id |-> id, status |-> "approved"]
ApprovedOK ==
    /\ \A r \in approvals : r.status = "approved" => LastClick(r.message_id, "approved")
    /\ ApprovalMode = "manual_all" =>
         \A w \in Workers : pc[w] \in {"get_order", "place_order"} => Clicked(Parent(w).message_id)

\* The broker received order o.
Received(o) == \E i \in DOMAIN broker : broker[i].client_order_id = o
TrailOK ==
    \A w \in Workers : /\ pc[w] = "save_order" => Received(ClientOrderId(w))
                       /\ pc[w] = "submitted" => ClientOrderId(w) \in orders

\* An order answers to the message of its job; while no call has failed, that
\* job is past place_order and will not be taken up again.
Placed == {"save_order", "submitted", "list_observations", "save_observation"}
Past(j) == /\ jobs[j].state \in {"running", "succeeded"}
           /\ \A w \in Workers : pc[w] # "idle" /\ Held(w).job_id = j => pc[w] \in Placed
OrdersFor(i) == \E m \in messages :
                  /\ m.message_id = broker[i].parent /\ NextStageOf(m) = OrderStage
                  /\ broker[i].client_order_id = StableOrderId(m.trace_id, m.candidate)
JobPast(id) == \E j \in DOMAIN jobs :
                 jobs[j].stage = OrderStage /\ jobs[j].message_id = id /\ Past(j)
OrdersSpent == /\ \A i \in DOMAIN broker : OrdersFor(i)
               /\ faults = 0 => \A i \in DOMAIN broker : JobPast(broker[i].parent)

OrderInv == /\ PipelineInv /\ LogsOK /\ ModeOK /\ CandidatesOK /\ RequestIdsOK /\ ApprovedOK
            /\ OrderNeedsApproval /\ OrderTrail /\ TrailOK /\ OrdersSpent /\ AtMostOneSubmission

\* The broker receives an order of w.
LEMMA PlacedFacts ==
    ASSUME PipelineInv, LogsOK, NEW w \in Workers, PlaceOrder(w)
    PROVE  LET o == [client_order_id |-> ClientOrderId(w), placed_at |-> now,
                     parent |-> Parent(w).message_id]
           IN /\ broker' = Append(broker, o) /\ o \in OrderRows
              /\ broker' \in Seq(OrderRows) /\ Len(broker') = Len(broker) + 1
              /\ DOMAIN broker' = DOMAIN broker \cup {Len(broker) + 1}
              /\ Len(broker) + 1 \notin DOMAIN broker
              /\ broker'[Len(broker) + 1] = o /\ \A i \in DOMAIN broker : broker'[i] = broker[i]
              /\ broker'[Len(broker) + 1].parent = Parent(w).message_id
              /\ broker'[Len(broker) + 1].client_order_id = ClientOrderId(w)
<1> DEFINE o == [client_order_id |-> ClientOrderId(w), placed_at |-> now,
                 parent |-> Parent(w).message_id]
<1>1. pc[w] # "idle" /\ QueueInv /\ now \in Nat
  BY DEF PlaceOrder, At, PipelineInv, QueueInv, TablesOK
<1>2. /\ Trace(w) \in Alerts /\ Parent(w).candidate \in Ids \cup {None}
      /\ Parent(w).message_id = Held(w).message_id /\ Held(w).message_id \in Ids
  BY <1>1, ParentFacts, HeldFacts DEF QueueInv, LeaseSet
<1>3. o \in OrderRows
  BY <1>1, <1>2 DEF OrderRows, ClientOrderId, StableOrderId
<1>4. broker' = Append(broker, o)
  BY DEF PlaceOrder
<1>5. o.parent = Parent(w).message_id /\ o.client_order_id = ClientOrderId(w)
  OBVIOUS
<1> HIDE DEF o
<1>6. broker \in Seq(OrderRows)
  BY DEF LogsOK
<1>7. /\ broker' \in Seq(OrderRows) /\ Len(broker') = Len(broker) + 1
      /\ DOMAIN broker' = DOMAIN broker \cup {Len(broker) + 1}
      /\ Len(broker) + 1 \notin DOMAIN broker
      /\ broker'[Len(broker) + 1] = o /\ \A i \in DOMAIN broker : broker'[i] = broker[i]
  BY <1>3, <1>4, <1>6
<1> QED BY <1>3, <1>4, <1>5, <1>7 DEF o

\* A decision of an approver is recorded.
LEMMA ClickFacts ==
    ASSUME PipelineInv, LogsOK, NEW r \in approvals, NEW status \in {"approved", "rejected"},
           HumanDecides(r, status)
    PROVE  /\ clicks' \in Seq(ClickRows)
           /\ \A id : Clicked(id) => Clicked(id)'
           /\ status = "approved" => LastClick(r.message_id, "approved")'
           /\ \A id : id # r.message_id /\ LastClick(id, "approved") => LastClick(id, "approved")'
           /\ approvals' = (approvals \ {r}) \cup {[r EXCEPT !.status = status]}
           /\ [r EXCEPT !.status = status].status = status
           /\ [r EXCEPT !.status = status].message_id = r.message_id
<1> DEFINE c == [message_id |-> r.message_id, status |-> status]
<1>1. r \in RequestSet
  BY DEF PipelineInv, RequestsOK
<1>2. /\ [r EXCEPT !.status = status].status = status
      /\ [r EXCEPT !.status = status].message_id = r.message_id /\ c \in ClickRows
  BY <1>1 DEF RequestSet, ClickRows
<1>3. clicks' = Append(clicks, c) /\ approvals' = (approvals \ {r}) \cup {[r EXCEPT !.status = status]}
  BY DEF HumanDecides, DecideApproval
<1>4. /\ clicks' \in Seq(ClickRows) /\ DOMAIN clicks' = DOMAIN clicks \cup {Len(clicks) + 1}
      /\ clicks'[Len(clicks) + 1] = c /\ \A i \in DOMAIN clicks : clicks'[i] = clicks[i]
  <2> HIDE DEF c
  <2> QED BY <1>2, <1>3 DEF LogsOK
<1>5. \A id : Clicked(id) => Clicked(id)'
  BY <1>4 DEF Clicked
<1>6. status = "approved" => LastClick(r.message_id, "approved")'
  <2>1. \A d \in DOMAIN clicks' : ~(d > Len(clicks) + 1)
    BY <1>4 DEF LogsOK
  <2> QED BY <1>4, <2>1 DEF LastClick
<1>7. ASSUME NEW id, id # r.message_id, LastClick(id, "approved")
      PROVE  LastClick(id, "approved")'
  <2>1. c.message_id # id
    BY <1>7
  <2> HIDE DEF c
  <2> QED BY <1>4, <1>7, <2>1 DEF LastClick
<1> QED BY <1>2, <1>3, <1>4, <1>5, <1>6, <1>7

-----------------------------------------------------------------------------
(* Each part is kept. *)

LEMMA LogsKept ==
    ASSUME PipelineInv, LogsOK, Goes
    PROVE  LogsOK'
<1>1. ASSUME NEW w \in Workers, WorkerShape(w) PROVE LogsOK'
  <2>1. clicks' = clicks /\ (broker' = broker \/ PlaceOrder(w))
    BY <1>1 DEF WorkerShape, Frame
  <2> QED BY <2>1, PlacedFacts DEF LogsOK
<1>2. CASE Aside /\ UNCHANGED <<approvals, clicks>>
  BY <1>2 DEF Aside, LogsOK
<1>3. ASSUME NEW r \in approvals, NEW status \in {"approved", "rejected"},
             Aside, HumanDecides(r, status)
      PROVE  LogsOK'
  BY <1>3, ClickFacts DEF Aside, LogsOK
<1> QED BY <1>1, <1>2, <1>3 DEF Goes, StepShape

\* A message the ingress handler stores calls for no order.
LEMMA IngestStatus ==
    ASSUME NEW a \in Alerts
    PROVE  /\ IngestMessage(a).status \notin {"pass", "awaiting_approval", "submitted"}
           /\ IngestMessage(a).contract = "IngestedAlert"
<1>1. IngestMessage(a).status = "" /\ IngestMessage(a).contract = "IngestedAlert"
  BY IngestFacts, Zenon
<1> QED BY <1>1, Zenon

\* The calls of _submit_order follow one another.
LEMMA SubmitArrival ==
    ASSUME NEW w \in Workers, Arrival(w), pc'[w] \in SubmitCalls
    PROVE  \/ SubmitUnattended(w) \/ ReadRequest(w)
           \/ pc[w] \in SubmitCalls
BY Guards DEF Arrival, SubmitCalls

LEMMA ModeKept ==
    ASSUME PipelineInv, ModeOK, Goes
    PROVE  ModeOK'
<1>1. QueueInv
  BY DEF PipelineInv
<1>2. ASSUME NEW w \in Workers, WorkerShape(w) PROVE ModeOK'
  <2>1. Frame(w) /\ Arrival(w) /\ Written(w)
    BY <1>2 DEF WorkerShape
  <2>2. ASSUME NEW v \in Workers, pc'[v] \in SubmitCalls PROVE StageOf[v] = OrderStage
    <3>1. CASE v # w
      BY <2>1, <2>2, <3>1 DEF Frame, ModeOK
    <3>2. CASE v = w /\ pc[w] \in SubmitCalls
      BY <3>2 DEF ModeOK
    <3>3. CASE v = w /\ SubmitUnattended(w)
      <4>1. pc[w] = "execute" /\ ApprovalMode # "manual_all"
        BY <3>3 DEF SubmitUnattended, At
      <4>2. StageOf[w] = "execution"
        BY <1>1, <4>1, StageAt DEF CallOf, SubmitCalls
      <4> QED BY <3>3, <4>1, <4>2 DEF OrderStage
    <3>4. CASE v = w /\ ReadRequest(w)
      <4>1. pc[w] = "read_request"
        BY <3>4, Guards
      <4>2. StageOf[w] = "approval"
        BY <1>1, <4>1, StageAt DEF CallOf, SubmitCalls
      <4>3. Parent(w) \in messages /\ NextStageOf(Parent(w)) = "approval"
        BY <1>1, <4>1, <4>2, ParentFacts DEF QueueInv
      <4>4. Parent(w).status = "awaiting_approval"
        BY <1>1, <4>3, NextStageFacts, IngestFacts DEF QueueInv, MessagesOK, FromRun
      <4> QED BY <3>4, <4>2, <4>3, <4>4 DEF ModeOK, OrderStage
    <3> QED BY <2>1, <2>2, <3>1, <3>2, <3>3, <3>4, SubmitArrival
  <2>3. ASSUME NEW v \in Workers, pc'[v] = "await_approval" PROVE ApprovalMode = "manual_all"
    <3>1. CASE v # w
      BY <2>1, <2>3, <3>1 DEF Frame, ModeOK
    <3>2. CASE v = w
      BY <2>1, <2>3, <3>2 DEF Arrival, RequestApproval
    <3> QED BY <3>1, <3>2
  <2>4. ASSUME NEW m \in messages' \ messages, m.status = "awaiting_approval"
        PROVE  ApprovalMode = "manual_all"
    <3>1. AwaitApproval(w)
      BY <2>1, <2>4, NewOutputFields DEF Written, OutputFields
    <3> QED BY <3>1, Guards DEF ModeOK
  <2> QED BY <2>2, <2>3, <2>4 DEF ModeOK
<1>3. CASE Aside
  <2>1. \A m \in messages' \ messages : m.status # "awaiting_approval"
    BY <1>3, IngestStatus DEF Aside
  <2> QED BY <1>3, <2>1 DEF Aside, ModeOK
<1> QED BY <1>2, <1>3 DEF Goes, StepShape

\* What a job of the ordering stages answers to.
LEMMA OrderParent ==
    ASSUME QueueInv, CandidatesOK, NEW m \in messages
    PROVE  /\ NextStageOf(m) = "execution" =>
                m.contract = "AnalysisReport" /\ m.status = "pass" /\ m.candidate = m.message_id
           /\ NextStageOf(m) = "approval" =>
                m.status = "awaiting_approval" /\ m.idempotency_key = ExecutionKey(m.candidate)
<1>1. CASE m = IngestMessage(m.trace_id)
  BY <1>1, IngestFacts DEF QueueInv, MessagesOK
<1>2. CASE StatusOK(m)
  BY <1>2, NextStageFacts DEF CandidatesOK, CandidateOK
<1> QED BY <1>1, <1>2 DEF QueueInv, MessagesOK, FromRun

LEMMA CandidatesKept ==
    ASSUME PipelineInv, CandidatesOK, Goes
    PROVE  CandidatesOK'
<1>1. QueueInv
  BY DEF PipelineInv
<1>2. ASSUME NEW w \in Workers, WorkerShape(w), NEW m \in messages' \ messages
      PROVE  CandidateOK(m)
  <2>1. OutputFields(w, m) /\ OutputOf(w, m)
    BY <1>2, NewOutputFields DEF WorkerShape, Written
  <2>2. CASE AwaitApproval(w) /\ m.status = "awaiting_approval" /\ m.contract = "ExecutionDecision"
    <3>1. pc[w] = "await_approval" /\ m.idempotency_key = ExecutionKey(Parent(w).message_id)
          /\ m.candidate = Parent(w).candidate
      BY <2>1, <2>2, Guards DEF OutputFields
    <3>2. StageOf[w] = "execution"
      BY <1>1, <3>1, StageAt DEF CallOf, SubmitCalls
    <3>3. Parent(w).candidate = Parent(w).message_id
      BY <1>1, <3>1, <3>2, ParentFacts, OrderParent DEF QueueInv
    <3> QED BY <2>2, <3>1, <3>3 DEF CandidateOK
  <2>3. CASE m.status # "awaiting_approval"
    <3>1. m.contract = "AnalysisReport" /\ m.status = "pass" => m.candidate = m.message_id
      BY <2>1 DEF OutputFields, OutputOf
    <3> QED BY <2>3, <3>1 DEF CandidateOK
  <2> QED BY <2>1, <2>2, <2>3 DEF OutputFields
<1>3. ASSUME Aside, NEW m \in messages' \ messages PROVE CandidateOK(m)
  BY <1>3, IngestStatus DEF Aside, CandidateOK
<1> QED BY <1>2, <1>3 DEF Goes, StepShape, CandidatesOK

\* Whatever the step, rows keep what they were queued for.
LEMMA KeptRows ==
    ASSUME QueueInv, QueueStep, now' \in Nat
    PROVE  RowsKept
<1>1. TablesOK /\ LeasesOK
  BY DEF QueueInv
<1>2. CASE Quiet \/ \E a \in Alerts : StoresAlert(a)
  BY <1>1, <1>2, StillTables DEF Quiet, StoresAlert
<1>3. CASE \E a \in Alerts : QueuesAlert(a)
  BY <1>1, <1>3, QueuesSound DEF Sound
<1>4. ASSUME NEW w \in Workers, (\E c : Moves(w, c)) \/ Quits(w) PROVE RowsKept
  BY <1>1, <1>4, StillTables DEF Moves, Quits
<1>5. ASSUME NEW w \in Workers, NEW k \in DOMAIN jobs, Takes(w, k) PROVE RowsKept
  BY <1>1, <1>5, TakesSound DEF Sound
<1>6. ASSUME NEW w \in Workers, Finishes(w) PROVE RowsKept
  BY <1>1, <1>6, FinishesSound DEF Sound
<1>7. ASSUME NEW w \in Workers, NEW d \in Nat, NEW l \in Nat, Retries(w, d, l) PROVE RowsKept
  BY <1>1, <1>7, RetriesSound DEF Sound
<1>8. ASSUME NEW w \in Workers, NEW out, NEW at, Emits(w, out, at) PROVE RowsKept
  BY <1>1, <1>8, EmitsSound DEF Sound
<1> QED BY <1>2, <1>3, <1>4, <1>5, <1>6, <1>7, <1>8 DEF QueueStep

\* Approval requests keep ids of their own.
LEMMA RequestIdsKept ==
    ASSUME PipelineInv, RequestIdsOK, Goes
    PROVE  RequestIdsOK'
<1>1. QueueInv /\ RequestsOK /\ TablesOK /\ LeasesOK /\ DOMAIN pc = Workers /\ QueueStep
  BY DEF PipelineInv, QueueInv, LeasesOK, Goes
<1>2. \A id : Drawn(id) => Drawn(id)'
  <2>1. RowsKept
    BY <1>1, KeptRows DEF Goes
  <2> SUFFICES ASSUME NEW id, Drawn(id) PROVE Drawn(id)'
    OBVIOUS
  <2>2. PICK j \in DOMAIN jobs, n \in Nat : n <= jobs[j].attempt_count /\ id = <<j, n>>
    BY DEF Drawn
  <2>3. jobs[j] \in RowSet
    BY <1>1 DEF TablesOK
  <2>4. jobs[j].attempt_count \in Nat
    BY <2>3 DEF RowSet
  <2>5. j \in DOMAIN jobs' /\ n <= jobs'[j].attempt_count
    BY <2>1, <2>2, <2>4 DEF RowsKept
  <2> QED BY <2>2, <2>5 DEF Drawn
<1>3. ASSUME NEW r \in approvals, NEW status,
             approvals' = (approvals \ {r}) \cup {[r EXCEPT !.status = status]}
      PROVE  /\ \A q \in approvals' : \E p \in approvals : q.message_id = p.message_id
             /\ \A p, q \in approvals' : p.message_id = q.message_id => p = q
  <2> DEFINE s == [r EXCEPT !.status = status]
  <2>1. s.message_id = r.message_id
    BY <1>1 DEF RequestsOK, RequestSet
  <2> HIDE DEF s
  <2> QED BY <1>3, <2>1 DEF RequestIdsOK, s
<1>4. ASSUME NEW v \in Workers, pc[v] # "idle"
      PROVE  Drawn(Run(v)) /\ \A w \in Workers : pc[w] # "idle" /\ v # w => Run(v) # Run(w)
  <2>1. /\ Held(v) \in LeaseSet /\ Held(v).job_id \in DOMAIN jobs
        /\ Held(v).attempt_count = jobs[Held(v).job_id].attempt_count
    BY <1>1, <1>4, HeldFacts
  <2>2. \A w \in Workers : pc[w] # "idle" /\ v # w => Held(v).job_id # Held(w).job_id
    BY <1>1, <1>4, HeldFacts DEF LeasesOK
  <2>3. Held(v).attempt_count \in Nat
    BY <2>1 DEF LeaseSet, PosNat
  <2>4. Drawn(Run(v))
    BY <2>1, <2>3 DEF Drawn, Run
  <2>5. \A w \in Workers : pc[w] # "idle" /\ v # w => Run(v) # Run(w)
    BY <2>2 DEF Run
  <2> QED BY <2>4, <2>5
<1>5. ASSUME NEW v \in Workers, pc[v] = "idle", pc'[v] # "idle", NEW id, Drawn(id)
      PROVE  id # Run(v)'
  <2>1. PICK k \in DOMAIN jobs : Takes(v, k)
    BY <1>1, <1>5 DEF QueueStep, Quiet, StoresAlert, QueuesAlert, Moves, Quits, Takes,
       Finishes, Retries, Emits, LetsGo, BeforeCommit
  <2>2. lease'[v] = <<LeaseOf(k)>>
    BY <1>1, <2>1 DEF Takes, LeasesOK
  <2>3. Run(v)' = <<k, jobs[k].attempt_count + 1>>
    BY <2>2 DEF Run, Held, LeaseOf
  <2>4. jobs[k] \in RowSet
    BY <1>1 DEF TablesOK
  <2>5. jobs[k].attempt_count \in Nat
    BY <2>4 DEF RowSet
  <2>6. PICK j \in DOMAIN jobs, n \in Nat : n <= jobs[j].attempt_count /\ id = <<j, n>>
    BY <1>5 DEF Drawn
  <2> QED BY <2>3, <2>5, <2>6
<1>6. ASSUME NEW v \in Workers, pc'[v] = "execute", pc[v] = "execute" \/ pc[v] = "idle",
             NEW r \in approvals
      PROVE  r.message_id # Run(v)'
  <2>1. CASE pc[v] = "execute"
    BY <1>6, <2>1 DEF RequestIdsOK, Goes, StaysIn
  <2>2. CASE pc[v] = "idle"
    BY <1>5, <1>6, <2>2 DEF RequestIdsOK
  <2> QED BY <1>6, <2>1, <2>2
<1>7. ASSUME NEW w \in Workers, WorkerShape(w), NEW v \in Workers, pc'[v] = "execute"
      PROVE  pc[v] = "execute" \/ pc[v] = "idle"
  BY <1>7 DEF WorkerShape, Frame, Arrival
<1>8. ASSUME \A q \in approvals' : \E p \in approvals : q.message_id = p.message_id,
             \A p, q \in approvals' : p.message_id = q.message_id => p = q,
             \A v \in Workers : pc'[v] = "execute" => pc[v] = "execute" \/ pc[v] = "idle"
      PROVE  RequestIdsOK'
  <2>1. ASSUME NEW v \in Workers, pc'[v] = "execute", NEW q \in approvals'
        PROVE  q.message_id # Run(v)'
    <3>1. PICK p \in approvals : q.message_id = p.message_id
      BY <1>8
    <3> QED BY <1>6, <1>8, <2>1, <3>1
  <2>2. \A q \in approvals' : Drawn(q.message_id)'
    <3> SUFFICES ASSUME NEW q \in approvals' PROVE Drawn(q.message_id)'
      OBVIOUS
    <3>1. PICK p \in approvals : q.message_id = p.message_id
      BY <1>8
    <3> QED BY <1>2, <3>1 DEF RequestIdsOK
  <2> QED BY <1>8, <2>1, <2>2 DEF RequestIdsOK
<1>9. CASE approvals' = approvals
  <2>1. \A v \in Workers : pc'[v] = "execute" => pc[v] = "execute" \/ pc[v] = "idle"
    BY <1>7 DEF Goes, StepShape, Aside
  <2> QED BY <1>8, <1>9, <2>1 DEF RequestIdsOK
<1>10. ASSUME NEW w \in Workers, WorkerShape(w), ExpireRequest(w) PROVE RequestIdsOK'
  <2>1. pc[w] = "expire" /\ DecideApproval(Request(w), "expired")
    BY <1>10 DEF ExpireRequest, At
  <2>2. StageOf[w] = "approval"
    BY <1>1, <2>1, StageAt DEF CallOf, SubmitCalls
  <2>3. Request(w) \in approvals
    BY <1>1, <2>1, <2>2, RequestFacts
  <2> QED BY <1>3, <1>7, <1>8, <1>10, <2>1, <2>3 DEF DecideApproval
<1>11. ASSUME Aside, NEW r \in approvals, NEW status \in {"approved", "rejected"},
              HumanDecides(r, status)
       PROVE  RequestIdsOK'
  <2>1. pc' = pc /\ DecideApproval(r, status)
    BY <1>11 DEF Aside, HumanDecides
  <2> QED BY <1>3, <1>8, <2>1 DEF DecideApproval
<1>12. ASSUME NEW w \in Workers, WorkerShape(w), RequestApproval(w), approvals' # approvals
       PROVE  RequestIdsOK'
  <2> DEFINE n == [message_id |-> Run(w), candidate |-> Parent(w).candidate,
                   status |-> "requested", expires_at |-> now + ApprovalTimeout]
  <2>1. pc[w] = "execute" /\ approvals' = approvals \cup {n} /\ pc'[w] = "await_approval"
    BY <1>1, <1>12 DEF RequestApproval, At, CreateApprovalRequest, Raises, Goto, records
  <2>2. n.message_id = Run(w)
    OBVIOUS
  <2> HIDE DEF n
  <2>3. \A p, q \in approvals' : p.message_id = q.message_id => p = q
    BY <2>1, <2>2 DEF RequestIdsOK
  <2>4. \A q \in approvals' : Drawn(q.message_id)'
    <3>1. \A q \in approvals' : Drawn(q.message_id)
      BY <1>4, <2>1, <2>2 DEF RequestIdsOK
    <3> QED BY <1>2, <3>1
  <2>5. ASSUME NEW v \in Workers, pc'[v] = "execute", NEW q \in approvals'
        PROVE  q.message_id # Run(v)'
    <3>1. v # w /\ pc[v] = "execute"
      BY <1>12, <2>1, <2>5 DEF WorkerShape, Frame
    <3>2. CASE q \in approvals
      BY <1>6, <2>5, <3>1, <3>2
    <3>3. CASE q = n
      <4>1. Run(v)' = Run(v)
        BY <2>5, <3>1 DEF Goes, StaysIn
      <4> QED BY <1>4, <2>1, <2>2, <3>1, <3>3, <4>1
    <3> QED BY <2>1, <3>2, <3>3
  <2> QED BY <2>3, <2>4, <2>5 DEF RequestIdsOK
<1> QED BY <1>9, <1>10, <1>11, <1>12 DEF Goes, StepShape, WorkerShape, Frame

\* A last decision is a decision.
LEMMA LastIsClicked ==
    ASSUME NEW id, LastClick(id, "approved")
    PROVE  Clicked(id)
BY DEF LastClick, Clicked

\* The gate: get_order is reached with a request that was read as approved.
LEMMA ApprovedKept ==
    ASSUME PipelineInv, LogsOK, RequestIdsOK, ApprovedOK, Goes
    PROVE  ApprovedOK'
<1>1. QueueInv /\ RequestsOK
  BY DEF PipelineInv
<1>2. ASSUME NEW w \in Workers, WorkerShape(w) PROVE ApprovedOK'
  <2>1. Frame(w) /\ Arrival(w) /\ clicks' = clicks
    BY <1>2 DEF WorkerShape, Frame
  <2>2. \A id : /\ Clicked(id)' = Clicked(id)
                /\ LastClick(id, "approved") => LastClick(id, "approved")'
    BY <2>1 DEF Clicked, LastClick
  <2>3. ASSUME NEW r \in approvals', r.status = "approved" PROVE LastClick(r.message_id, "approved")
    <3>1. CASE r \in approvals
      BY <2>3, <3>1 DEF ApprovedOK
    <3>2. CASE RequestApproval(w) /\ r \notin approvals
      BY <2>3, <3>2 DEF RequestApproval, CreateApprovalRequest, Raises, records
    <3>3. CASE ExpireRequest(w) /\ r \notin approvals
      <4>1. pc[w] = "expire" /\ DecideApproval(Request(w), "expired")
        BY <3>3 DEF ExpireRequest, At
      <4>2. StageOf[w] = "approval"
        BY <1>1, <4>1, StageAt DEF CallOf, SubmitCalls
      <4>3. Request(w) \in RequestSet
        BY <1>1, <4>1, <4>2, RequestFacts
      <4>4. r = [Request(w) EXCEPT !.status = "expired"]
        BY <2>3, <3>3, <4>1 DEF DecideApproval
      <4>5. r.status = "expired"
        BY <4>3, <4>4 DEF RequestSet
      <4> QED BY <2>3, <4>5
    <3> QED BY <2>1, <2>3, <3>1, <3>2, <3>3 DEF Frame
  <2>4. ASSUME ApprovalMode = "manual_all", NEW v \in Workers, pc'[v] \in {"get_order", "place_order"}
        PROVE  Clicked(Parent(v)'.message_id)
    <3>1. ASSUME pc[v] \in {"get_order", "place_order"} PROVE Clicked(Parent(v)'.message_id)
      BY <2>4, <3>1 DEF ApprovedOK, Goes, StaysIn
    <3>2. CASE v # w
      BY <2>1, <2>4, <3>1, <3>2 DEF Frame
    <3>3. CASE v = w /\ ReadRequest(w) /\ pc'[w] = "get_order"
      <4>1. pc[w] = "read_request" /\ DOMAIN pc = Workers
        BY <1>1, <3>3, Guards DEF QueueInv, LeasesOK
      <4>2. StageOf[w] = "approval"
        BY <1>1, <4>1, StageAt DEF CallOf, SubmitCalls
      <4>3. /\ Request(w) \in approvals /\ Request(w) \in RequestSet
            /\ Request(w).message_id = Parent(w).message_id
        BY <1>1, <4>1, <4>2, RequestFacts
      <4>4. Request(w).status = "approved"
        BY <3>3, <4>1 DEF ReadRequest, GotoWith
      <4>5. StaysIn(w)
        BY <3>3, <4>1 DEF Goes
      <4> QED BY <3>3, <4>3, <4>4, <4>5, LastIsClicked DEF ApprovedOK, StaysIn
    <3>4. CASE v = w /\ SubmitUnattended(w)
      BY <2>4, <3>4 DEF SubmitUnattended
    <3>5. CASE v = w /\ GetBrokerOrder(w)
      BY <3>1, <3>5, Guards
    <3> QED BY <2>1, <2>4, <3>2, <3>3, <3>4, <3>5 DEF Arrival
  <2> QED BY <2>2, <2>3, <2>4 DEF ApprovedOK
<1>3. ASSUME Aside, \A id : Clicked(id) => Clicked(id)',
             \A r \in approvals' : r.status = "approved" => LastClick(r.message_id, "approved")'
      PROVE  ApprovedOK'
  <2>1. ASSUME ApprovalMode = "manual_all", NEW v \in Workers, pc'[v] \in {"get_order", "place_order"}
        PROVE  Clicked(Parent(v).message_id)'
    <3>1. pc[v] \in {"get_order", "place_order"} /\ StaysIn(v)
      BY <1>3, <2>1 DEF Aside, Goes
    <3> QED BY <1>3, <2>1, <3>1 DEF ApprovedOK, StaysIn
  <2> QED BY <1>3, <2>1 DEF ApprovedOK
<1>4. CASE Aside /\ UNCHANGED <<approvals, clicks>>
  BY <1>3, <1>4 DEF ApprovedOK, Clicked, LastClick
<1>5. ASSUME NEW r \in approvals, NEW status \in {"approved", "rejected"},
             Aside, HumanDecides(r, status)
      PROVE  ApprovedOK'
  <2> DEFINE s == [r EXCEPT !.status = status]
  <2>1. /\ \A id : Clicked(id) => Clicked(id)'
        /\ status = "approved" => LastClick(r.message_id, "approved")'
        /\ \A id : id # r.message_id /\ LastClick(id, "approved") => LastClick(id, "approved")'
        /\ approvals' = (approvals \ {r}) \cup {s}
        /\ s.status = status /\ s.message_id = r.message_id
    BY <1>5, ClickFacts
  <2> HIDE DEF s
  <2>2. \A q \in approvals' : q.status = "approved" => LastClick(q.message_id, "approved")'
    BY <2>1 DEF ApprovedOK, RequestIdsOK
  <2> QED BY <1>3, <1>5, <2>1, <2>2
<1> QED BY <1>2, <1>4, <1>5 DEF Goes, StepShape

\* An order that goes out had its click before.
LEMMA NeedsKept ==
    ASSUME PipelineInv, LogsOK, ApprovedOK, OrderNeedsApproval, Goes
    PROVE  OrderNeedsApproval'
<1>1. \A id : Clicked(id) => Clicked(id)'
  <2>1. ASSUME clicks' = clicks PROVE \A id : Clicked(id) => Clicked(id)'
    BY <2>1 DEF Clicked
  <2> QED BY <2>1, ClickFacts DEF Goes, StepShape, WorkerShape, Frame
<1>2. CASE broker' = broker
  BY <1>1, <1>2 DEF OrderNeedsApproval, Clicked
<1>3. ASSUME NEW w \in Workers, PlaceOrder(w) PROVE OrderNeedsApproval'
  <2>1. /\ DOMAIN broker' = DOMAIN broker \cup {Len(broker) + 1}
        /\ broker'[Len(broker) + 1].parent = Parent(w).message_id
        /\ \A i \in DOMAIN broker : broker'[i] = broker[i]
    BY <1>3, PlacedFacts
  <2>2. ApprovalMode = "manual_all" => Clicked(Parent(w).message_id)
    BY <1>3, Guards DEF ApprovedOK
  <2>3. ApprovalMode = "manual_all" => \A i \in DOMAIN broker' : Clicked(broker'[i].parent)
    BY <2>1, <2>2 DEF OrderNeedsApproval, Clicked
  <2> QED BY <1>1, <2>3 DEF OrderNeedsApproval, Clicked
<1> QED BY <1>2, <1>3 DEF Goes, StepShape, WorkerShape, Frame, Aside

\* broker_orders and stage_messages against what the broker has.
LEMMA TrailKept ==
    ASSUME PipelineInv, LogsOK, OrderTrail, TrailOK, Goes
    PROVE  OrderTrail' /\ TrailOK'
<1>1. QueueInv
  BY DEF PipelineInv
<1>2. \A o : Received(o) => Received(o)'
  <2>1. ASSUME broker' = broker PROVE \A o : Received(o) => Received(o)'
    BY <2>1 DEF Received
  <2>2. ASSUME NEW w \in Workers, PlaceOrder(w) PROVE \A o : Received(o) => Received(o)'
    BY <2>2, PlacedFacts DEF Received
  <2> QED BY <2>1, <2>2 DEF Goes, StepShape, WorkerShape, Frame, Aside
<1>3. ASSUME NEW w \in Workers, WorkerShape(w) PROVE OrderTrail' /\ TrailOK'
  <2>1. Frame(w) /\ Arrival(w) /\ Written(w)
    BY <1>3 DEF WorkerShape
  <2>2. orders' = orders \/ (pc[w] = "save_order" /\ orders' = orders \cup {ClientOrderId(w)})
    BY <2>1 DEF Frame, SaveBrokerOrder, At
  <2>3. \A o \in orders' : Received(o)'
    BY <1>2, <2>2 DEF TrailOK, OrderTrail, Received
  <2>4. \A m \in messages' : m.status = "submitted" => StableOrderId(m.trace_id, m.candidate) \in orders'
    <3>1. ASSUME NEW m \in messages' \ messages, m.status = "submitted"
          PROVE  StableOrderId(m.trace_id, m.candidate) \in orders
      <4>1. Submitted(w) /\ m.candidate = Parent(w).candidate /\ m.trace_id = Trace(w)
        BY <2>1, <3>1, NewOutputFields DEF Written, OutputFields, OutputOf
      <4> QED BY <4>1, Guards DEF TrailOK, ClientOrderId
    <3> QED BY <2>2, <3>1 DEF OrderTrail
  <2>5. ASSUME NEW v \in Workers, pc'[v] = "save_order" PROVE Received(ClientOrderId(v))'
    <3>1. CASE v # w
      <4>1. pc[v] = "save_order" /\ StaysIn(v)
        BY <2>1, <2>5, <3>1 DEF Frame, Goes
      <4>2. ClientOrderId(v)' = ClientOrderId(v)
        BY <4>1 DEF StaysIn, ClientOrderId
      <4> QED BY <1>2, <4>1, <4>2 DEF TrailOK
    <3>2. CASE v = w
      <4>1. PlaceOrder(w) /\ pc[w] = "place_order"
        BY <2>1, <2>5, <3>2, Guards DEF Arrival
      <4>2. StaysIn(w)
        BY <2>5, <3>2, <4>1 DEF Goes
      <4>3. ClientOrderId(v)' = ClientOrderId(w)
        BY <3>2, <4>2 DEF StaysIn, ClientOrderId
      <4>4. /\ Len(broker) + 1 \in DOMAIN broker'
            /\ broker'[Len(broker) + 1].client_order_id = ClientOrderId(w)
        BY <4>1, PlacedFacts
      <4> QED BY <4>3, <4>4 DEF Received
    <3> QED BY <3>1, <3>2
  <2>6. ASSUME NEW v \in Workers, pc'[v] = "submitted" PROVE ClientOrderId(v)' \in orders'
    <3>1. pc[v] # "idle" /\ (v = w => GetBrokerOrder(w) \/ SaveBrokerOrder(w))
      BY <2>1, <2>6, Guards DEF Frame, Arrival
    <3>2. StaysIn(v)
      BY <2>6, <3>1 DEF Goes
    <3>3. ClientOrderId(v)' = ClientOrderId(v)
      BY <3>2 DEF StaysIn, ClientOrderId
    <3>4. CASE v # w
      BY <2>1, <2>2, <2>6, <3>3, <3>4 DEF Frame, TrailOK
    <3>5. CASE v = w /\ SaveBrokerOrder(w)
      BY <3>3, <3>5 DEF SaveBrokerOrder
    <3>6. CASE v = w /\ GetBrokerOrder(w)
      <4>1. DOMAIN pc = Workers
        BY <1>1 DEF QueueInv, LeasesOK
      <4>2. ClientOrderId(w) \in orders
        BY <2>6, <3>6, <4>1 DEF GetBrokerOrder, Goto
      <4> QED BY <2>2, <3>3, <3>6, <4>2
    <3> QED BY <3>1, <3>4, <3>5, <3>6
  <2> QED BY <2>3, <2>4, <2>5, <2>6 DEF OrderTrail, TrailOK, Received
<1>4. CASE Aside
  <2>1. /\ pc' = pc /\ orders' = orders
        /\ \A m \in messages' \ messages : m.status # "submitted"
    BY <1>4, IngestStatus DEF Aside
  <2>2. ASSUME NEW v \in Workers, pc[v] # "idle" PROVE ClientOrderId(v)' = ClientOrderId(v)
    BY <2>1, <2>2 DEF Goes, StaysIn, ClientOrderId
  <2>3. OrderTrail'
    BY <1>2, <2>1 DEF OrderTrail, Received
  <2>4. TrailOK'
    BY <1>2, <2>1, <2>2 DEF TrailOK
  <2> QED BY <2>3, <2>4
<1> QED BY <1>3, <1>4 DEF Goes, StepShape

\* A job past place_order goes on to the end of _submit_order or stays where
\* its worker died: it is not leased again.
LEMMA PastKept ==
    ASSUME PipelineInv, Goes, faults' = 0, NEW j \in DOMAIN jobs, Past(j)
    PROVE  /\ faults = 0 /\ j \in DOMAIN jobs' /\ Past(j)'
           /\ jobs'[j].stage = jobs[j].stage /\ jobs'[j].message_id = jobs[j].message_id
<1> DEFINE Same == jobs'[j].stage = jobs[j].stage /\ jobs'[j].message_id = jobs[j].message_id
           Live == jobs'[j].state \in {"running", "succeeded"} /\ Same /\ j \in DOMAIN jobs'
<1>1. QueueInv /\ QueueInv' /\ QueueStep /\ now' \in Nat /\ faults \in Nat
  BY WorkerAssumption DEF PipelineInv, BudgetOK, Goes
<1>2. /\ \/ jobs'[j] = jobs[j]
         \/ \E v \in Workers : pc[v] # "idle" /\ Held(v).job_id = j /\ pc'[v] # pc[v]
      /\ \A v \in Workers : pc'[v] # "idle" /\ Held(v)'.job_id = j =>
                              pc[v] # "idle" /\ Held(v).job_id = j
  BY <1>1, RowShift DEF Past
<1>3. j \in DOMAIN jobs'
  <2>1. DOMAIN jobs \subseteq DOMAIN jobs'
    BY <1>1, KeptRows DEF RowsKept
  <2> QED BY <2>1
<1>4. ASSUME NEW w \in Workers, WorkerShape(w), pc[w] # "idle", Held(w).job_id = j
      PROVE  /\ faults = 0 /\ Live
             /\ pc'[w] # "idle" => pc'[w] \in Placed
  <2>1. pc[w] \in Placed /\ DOMAIN pc = Workers /\ jobs[j].state \in {"running", "succeeded"}
    BY <1>1, <1>4 DEF Past, QueueInv, LeasesOK
  <2>2. faults = 0 /\ ~Fault(w)
    BY <1>1, <1>4 DEF WorkerShape, Frame, Fault
  <2>3. CASE Crash(w)
    BY <1>3, <2>1, <2>2, <2>3 DEF Crash, Leave, tables
  <2>4. CASE SaveBrokerOrder(w)
    BY <1>3, <2>1, <2>2, <2>4 DEF SaveBrokerOrder, Goto, tables, Placed
  <2>5. CASE ListObservations(w) \/ SaveObservation(w)
    BY <1>3, <2>1, <2>2, <2>5 DEF ListObservations, SaveObservation, GotoWith, Leave, tables, Placed
  <2>6. CASE Submitted(w)
    <3>1. Emits(w, SubmittedOut(w), now)
      BY <1>1, <2>6, DecisionEmits
    <3>2. RowsKept /\ Ended(w, {"succeeded"})
      BY <1>1, <3>1, EmitsSound DEF QueueInv, Sound
    <3>3. jobs'[j].state = "succeeded" /\ Same
      BY <1>4, <3>2 DEF Ended, RowsKept
    <3>4. pc'[w] = "list_observations"
      BY <2>1, <2>6 DEF Submitted, Goto
    <3> QED BY <1>3, <2>2, <3>3, <3>4 DEF Placed
  <2> QED BY <1>4, <2>1, <2>2, <2>3, <2>4, <2>5, <2>6 DEF WorkerShape, Departure, Placed
<1>5. CASE \E w \in Workers : WorkerShape(w)
  <2>1. PICK w \in Workers : WorkerShape(w)
    BY <1>5
  <2>2. faults = 0
    BY <1>1, <2>1 DEF WorkerShape, Frame, Fault
  <2>3. \A v \in Workers \ {w} : pc'[v] = pc[v]
    BY <2>1 DEF WorkerShape, Frame
  <2>4. Live
    BY <1>2, <1>3, <1>4, <2>1, <2>3 DEF Past
  <2>5. ASSUME NEW v \in Workers, pc'[v] # "idle", Held(v)'.job_id = j PROVE pc'[v] \in Placed
    <3>1. pc[v] # "idle" /\ Held(v).job_id = j
      BY <1>2, <2>5
    <3> QED BY <1>4, <2>1, <2>3, <2>5, <3>1 DEF Past
  <2> QED BY <2>2, <2>4, <2>5 DEF Past
<1>6. CASE Aside
  <2>1. pc' = pc /\ faults = 0
    BY <1>1, <1>6 DEF Aside
  <2>2. jobs'[j] = jobs[j]
    BY <1>2, <2>1
  <2>3. \A v \in Workers : pc'[v] # "idle" /\ Held(v)'.job_id = j => pc'[v] \in Placed
    BY <1>2, <2>1 DEF Past
  <2> QED BY <1>3, <2>1, <2>2, <2>3 DEF Past
<1> QED BY <1>5, <1>6 DEF Goes, StepShape

\* place_order: the job it belongs to, and that no order of the same client
\* order id went out before while no call has failed.
LEMMA PlaceOnce ==
    ASSUME OrderInv, Goes, NEW w \in Workers, PlaceOrder(w)
    PROVE  /\ faults' = 0 => JobPast(Parent(w).message_id)'
           /\ Parent(w) \in messages /\ NextStageOf(Parent(w)) = OrderStage
           /\ faults = 0 => \A i \in DOMAIN broker : broker[i].client_order_id # ClientOrderId(w)
<1> USE DEF At
<1> DEFINE j == Held(w).job_id
<1>1. /\ QueueInv /\ QueueInv' /\ QueueStep /\ ModeOK /\ CandidatesOK /\ OrdersSpent
      /\ TablesOK /\ LeasesOK /\ MessagesOK /\ HandoffExact /\ faults \in Nat
  BY WorkerAssumption DEF OrderInv, PipelineInv, Goes, QueueInv, BudgetOK
<1>2. pc[w] = "place_order" /\ pc'[w] = "save_order" /\ jobs' = jobs /\ faults' = faults
  BY <1>1 DEF PlaceOrder, Goto, tables, LeasesOK, budget
<1>3. StageOf[w] = OrderStage
  BY <1>1, <1>2 DEF ModeOK, SubmitCalls
<1>4. /\ j \in DOMAIN jobs /\ jobs[j].stage = OrderStage /\ jobs[j].state = "running"
      /\ jobs[j].message_id = Held(w).message_id
  BY <1>1, <1>2, <1>3, HeldFacts DEF StateAt, AfterCommit
<1>5. /\ Parent(w) \in messages /\ Parent(w).message_id = Held(w).message_id
      /\ NextStageOf(Parent(w)) = OrderStage
  BY <1>1, <1>2, <1>3, ParentFacts
<1>6. ASSUME NEW v \in Workers, pc'[v] # "idle", Held(v)'.job_id = j PROVE pc'[v] \in Placed
  <2>1. pc[v] # "idle" /\ Held(v).job_id = j
    BY <1>1, <1>4, <1>6, RowShift
  <2>2. v = w
    BY <1>1, <1>2, <2>1, OtherJobs
  <2> QED BY <1>2, <2>2 DEF Placed
<1>7. (Parent(w).message_id)' = Parent(w).message_id
  BY <1>2 DEF Goes, StaysIn
<1>8. JobPast(Parent(w).message_id)'
  BY <1>2, <1>4, <1>5, <1>6, <1>7 DEF JobPast, Past
<1>9. ASSUME faults = 0, NEW i \in DOMAIN broker, broker[i].client_order_id = ClientOrderId(w)
      PROVE  FALSE
  <2>1. PICK m \in messages :
          /\ m.message_id = broker[i].parent /\ NextStageOf(m) = OrderStage
          /\ broker[i].client_order_id = StableOrderId(m.trace_id, m.candidate)
    BY <1>1, <1>9 DEF OrdersSpent, OrdersFor
  <2>2. m.candidate = Parent(w).candidate
    BY <1>9, <2>1 DEF ClientOrderId, StableOrderId
  <2>3. m = Parent(w)
    <3>1. CASE OrderStage = "execution"
      BY <1>1, <1>5, <2>1, <2>2, <3>1, OrderParent DEF MessagesOK
    <3>2. CASE OrderStage = "approval"
      BY <1>1, <1>5, <2>1, <2>2, <3>2, OrderParent DEF MessagesOK
    <3> QED BY <3>1, <3>2 DEF OrderStage
  <2>4. PICK k \in DOMAIN jobs :
          jobs[k].stage = OrderStage /\ jobs[k].message_id = broker[i].parent /\ Past(k)
    BY <1>1, <1>9 DEF OrdersSpent, JobPast
  <2>5. k = j
    BY <1>1, <1>4, <1>5, <2>1, <2>3, <2>4 DEF TablesOK, Unique
  <2> QED BY <1>2, <2>4, <2>5 DEF Past, Placed
<1> QED BY <1>5, <1>8, <1>9

LEMMA SpentKept ==
    ASSUME OrderInv, Goes
    PROVE  OrdersSpent' /\ AtMostOneSubmission'
<1>1. PipelineInv /\ LogsOK /\ OrdersSpent /\ AtMostOneSubmission /\ faults \in Nat
  BY WorkerAssumption DEF OrderInv, PipelineInv, BudgetOK
<1>2. faults' = 0 => faults = 0
  BY <1>1 DEF Goes, StepShape, WorkerShape, Frame, Fault, Aside
<1>3. ASSUME faults' = 0, NEW id, JobPast(id) PROVE JobPast(id)'
  <2>1. PICK j \in DOMAIN jobs : jobs[j].stage = OrderStage /\ jobs[j].message_id = id /\ Past(j)
    BY <1>3 DEF JobPast
  <2>2. /\ j \in DOMAIN jobs' /\ Past(j)'
        /\ jobs'[j].stage = jobs[j].stage /\ jobs'[j].message_id = jobs[j].message_id
    BY <1>1, <1>3, <2>1, PastKept
  <2> QED BY <2>1, <2>2 DEF JobPast
<1>4. CASE broker' = broker
  <2>1. \A i \in DOMAIN broker' : OrdersFor(i)'
    BY <1>1, <1>4 DEF OrdersSpent, OrdersFor, Goes
  <2>2. faults' = 0 => \A i \in DOMAIN broker' : JobPast(broker[i].parent)'
    BY <1>1, <1>2, <1>3, <1>4 DEF OrdersSpent
  <2>3. OrdersSpent'
    BY <2>1, <2>2 DEF OrdersSpent
  <2> QED BY <1>1, <1>2, <1>4, <2>3 DEF AtMostOneSubmission
<1>5. ASSUME NEW w \in Workers, PlaceOrder(w) PROVE OrdersSpent' /\ AtMostOneSubmission'
  <2>0. PICK n \in Nat : n = Len(broker) + 1
    BY <1>1 DEF LogsOK
  <2>1. /\ DOMAIN broker' = DOMAIN broker \cup {n} /\ n \notin DOMAIN broker
        /\ broker'[n].parent = Parent(w).message_id
        /\ broker'[n].client_order_id = ClientOrderId(w)
        /\ \A i \in DOMAIN broker : broker'[i] = broker[i]
    BY <1>1, <1>5, <2>0, PlacedFacts
  <2>2. /\ faults' = 0 => JobPast(Parent(w).message_id)'
        /\ Parent(w) \in messages /\ NextStageOf(Parent(w)) = OrderStage
        /\ faults = 0 => \A i \in DOMAIN broker : broker[i].client_order_id # ClientOrderId(w)
    BY <1>5, PlaceOnce
  <2>3. OrdersFor(n)'
    BY <2>1, <2>2 DEF OrdersFor, Goes, ClientOrderId, Trace
  <2>4. \A i \in DOMAIN broker : OrdersFor(i)'
    BY <1>1, <2>1 DEF OrdersSpent, OrdersFor, Goes
  <2>5. (Parent(w).message_id)' = Parent(w).message_id
    BY <1>1, <1>5, Guards DEF Goes, StaysIn, PlaceOrder, Goto, PipelineInv, QueueInv, LeasesOK
  <2>6. faults' = 0 => \A i \in DOMAIN broker' : JobPast(broker[i].parent)'
    <3>1. ASSUME faults' = 0, NEW i \in DOMAIN broker PROVE JobPast(broker[i].parent)'
      <4>1. JobPast(broker[i].parent)
        BY <1>1, <1>2, <3>1 DEF OrdersSpent
      <4>2. broker'[i].parent = broker[i].parent
        BY <2>1
      <4> QED BY <1>3, <3>1, <4>1, <4>2
    <3>2. ASSUME faults' = 0 PROVE JobPast(broker[n].parent)'
      BY <2>1, <2>2, <2>5, <3>2
    <3> QED BY <2>1, <3>1, <3>2
  <2>7. OrdersSpent'
    BY <2>1, <2>3, <2>4, <2>6 DEF OrdersSpent
  <2>8. AtMostOneSubmission'
    BY <1>1, <1>2, <2>1, <2>2 DEF AtMostOneSubmission
  <2> QED BY <2>7, <2>8
<1> QED BY <1>4, <1>5 DEF Goes, StepShape, WorkerShape, Frame, Aside

LEMMA OrderInit ==
    ASSUME Init
    PROVE  OrderInv
<1> USE DEF Init, JobInit, RecordInit, WorkerInit, IngressInit
<1>1. PipelineInv
  BY InitInv
<1>2. LogsOK /\ CandidatesOK
  BY DEF LogsOK, CandidatesOK
<1>3. ModeOK /\ RequestIdsOK /\ ApprovedOK /\ TrailOK
  BY DEF ModeOK, RequestIdsOK, ApprovedOK, TrailOK, SubmitCalls
<1>4. OrderNeedsApproval /\ OrderTrail /\ OrdersSpent /\ AtMostOneSubmission
  BY DEF OrderNeedsApproval, OrderTrail, OrdersSpent, AtMostOneSubmission
<1> QED BY <1>1, <1>2, <1>3, <1>4 DEF OrderInv

LEMMA OrderStep ==
    ASSUME OrderInv, [Next]_vars
    PROVE  OrderInv'
<1>1. Goes /\ PipelineInv
  BY Shapes DEF OrderInv
<1>2. LogsOK' /\ ModeOK' /\ CandidatesOK' /\ RequestIdsOK' /\ ApprovedOK'
  BY <1>1, LogsKept, ModeKept, CandidatesKept, RequestIdsKept, ApprovedKept DEF OrderInv
<1>3. OrderNeedsApproval' /\ OrderTrail' /\ TrailOK'
  BY <1>1, NeedsKept, TrailKept DEF OrderInv
<1>4. OrdersSpent' /\ AtMostOneSubmission'
  BY <1>1, SpentKept
<1> QED BY <1>1, <1>2, <1>3, <1>4 DEF OrderInv, Goes

-----------------------------------------------------------------------------
(* The theorems. *)

\* The approval gate, the order trail and the one submission, with what makes
\* them inductive: which stage submits in this mode, what a candidate id says
\* of its message, and where the job of a placed order stands.
THEOREM OrderInvariant == Spec => []OrderInv
<1>1. OrderInv /\ [Next]_vars => OrderInv'
  BY OrderStep
<1>2. Init => OrderInv
  BY OrderInit
<1> QED BY <1>1, <1>2, PTL DEF Spec

\* OrderNeedsApproval: in manual_all mode nothing but an approval of the very
\* request leads from ApprovalWorker.process_next to place_order, however many
\* workers, requests, clicks, retries and crashes there are.
THEOREM NoOrderUnapproved == Spec => []OrderNeedsApproval
<1>1. OrderInv => OrderNeedsApproval
  BY DEF OrderInv
<1> QED BY <1>1, OrderInvariant, PTL

\* LastDecisionCounts: decide_approval overwrites, so a status read as approved
\* is the latest decision on that request, however often it was decided and the
\* job retried.
THEOREM LastDecisionsCount == Spec => LastDecisionCounts
<1> DEFINE A == \A w \in Workers : pc[w] = "read_request" /\ pc'[w] = "get_order" =>
                  LastClick(Parent(w).message_id, "approved")
<1>1. ASSUME OrderInv, [Next]_vars PROVE [A]_vars
  <2> SUFFICES ASSUME NEW w \in Workers, pc[w] = "read_request", pc'[w] = "get_order"
               PROVE  LastClick(Parent(w).message_id, "approved")
    OBVIOUS
  <2>1. Goes /\ QueueInv /\ RequestsOK /\ ApprovedOK /\ DOMAIN pc = Workers
    BY <1>1, Shapes DEF OrderInv, PipelineInv, QueueInv, LeasesOK
  <2>2. ReadRequest(w)
    BY <2>1, Guards DEF Goes, StepShape, Aside, WorkerShape, Frame, Arrival
  <2>3. StageOf[w] = "approval"
    BY <2>1, StageAt DEF CallOf, SubmitCalls
  <2>4. Request(w) \in approvals /\ Request(w).message_id = Parent(w).message_id
    BY <2>1, <2>3, RequestFacts
  <2>5. Request(w).status = "approved"
    BY <2>1, <2>2 DEF ReadRequest, GotoWith
  <2> QED BY <2>1, <2>4, <2>5 DEF ApprovedOK
<1> QED BY <1>1, OrderInvariant, PTL DEF Spec, LastDecisionCounts

\* OrderTrail: what _submit_order leaves in broker_orders and stage_messages
\* is true of the broker, whatever fails in between.
THEOREM OrdersTrue == Spec => []OrderTrail
<1>1. OrderInv => OrderTrail
  BY DEF OrderInv
<1> QED BY <1>1, OrderInvariant, PTL

\* AtMostOneSubmission: crashes alone never send an order twice, in either
\* mode, on SQLite and on Postgres.
THEOREM CrashesResendNothing == Spec => []AtMostOneSubmission
<1>1. OrderInv => AtMostOneSubmission
  BY DEF OrderInv
<1> QED BY <1>1, OrderInvariant, PTL
=============================================================================
