--------------------------- MODULE PipelineProofs ---------------------------
(***************************************************************************)
(* Proofs about Pipeline for any number of alerts, workers, retries,       *)
(* faults, crashes, clicks and horizons: types, exact hand-overs, and      *)
(* requests that every approval job finds.                                 *)
(***************************************************************************)
EXTENDS PipelineQueueProofs, FiniteSetTheorems, WellFoundedInduction, NaturalsInduction

-----------------------------------------------------------------------------
(* The rest of the inductive invariant. *)

RequestSet == [message_id : Ids, candidate : Ids \cup {None}, expires_at : Nat,
               status : {"requested", "approved", "rejected", "expired"}]
ObservationSet == [saved_by : Ids, trace_id : Alerts, horizon : Nat, scheduled_for : Nat,
                   observed : BOOLEAN]

\* The request in the ingress handler.
IngressOK ==
    /\ DOMAIN traces \subseteq Alerts
    /\ \A m \in messages : m.trace_id \in DOMAIN traces
    /\ \/ req = <<>>
       \/ \E a \in Alerts, c \in {"ensure_trace", "upsert_message", "enqueue_job", "respond"} :
            /\ req = <<[alert |-> a, call |-> c]>>
            /\ c # "ensure_trace" => a \in DOMAIN traces
            /\ c = "enqueue_job" => IngestMessage(a) \in messages

\* Requests for approval, and the candidate an approval job's message carries.
RequestFor(id, candidate) ==
    \E r \in approvals : r.message_id = id /\ r.candidate = candidate
RequestsOK ==
    /\ approvals \subseteq RequestSet
    /\ \A m \in messages : m.status = "awaiting_approval" => RequestFor(m.message_id, m.candidate)
    /\ \A w \in Workers : At(w, "await_approval") => RequestFor(Run(w), Parent(w).candidate)

\* Observations and the locals that lead to them.
Blank == ""
HorizonsToDo == [status : {Blank}, todo : SUBSET Horizons, at : Nat]
ObservationsOK ==
    /\ observations \subseteq ObservationSet /\ IsFiniteSet(observations) /\ DOMAIN mem = Workers
    /\ \A w \in Workers :
         /\ At(w, "save_observation") => mem[w] \in HorizonsToDo /\ mem[w].todo # {}
         /\ At(w, "update_observation") => mem[w].todo \subseteq ObservationSet /\ mem[w].todo # {}

BudgetOK == faults \in 0 .. MaxFaults /\ crashes \in 0 .. MaxCrashes

PipelineInv == /\ QueueInv /\ IngressOK /\ RequestsOK
               /\ ObservationsOK /\ BudgetOK
-----------------------------------------------------------------------------
(* What the steps choose: least elements, requests, times. *)

\* A nonempty set of numbers has a least one.
LEMMA LeastElement ==
    ASSUME NEW T \in SUBSET Nat, T # {}
    PROVE  \E x \in T : \A y \in T : x <= y
<1> DEFINE R == {ss \in Nat \X Nat : ss[1] < ss[2]}
<1>1. IsWellFoundedOn(R, Nat)
  BY NatLessThanWellFounded, Zenon DEF OpToRel
<1>2. \E x \in T : \A y \in T : <<y, x>> \notin R
  <2> HIDE DEF R
  <2> QED BY <1>1, WFMin, Zenon
<1>3. PICK x \in T : \A y \in T : <<y, x>> \notin R
  BY <1>2
<1>4. ASSUME NEW y \in T PROVE x <= y
  <2>1. x \in Nat /\ y \in Nat /\ <<y, x>> \notin R
    BY <1>3
  <2>2. ~(y < x)
    BY <2>1
  <2> QED BY <2>1, <2>2
<1> QED BY <1>4

\* min(scheduled_for) of observations that are there.
LEMMA FirstDueFacts ==
    ASSUME NEW rows, rows \subseteq ObservationSet, rows # {}
    PROVE  /\ FirstDue(rows) \in Nat
           /\ \E o \in rows : o.scheduled_for = FirstDue(rows)
<1> DEFINE T == {o.scheduled_for : o \in rows}
<1>1. T \in SUBSET Nat /\ T # {}
  BY DEF ObservationSet
<1>2. PICK t \in T : \A y \in T : t <= y
  BY <1>1, LeastElement
<1>3. \E t1 \in T : \A o \in rows : t1 <= o.scheduled_for
  BY <1>2
<1>4. FirstDue(rows) \in T
  BY <1>3 DEF FirstDue
<1> QED BY <1>1, <1>4

\* The worker that waits, expires or reads finds its request.
LEMMA RequestFacts ==
    ASSUME QueueInv, RequestsOK, NEW w \in Workers, pc[w] # "idle", StageOf[w] = "approval"
    PROVE  /\ Request(w) \in approvals /\ Request(w) \in RequestSet
           /\ Request(w).message_id = Parent(w).message_id
<1>1. Parent(w) \in messages /\ NextStageOf(Parent(w)) = "approval"
  BY ParentFacts DEF QueueInv
<1>2. Parent(w).status = "awaiting_approval"
  <2>1. CASE Parent(w) = IngestMessage(Parent(w).trace_id)
    <3>1. Parent(w).trace_id \in Alerts
      BY <1>1 DEF QueueInv, MessagesOK
    <3>2. NextStageOf(Parent(w)) = "research"
      BY <2>1, <3>1, IngestFacts
    <3> QED BY <1>1, <3>2
  <2>2. CASE StatusOK(Parent(w))
    BY <1>1, <2>2, NextStageFacts
  <2> QED BY <1>1, <2>1, <2>2 DEF QueueInv, MessagesOK, FromRun
<1>3. \E r \in approvals : r.message_id = Parent(w).message_id
  BY <1>1, <1>2 DEF RequestsOK, RequestFor
<1>4. Request(w) \in approvals /\ Request(w).message_id = Parent(w).message_id
  BY <1>3 DEF Request, RequestOf
<1> QED BY <1>4 DEF RequestsOK

-----------------------------------------------------------------------------
(* Every action is one of the kinds of step. *)

\* The call a worker is about to make tells its stage.
LEMMA StageAt ==
    ASSUME QueueInv, NEW w \in Workers, pc[w] # "idle"
    PROVE  CallOf(StageOf[w], pc[w]) /\ StageOf[w] \in Stages
<1>1. CallOf(Held(w).stage, pc[w]) /\ Held(w).stage = StageOf[w]
  BY HeldFacts DEF QueueInv
<1> QED BY <1>1, WorkerAssumption

LEMMA MoveKind ==
    ASSUME QueueInv, NEW w \in Workers, NEW c, pc[w] \notin {"idle", "except"},
           pc' = [pc EXCEPT ![w] = c], UNCHANGED <<jobs, runs, dead_letters, lease, messages>>,
           \A s \in Stages : CallOf(s, pc[w]) => CallOf(s, c),
           c # "except" => (c \in AfterCommit <=> pc[w] \in AfterCommit)
    PROVE  QueueStep
<1>1. Moves(w, c)
  BY StageAt DEF Moves
<1> QED BY <1>1 DEF QueueStep

LEMMA RaisesKind ==
    ASSUME QueueInv, NEW w \in Workers, pc[w] \notin {"idle", "except"},
           pc' = [pc EXCEPT ![w] = "except"],
           UNCHANGED <<jobs, runs, dead_letters, lease, messages>>
    PROVE  QueueStep
<1>1. \A s \in Stages : CallOf(s, "except")
  BY DEF CallOf
<1> QED BY <1>1, MoveKind

\* Calls inside the try block that neither commit nor leave.
LEMMA CallKinds ==
    ASSUME QueueInv, NEW w \in Workers,
           \/ SavePortfolioSnapshot(w) \/ SnapshotExists(w) \/ SnapshotMissing(w)
           \/ RequestApproval(w) \/ SubmitUnattended(w)
           \/ GetBrokerOrder(w) \/ PlaceOrder(w) \/ SaveBrokerOrder(w)
           \/ ReadRequest(w) \/ ExpireRequest(w)
           \/ NotADecision(w) \/ NonePending(w) \/ ReadDue(w) \/ UpdateObservation(w)
           \/ Fault(w)
    PROVE  QueueStep /\ now' = now
<1> USE DEF At, Goto, GotoWith, tables, records
<1>1. CASE SavePortfolioSnapshot(w)
  <2>1. /\ pc[w] = "snapshot" /\ pc' = [pc EXCEPT ![w] = "analysis"]
        /\ UNCHANGED <<jobs, runs, dead_letters, lease, messages, now>>
    BY <1>1 DEF SavePortfolioSnapshot
  <2>2. \A s \in Stages : CallOf(s, "snapshot") => CallOf(s, "analysis")
    BY DEF CallOf, SubmitCalls
  <2> QED BY <2>1, <2>2, MoveKind DEF AfterCommit
<1>2. CASE SnapshotExists(w) \/ SnapshotMissing(w)
  BY <1>2, RaisesKind DEF SnapshotExists, SnapshotMissing, Raises
<1>3. CASE RequestApproval(w)
  <2>1. CASE ReferenceHolds(Run(w))
    <3>1. /\ pc[w] = "execute" /\ pc' = [pc EXCEPT ![w] = "await_approval"]
          /\ UNCHANGED <<jobs, runs, dead_letters, lease, messages, now>>
      BY <1>3, <2>1 DEF RequestApproval
    <3>2. \A s \in Stages : CallOf(s, "execute") => CallOf(s, "await_approval")
      BY DEF CallOf, SubmitCalls
    <3> QED BY <3>1, <3>2, MoveKind DEF AfterCommit
  <2>2. CASE ~ReferenceHolds(Run(w))
    BY <1>3, <2>2, RaisesKind DEF RequestApproval, Raises
  <2> QED BY <2>1, <2>2
<1>4. CASE SubmitUnattended(w)
  <2>1. /\ pc[w] = "execute" /\ pc' = [pc EXCEPT ![w] = "get_order"]
        /\ UNCHANGED <<jobs, runs, dead_letters, lease, messages, now>>
    BY <1>4 DEF SubmitUnattended
  <2>2. \A s \in Stages : CallOf(s, "execute") => CallOf(s, "get_order")
    BY DEF CallOf, SubmitCalls
  <2> QED BY <2>1, <2>2, MoveKind DEF AfterCommit
<1>5. CASE GetBrokerOrder(w) \/ PlaceOrder(w) \/ SaveBrokerOrder(w)
  <2>1. PICK c \in {"submitted", "place_order", "save_order"} :
           /\ pc[w] \in {"get_order", "place_order", "save_order"} /\ pc' = [pc EXCEPT ![w] = c]
           /\ UNCHANGED <<jobs, runs, dead_letters, lease, messages, now>>
    BY <1>5 DEF GetBrokerOrder, PlaceOrder, SaveBrokerOrder
  <2>2. \A s \in Stages : CallOf(s, pc[w]) => CallOf(s, c)
    BY <2>1 DEF CallOf, SubmitCalls
  <2>3. c # "except" /\ c \notin AfterCommit /\ pc[w] \notin AfterCommit \cup {"idle", "except"}
    BY <2>1 DEF AfterCommit
  <2> QED BY <2>1, <2>2, <2>3, MoveKind
<1>6. CASE ReadRequest(w) \/ ExpireRequest(w)
  <2>1. \E c \in {"expire", "wait", "get_order", "close"} :
           /\ pc[w] \in {"read_request", "expire"} /\ pc' = [pc EXCEPT ![w] = c]
           /\ UNCHANGED <<jobs, runs, dead_letters, lease, messages, now>>
    BY <1>6 DEF ReadRequest, ExpireRequest
  <2>2. \A s \in Stages : \A c \in {"read_request", "expire"},
           d \in {"expire", "wait", "get_order", "close"} : CallOf(s, c) => CallOf(s, d)
    BY DEF CallOf, SubmitCalls
  <2> QED BY <2>1, <2>2, MoveKind DEF AfterCommit
<1>7. CASE NotADecision(w) \/ NonePending(w)
  BY <1>7, RaisesKind DEF NotADecision, NonePending, CanObserve, Raises
<1>8. CASE ReadDue(w) \/ UpdateObservation(w)
  <2>1. \E c \in {"update_observation", "report"} :
           /\ pc[w] \in {"observe", "update_observation"} /\ pc' = [pc EXCEPT ![w] = c]
           /\ UNCHANGED <<jobs, runs, dead_letters, lease, messages, now>>
    BY <1>8 DEF ReadDue, UpdateObservation, CanObserve
  <2>2. \A s \in Stages : \A c \in {"observe", "update_observation"},
           d \in {"update_observation", "report"} : CallOf(s, c) => CallOf(s, d)
    BY DEF CallOf, SubmitCalls
  <2> QED BY <2>1, <2>2, MoveKind DEF AfterCommit
<1>9. CASE Fault(w)
  BY <1>9, RaisesKind DEF Fault
<1> QED BY <1>1, <1>2, <1>3, <1>4, <1>5, <1>6, <1>7, <1>8, <1>9

\* Steps that leave process_next without a commit of their own, and the lease.
LEMMA LeaveKinds ==
    ASSUME QueueInv, RequestsOK, ObservationsOK, NEW w \in Workers,
           \/ SaveResearchEvidence(w) \/ SaveAnalysisCandidates(w)
           \/ ListObservations(w) \/ SaveObservation(w) \/ Crash(w)
           \/ Lease(w) \/ Except(w) \/ WaitForApproval(w) \/ WaitForWindow(w)
           \/ NothingToObserve(w)
    PROVE  QueueStep /\ now' = now
<1> USE DEF At, Goto, GotoWith, Leave, tables, records
<1>1. CASE SaveResearchEvidence(w) \/ SaveAnalysisCandidates(w) \/ Crash(w)
  <2>1. Quits(w) /\ now' = now
    BY <1>1 DEF SaveResearchEvidence, SaveAnalysisCandidates, Crash, Quits, LetsGo
  <2> QED BY <2>1 DEF QueueStep
<1>2. CASE ListObservations(w) \/ SaveObservation(w)
  <2>1. /\ pc[w] \in {"list_observations", "save_observation"} /\ now' = now
        /\ UNCHANGED <<jobs, runs, dead_letters, messages>>
        /\ \/ LetsGo(w)
           \/ pc' = [pc EXCEPT ![w] = "save_observation"] /\ UNCHANGED lease
    BY <1>2 DEF ListObservations, SaveObservation, LetsGo
  <2>2. CASE LetsGo(w)
    <3>1. Quits(w)
      BY <2>1, <2>2 DEF Quits
    <3> QED BY <2>1, <3>1 DEF QueueStep
  <2>3. CASE ~LetsGo(w)
    <3>1. \A s \in Stages : CallOf(s, pc[w]) => CallOf(s, "save_observation")
      BY <2>1 DEF CallOf, SubmitCalls
    <3>2. pc[w] \in AfterCommit /\ "save_observation" \in AfterCommit
      BY <2>1 DEF AfterCommit
    <3>3. pc' = [pc EXCEPT ![w] = "save_observation"] /\ UNCHANGED lease
      BY <2>1, <2>3
    <3>4. pc[w] \notin {"idle", "except"}
      BY <2>1
    <3> QED BY <2>1, <3>1, <3>2, <3>3, <3>4, MoveKind
  <2> QED BY <2>2, <2>3
<1>3. CASE Lease(w)
  <2>1. \E j \in DOMAIN jobs : Takes(w, j)
    BY <1>3 DEF Lease, Takes
  <2> QED BY <1>3, <2>1 DEF QueueStep, Lease
<1>4. CASE Except(w)
  <2>1. Retries(w, RetryBackoff, MaxAttempts)
    BY <1>4, WorkerAssumption DEF Except, Retries, LetsGo
  <2> QED BY <1>4, <2>1, WorkerAssumption DEF QueueStep, Except
<1>5. CASE WaitForApproval(w)
  <2> DEFINE left == IF Request(w).expires_at > now THEN Request(w).expires_at - now ELSE 0
  <2>1. pc[w] = "wait" /\ CompleteJobRetry(Held(w), left, WaitAttempts) /\ LetsGo(w)
        /\ messages' = messages /\ now' = now
    BY <1>5 DEF WaitForApproval, LetsGo
  <2>2. StageOf[w] = "approval"
    BY <2>1, StageAt DEF CallOf, SubmitCalls
  <2>3. Request(w).expires_at \in Nat /\ now \in Nat
    BY <2>1, <2>2, RequestFacts DEF RequestSet, QueueInv, TablesOK
  <2>4. left \in Nat
    BY <2>3
  <2> HIDE DEF left
  <2>5. Retries(w, left, WaitAttempts)
    BY <2>1, <2>4, WorkerAssumption DEF Retries
  <2> QED BY <2>1, <2>4, <2>5, WorkerAssumption DEF QueueStep
<1>6. CASE WaitForWindow(w)
  <2> DEFINE rows == Pending(Trace(w))
             delay == FirstDue(rows) - now
  <2>1. /\ pc[w] = "observe" /\ rows # {} /\ DueNow(Trace(w)) = {}
        /\ CompleteJobRetry(Held(w), delay, WaitAttempts) /\ LetsGo(w)
        /\ messages' = messages /\ now' = now
    BY <1>6 DEF WaitForWindow, CanObserve, LetsGo
  <2>2. rows \subseteq ObservationSet /\ now \in Nat
    BY DEF ObservationsOK, Pending, ObservationsOf, QueueInv, TablesOK
  <2>3. FirstDue(rows) \in Nat
    BY <2>1, <2>2, FirstDueFacts
  <2>4. PICK o \in rows : o.scheduled_for = FirstDue(rows)
    BY <2>1, <2>2, FirstDueFacts
  <2>5. ~(o.scheduled_for <= now)
    BY <2>1, <2>4 DEF DueNow
  <2>6. delay \in Nat
    BY <2>2, <2>3, <2>4, <2>5
  <2> HIDE DEF delay
  <2>7. Retries(w, delay, WaitAttempts)
    BY <2>1, <2>6, WorkerAssumption DEF Retries
  <2> QED BY <2>1, <2>6, <2>7, WorkerAssumption DEF QueueStep
<1>7. CASE NothingToObserve(w)
  <2>1. Finishes(w) /\ now' = now
    BY <1>7 DEF NothingToObserve, Finishes, BeforeCommit, LetsGo, AfterCommit
  <2> QED BY <2>1 DEF QueueStep
<1> QED BY <1>1, <1>2, <1>3, <1>4, <1>5, <1>6, <1>7

\* The outputs, named for the step that commits them.
ResearchOut(w, v) ==
    Message(Run(w), Trace(w), "research", Parent(w).message_id,
            ResearchKey(Parent(w).message_id), "ResearchReport", v, None, 0)
DecisionOut(w, status, candidate) ==
    Decision(w, "execution", ExecutionKey(Parent(w).message_id), status, candidate)
SubmittedOut(w) ==
    Decision(w, Held(w).stage, ExecutionKey(Parent(w).message_id), "submitted", Parent(w).candidate)
CloseOut(w, outcome) ==
    Decision(w, "approval", ApprovalKey(Parent(w).message_id, mem[w].status), outcome,
             Parent(w).candidate)
OutcomeOut(w) ==
    Message(Run(w), Trace(w), "outcome", Parent(w).message_id,
            OutcomeKey(Trace(w), Cardinality(Pending(Trace(w)))), "OutcomeReport", "", None, 0)

LEMMA EmitKind ==
    ASSUME QueueInv, NEW w \in Workers, BeforeCommit(w), NEW out, NEW at \in Nat, NEW status,
           OutputOf(w, out), CompleteWithOutput(Held(w), out, NextStageOf(out), at, status),
           \/ LetsGo(w)
           \/ /\ \E c \in AfterCommit : CallOf(StageOf[w], c) /\ pc' = [pc EXCEPT ![w] = c]
              /\ UNCHANGED lease
    PROVE  Emits(w, out, at)
BY DEF Emits, CompleteWithOutput

\* The parent is typed, and so is what a run makes of it.
LEMMA OutputFacts ==
    ASSUME QueueInv, NEW w \in Workers, pc[w] # "idle"
    PROVE  /\ now \in Nat /\ Parent(w).candidate \in Ids \cup {None} /\ Run(w) \in Ids
           /\ StageOf[w] \in Stages /\ Held(w).stage = StageOf[w]
BY ParentFacts, RunFacts, HeldFacts, WorkerAssumption DEF QueueInv, TablesOK

LEMMA AnalyzeEmits ==
    ASSUME QueueInv, NEW w \in Workers, Analyze(w)
    PROVE  /\ now' = now /\ pc[w] = "analyze"
           /\ \E v \in ResearchVerdicts : Emits(w, ResearchOut(w, v), now)
<1>1. PICK v \in ResearchVerdicts :
        CompleteWithOutput(Held(w), ResearchOut(w, v),
                           IF v = "pass" THEN "analysis" ELSE NoStage, now, v)
  BY DEF Analyze, ResearchOut
<1>2. /\ pc[w] = "analyze" /\ pc' = [pc EXCEPT ![w] = "save_evidence"] /\ lease' = lease
      /\ now' = now
  BY DEF Analyze, At, Goto
<1> DEFINE out == ResearchOut(w, v)
<1>3. /\ out.message_id = Run(w) /\ out.trace_id = Trace(w) /\ out.parent = Parent(w).message_id
      /\ out.expiry_at = 0 /\ out.candidate = None /\ out.contract = "ResearchReport"
      /\ out.status = v
  BY DEF ResearchOut, Message
<1>4. StatusOK(out) /\ v \in {"pass", "defer"}
  BY <1>3 DEF StatusOK, ResearchVerdicts
<1>5. NextStageOf(out) = IF v = "pass" THEN "analysis" ELSE NoStage
  BY <1>3, <1>4 DEF NextStageOf
<1>6. OutputOf(w, out) /\ BeforeCommit(w) /\ now \in Nat
  BY <1>2, <1>3, <1>4, OutputFacts DEF OutputOf, BeforeCommit, AfterCommit
<1>7. CallOf(StageOf[w], "save_evidence") /\ "save_evidence" \in AfterCommit
  BY <1>2, StageAt DEF CallOf, SubmitCalls, AfterCommit
<1> HIDE DEF out
<1>8. Emits(w, out, now)
  BY <1>1, <1>2, <1>5, <1>6, <1>7, EmitKind DEF out
<1> QED BY <1>2, <1>8 DEF out

LEMMA AnalysisEmits ==
    ASSUME QueueInv, NEW w \in Workers, Analysis(w)
    PROVE  /\ now' = now /\ pc[w] = "analysis"
           /\ \E status \in {"pass", "reject"} : Emits(w, AnalysisOutput(w, status), now)
<1>1. PICK v \in {"pass", "reject"} :
        CompleteWithOutput(Held(w), AnalysisOutput(w, v),
                           IF v = "pass" THEN "execution" ELSE NoStage, now, v)
  BY DEF Analysis
<1>2. /\ pc[w] = "analysis" /\ pc' = [pc EXCEPT ![w] = "save_candidates"] /\ lease' = lease
      /\ now' = now
  BY DEF Analysis, At, Goto
<1> DEFINE out == AnalysisOutput(w, v)
<1>3. /\ out.message_id = Run(w) /\ out.trace_id = Trace(w) /\ out.parent = Parent(w).message_id
      /\ out.expiry_at = now + CandidateTTL /\ out.candidate \in {Run(w), None}
      /\ out.contract = "AnalysisReport" /\ out.status = v
  BY DEF AnalysisOutput, Message
<1>4. StatusOK(out)
  BY <1>3 DEF StatusOK
<1>5. NextStageOf(out) = IF v = "pass" THEN "execution" ELSE NoStage
  BY <1>3 DEF NextStageOf
<1>6. OutputOf(w, out) /\ BeforeCommit(w) /\ now \in Nat
  <2>1. now \in Nat /\ Run(w) \in Ids /\ pc[w] # "idle"
    BY <1>2, OutputFacts
  <2>2. out.expiry_at \in Nat
    BY <1>3, <2>1, AnalystAssumption
  <2> QED BY <1>2, <1>3, <1>4, <2>1, <2>2 DEF OutputOf, BeforeCommit, AfterCommit
<1>7. CallOf(StageOf[w], "save_candidates") /\ "save_candidates" \in AfterCommit
  BY <1>2, StageAt DEF CallOf, SubmitCalls, AfterCommit
<1> HIDE DEF out
<1>8. Emits(w, out, now)
  BY <1>1, <1>2, <1>5, <1>6, <1>7, EmitKind DEF out
<1> QED BY <1>2, <1>8 DEF out

\* A decision, whatever stage and key it is stored under.
LEMMA DecisionFacts ==
    ASSUME QueueInv, NEW w \in Workers, pc[w] # "idle", NEW stage, NEW key, NEW candidate,
           candidate \in Ids \cup {None},
           NEW status \in {"rejected_risk", "awaiting_approval", "submitted", "expired", "cancelled"}
    PROVE  LET out == Decision(w, stage, key, status, candidate) IN
           /\ OutputOf(w, out)
           /\ NextStageOf(out) = CASE status = "awaiting_approval" -> "approval"
                                   [] status = "submitted" -> "outcome"
                                   [] OTHER -> NoStage
           /\ out.contract = "ExecutionDecision" /\ out.status = status
           /\ out.candidate = candidate /\ out.idempotency_key = key
<1> DEFINE out == Decision(w, stage, key, status, candidate)
<1>1. /\ out.message_id = Run(w) /\ out.trace_id = Trace(w) /\ out.parent = Parent(w).message_id
      /\ out.expiry_at = 0 /\ out.candidate = candidate /\ out.contract = "ExecutionDecision"
      /\ out.status = status /\ out.idempotency_key = key
  BY DEF Decision, Message
<1> HIDE DEF out
<1>2. StatusOK(out)
  BY <1>1 DEF StatusOK
<1>3. NextStageOf(out) = CASE status = "awaiting_approval" -> "approval"
                           [] status = "submitted" -> "outcome"
                           [] OTHER -> NoStage
  BY <1>1 DEF NextStageOf
<1>4. OutputOf(w, out)
  BY <1>1, <1>2 DEF OutputOf
<1> QED BY <1>1, <1>3, <1>4 DEF out

LEMMA DecisionEmits ==
    ASSUME QueueInv, NEW w \in Workers
    PROVE  /\ RejectRisk(w) => Emits(w, DecisionOut(w, "rejected_risk", None), now)
           /\ AwaitApproval(w) =>
                Emits(w, DecisionOut(w, "awaiting_approval", Parent(w).candidate), now)
           /\ Submitted(w) => Emits(w, SubmittedOut(w), now)
           /\ CloseApproval(w) =>
                \E outcome \in {"expired", "cancelled"} : Emits(w, CloseOut(w, outcome), now)
<1>1. ASSUME RejectRisk(w) PROVE Emits(w, DecisionOut(w, "rejected_risk", None), now)
  <2> DEFINE out == DecisionOut(w, "rejected_risk", None)
  <2>1. /\ pc[w] = "execute" /\ LetsGo(w)
        /\ CompleteWithOutput(Held(w), out, NoStage, now, "rejected_risk")
    BY <1>1 DEF RejectRisk, At, Leave, LetsGo, DecisionOut
  <2>2. OutputOf(w, out) /\ NextStageOf(out) = NoStage
    BY <2>1, DecisionFacts DEF DecisionOut
  <2>3. BeforeCommit(w) /\ now \in Nat
    BY <2>1, OutputFacts DEF BeforeCommit, AfterCommit
  <2> HIDE DEF out
  <2>4. Emits(w, out, now)
    BY <2>1, <2>2, <2>3, EmitKind
  <2> QED BY <2>4 DEF out
<1>2. ASSUME AwaitApproval(w)
      PROVE  Emits(w, DecisionOut(w, "awaiting_approval", Parent(w).candidate), now)
  <2> DEFINE out == DecisionOut(w, "awaiting_approval", Parent(w).candidate)
  <2>1. /\ pc[w] = "await_approval" /\ LetsGo(w)
        /\ CompleteWithOutput(Held(w), out, "approval", now, "awaiting_approval")
    BY <1>2 DEF AwaitApproval, At, Leave, LetsGo, DecisionOut
  <2>2. OutputOf(w, out) /\ NextStageOf(out) = "approval"
    BY <2>1, DecisionFacts, OutputFacts DEF DecisionOut
  <2>3. BeforeCommit(w) /\ now \in Nat
    BY <2>1, OutputFacts DEF BeforeCommit, AfterCommit
  <2> HIDE DEF out
  <2>4. Emits(w, out, now)
    BY <2>1, <2>2, <2>3, EmitKind
  <2> QED BY <2>4 DEF out
<1>3. ASSUME Submitted(w) PROVE Emits(w, SubmittedOut(w), now)
  <2> DEFINE out == SubmittedOut(w)
  <2>1. /\ pc[w] = "submitted" /\ pc' = [pc EXCEPT ![w] = "list_observations"] /\ lease' = lease
        /\ CompleteWithOutput(Held(w), out, "outcome", now, "submitted")
    BY <1>3 DEF Submitted, At, Goto, SubmittedOut
  <2>2. OutputOf(w, out) /\ NextStageOf(out) = "outcome"
    BY <2>1, DecisionFacts, OutputFacts DEF SubmittedOut
  <2>3. BeforeCommit(w) /\ now \in Nat
    BY <2>1, OutputFacts DEF BeforeCommit, AfterCommit
  <2>4. CallOf(StageOf[w], "list_observations") /\ "list_observations" \in AfterCommit
    BY <2>1, StageAt DEF CallOf, SubmitCalls, AfterCommit
  <2> HIDE DEF out
  <2>5. Emits(w, out, now)
    BY <2>1, <2>2, <2>3, <2>4, EmitKind
  <2> QED BY <2>5 DEF out
<1>4. ASSUME CloseApproval(w)
      PROVE  \E outcome \in {"expired", "cancelled"} : Emits(w, CloseOut(w, outcome), now)
  <2> DEFINE outcome == IF mem[w].status = "expired" THEN "expired" ELSE "cancelled"
             out == CloseOut(w, outcome)
  <2>1. /\ pc[w] = "close" /\ LetsGo(w)
        /\ CompleteWithOutput(Held(w), out, NoStage, now, outcome)
    BY <1>4 DEF CloseApproval, At, Leave, LetsGo, CloseOut
  <2>2. outcome \in {"expired", "cancelled"}
    OBVIOUS
  <2> HIDE DEF outcome
  <2>3. OutputOf(w, out) /\ NextStageOf(out) = NoStage
    BY <2>1, <2>2, DecisionFacts, OutputFacts DEF CloseOut
  <2>4. BeforeCommit(w) /\ now \in Nat
    BY <2>1, OutputFacts DEF BeforeCommit, AfterCommit
  <2> HIDE DEF out
  <2>5. Emits(w, out, now)
    BY <2>1, <2>3, <2>4, EmitKind
  <2> QED BY <2>2, <2>5 DEF out
<1> QED BY <1>1, <1>2, <1>3, <1>4

LEMMA OutcomeEmits ==
    ASSUME QueueInv, ObservationsOK, NEW w \in Workers, ReportOutcome(w)
    PROVE  /\ pc[w] = "report" /\ now' = now
           /\ \E at : Emits(w, OutcomeOut(w), at)
<1> DEFINE rows == Pending(Trace(w))
           out == OutcomeOut(w)
           at == IF rows = {} THEN now ELSE FirstDue(rows)
           status == IF rows = {} THEN "outcome_complete" ELSE "outcome_pending"
           next == IF rows = {} THEN NoStage ELSE "outcome"
<1>1. pc[w] = "report" /\ now' = now /\ LetsGo(w)
  BY DEF ReportOutcome, At, Leave, LetsGo
<1>2. CompleteWithOutput(Held(w), out, next, at, status)
  BY DEF ReportOutcome, OutcomeOut
<1>3. rows \subseteq observations
  BY DEF Pending, ObservationsOf
<1>4. IsFiniteSet(rows) /\ rows \subseteq ObservationSet
  BY <1>3, FS_Subset DEF ObservationsOK
<1>5. (Cardinality(rows) > 0) <=> rows # {}
  BY <1>4, FS_EmptySet, FS_CardinalityType
<1>6. at \in Nat
  BY <1>1, <1>4, OutputFacts, FirstDueFacts
<1>7. /\ out.message_id = Run(w) /\ out.trace_id = Trace(w) /\ out.parent = Parent(w).message_id
      /\ out.expiry_at = 0 /\ out.candidate = None /\ out.contract = "OutcomeReport"
      /\ out.status = ""
  BY DEF OutcomeOut, Message
<1>a. out.idempotency_key[3] = Cardinality(rows)
  BY DEF OutcomeOut, Message, OutcomeKey
<1>8. StatusOK(out)
  BY <1>7 DEF StatusOK
<1>9. NextStageOf(out) = next
  <2>1. (out.idempotency_key[3] > 0) <=> rows # {}
    BY <1>5, <1>a
  <2>2. /\ out.contract # "ResearchReport" /\ out.contract # "AnalysisReport"
        /\ out.contract # "IngestedAlert" /\ out.contract = "OutcomeReport"
        /\ out.status # "awaiting_approval" /\ out.status # "submitted"
    BY <1>7
  <2> HIDE DEF out, rows
  <2> QED BY <2>1, <2>2 DEF NextStageOf
<1>10. OutputOf(w, out) /\ BeforeCommit(w)
  <2> HIDE DEF out
  <2>0. out.expiry_at = 0
    BY <1>7, Zenon
  <2>1. out.expiry_at \in Nat
    BY <2>0
  <2>2. out.candidate \in Ids \cup {None}
    BY <1>7, Zenon
  <2> QED BY <1>1, <1>7, <1>8, <2>1, <2>2 DEF OutputOf, BeforeCommit, AfterCommit
<1> HIDE DEF out, at, next, status
<1>11. Emits(w, out, at)
  BY <1>1, <1>2, <1>6, <1>9, <1>10, EmitKind
<1> QED BY <1>1, <1>11 DEF out

\* A step of a worker, by what it is to the queue.
LEMMA WorkerKinds ==
    ASSUME PipelineInv, NEW w \in Workers, WorkerStep(w) \/ Fault(w) \/ Crash(w)
    PROVE  QueueStep /\ now' = now
<1>1. QueueInv /\ RequestsOK /\ ObservationsOK
  BY DEF PipelineInv
<1>2. CASE \/ SavePortfolioSnapshot(w) \/ SnapshotExists(w) \/ SnapshotMissing(w)
           \/ RequestApproval(w) \/ SubmitUnattended(w)
           \/ GetBrokerOrder(w) \/ PlaceOrder(w) \/ SaveBrokerOrder(w)
           \/ ReadRequest(w) \/ ExpireRequest(w)
           \/ NotADecision(w) \/ NonePending(w) \/ ReadDue(w) \/ UpdateObservation(w)
           \/ Fault(w)
  BY <1>1, <1>2, CallKinds
<1>3. CASE \/ SaveResearchEvidence(w) \/ SaveAnalysisCandidates(w)
           \/ ListObservations(w) \/ SaveObservation(w) \/ Crash(w)
           \/ Lease(w) \/ Except(w) \/ WaitForApproval(w) \/ WaitForWindow(w)
           \/ NothingToObserve(w)
  BY <1>1, <1>3, LeaveKinds
<1>4. CASE Analyze(w)
  BY <1>1, <1>4, AnalyzeEmits DEF QueueStep
<1>5. CASE Analysis(w)
  BY <1>1, <1>5, AnalysisEmits DEF QueueStep
<1>6. CASE RejectRisk(w) \/ AwaitApproval(w) \/ Submitted(w) \/ CloseApproval(w)
  <2>1. now' = now
    BY <1>6 DEF RejectRisk, AwaitApproval, Submitted, CloseApproval
  <2>2. \E out : Emits(w, out, now)
    BY <1>1, <1>6, DecisionEmits
  <2> QED BY <2>1, <2>2 DEF QueueStep
<1>7. CASE ReportOutcome(w)
  BY <1>1, <1>7, OutcomeEmits DEF QueueStep
<1> QED BY <1>2, <1>3, <1>4, <1>5, <1>6, <1>7
        DEF WorkerStep, StageStep, ResearcherStep, AnalystStep, ExecutorStep, SubmitStep,
            ApprovalStep, OutcomeStep

\* A step of the ingress handler, of an approver or of the clock.
LEMMA OtherKinds ==
    ASSUME PipelineInv,
           \/ IngressNext \/ Tick
           \/ \E r \in approvals, status \in {"approved", "rejected"} : HumanDecides(r, status)
           \/ UNCHANGED vars
    PROVE  QueueStep /\ now' \in Nat /\ (now' = now \/ Tick)
<1> USE DEF tables, records, ingressRest
<1>1. QueueInv /\ IngressOK /\ now \in Nat
  BY DEF PipelineInv, QueueInv, TablesOK
<1>2. CASE \/ \E a \in Alerts : Post(a)
           \/ HandleEnsureTrace \/ Respond202 \/ IngressFault \/ Tick
           \/ \E r \in approvals, status \in {"approved", "rejected"} : HumanDecides(r, status)
           \/ UNCHANGED vars
  <2>1. Quiet /\ now' \in Nat /\ (now' = now \/ Tick)
    <3>1. CASE \/ \E a \in Alerts : Post(a)
               \/ HandleEnsureTrace \/ Respond202 \/ IngressFault
      BY <1>1, <3>1 DEF Quiet, Post, HandleEnsureTrace, Respond202, IngressFault
    <3>2. CASE Tick
      BY <1>1, <3>2 DEF Quiet, Tick
    <3>3. CASE \E r \in approvals, status \in {"approved", "rejected"} : HumanDecides(r, status)
      BY <1>1, <3>3 DEF Quiet, HumanDecides
    <3>4. CASE UNCHANGED vars
      BY <1>1, <3>4 DEF Quiet, vars
    <3> QED BY <1>2, <3>1, <3>2, <3>3, <3>4
  <2> QED BY <2>1 DEF QueueStep
<1>3. CASE HandleUpsertMessage \/ HandleEnqueueJob
  <2>1. PICK a \in Alerts, c \in {"ensure_trace", "upsert_message", "enqueue_job", "respond"} :
            /\ req = <<[alert |-> a, call |-> c]>>
            /\ c # "ensure_trace" => a \in DOMAIN traces
            /\ c = "enqueue_job" => IngestMessage(a) \in messages
    BY <1>1, <1>3 DEF IngressOK, HandleUpsertMessage, HandleEnqueueJob, InCall
  <2>2. req[1].alert = a /\ req[1].call = c
    BY <2>1
  <2>3. CASE HandleUpsertMessage
    <3>1. StoresAlert(a) /\ now' = now
      BY <2>2, <2>3 DEF HandleUpsertMessage, StoresAlert
    <3> QED BY <1>1, <3>1 DEF QueueStep
  <2>4. CASE HandleEnqueueJob
    <3>1. IngestMessage(a) \in messages
      BY <2>1, <2>2, <2>4 DEF HandleEnqueueJob, InCall
    <3>2. QueuesAlert(a) /\ now' = now
      BY <2>2, <2>4, <3>1 DEF HandleEnqueueJob, QueuesAlert
    <3> QED BY <1>1, <3>2 DEF QueueStep
  <2> QED BY <1>3, <2>3, <2>4
<1> QED BY <1>2, <1>3 DEF IngressNext, IngressHandler

LEMMA NextKinds ==
    ASSUME PipelineInv, [Next]_vars
    PROVE  QueueStep /\ now' \in Nat /\ QueueInv'
<1>1. QueueInv /\ now \in Nat
  BY DEF PipelineInv, QueueInv, TablesOK
<1>2. QueueStep /\ now' \in Nat
  BY <1>1, WorkerKinds, OtherKinds DEF Next
<1> QED BY <1>1, <1>2, QueueStepInv

\* Rows of stage_messages are not removed, and a worker that goes on goes on
\* with the lease and the parent it has.
StaysIn(w) == /\ Held(w)' = Held(w) /\ Run(w)' = Run(w) /\ Parent(w)' = Parent(w)
              /\ Trace(w)' = Trace(w)
LEMMA LeaseStays ==
    ASSUME QueueInv, QueueStep, QueueInv'
    PROVE  /\ messages \subseteq messages'
           /\ \A w \in Workers : pc[w] # "idle" /\ pc'[w] # "idle" => StaysIn(w)
<1>1. DOMAIN lease = Workers /\ DOMAIN pc = Workers
  BY DEF QueueInv, LeasesOK
<1>2. messages \subseteq messages'
  BY DEF QueueStep, Quiet, StoresAlert, QueuesAlert, Moves, Quits, Takes, Finishes, Retries,
         Emits, UpsertMessage
<1>3. ASSUME NEW w \in Workers, pc[w] # "idle", pc'[w] # "idle"
      PROVE  lease'[w] = lease[w]
  BY <1>1, <1>3 DEF QueueStep, Quiet, StoresAlert, QueuesAlert, Moves, Quits, Takes, Finishes,
         Retries, Emits, LetsGo
<1>4. ASSUME NEW w \in Workers, pc[w] # "idle", pc'[w] # "idle"
      PROVE  StaysIn(w)
  <2>1. Held(w)' = Held(w) /\ Run(w)' = Run(w)
    BY <1>3, <1>4 DEF Held, Run
  <2>2. Parent(w) \in messages /\ Parent(w).message_id = Held(w).message_id
    BY <1>4, ParentFacts DEF QueueInv
  <2>3. Parent(w)' = CHOOSE m \in messages' : m.message_id = Held(w).message_id
    BY <2>1 DEF Parent, MessageOf
  <2>4. Parent(w)' \in messages' /\ Parent(w)'.message_id = Held(w).message_id
    BY <1>2, <2>2, <2>3
  <2>5. Parent(w)' = Parent(w)
    BY <1>2, <2>2, <2>4 DEF QueueInv, MessagesOK
  <2> QED BY <2>1, <2>5 DEF StaysIn, Trace
<1> QED BY <1>2, <1>4

-----------------------------------------------------------------------------
(* Which step of a worker writes what, and which one leads to a call. *)

Frame(w) ==
    /\ UNCHANGED <<req, sends, accepted, clicks>> /\ DOMAIN traces' = DOMAIN traces
    /\ DOMAIN mem' = DOMAIN mem
    /\ \A v \in Workers \ {w} : pc'[v] = pc[v] /\ mem'[v] = mem[v] /\ lease'[v] = lease[v]
    /\ approvals' = approvals \/ RequestApproval(w) \/ ExpireRequest(w)
    /\ observations' = observations \/ SaveObservation(w) \/ UpdateObservation(w)
    /\ broker' = broker \/ PlaceOrder(w)
    /\ orders' = orders \/ SaveBrokerOrder(w)
    /\ snapshots' = snapshots \/ SavePortfolioSnapshot(w)
    /\ evidence' = evidence \/ SaveResearchEvidence(w)
    /\ candidates' = candidates \/ SaveAnalysisCandidates(w)
    /\ faults' = faults \/ Fault(w)
    /\ crashes' = crashes \/ Crash(w)

Arrival(w) ==
    /\ pc'[w] = "save_evidence" => Analyze(w)
    /\ pc'[w] = "analysis" => SavePortfolioSnapshot(w)
    /\ pc'[w] = "save_candidates" => Analysis(w)
    /\ pc'[w] = "execute" => pc[w] = "idle"
    /\ pc'[w] = "await_approval" => RequestApproval(w)
    /\ pc'[w] = "get_order" => SubmitUnattended(w) \/ ReadRequest(w)
    /\ pc'[w] = "place_order" => GetBrokerOrder(w)
    /\ pc'[w] = "save_order" => PlaceOrder(w)
    /\ pc'[w] = "submitted" => GetBrokerOrder(w) \/ SaveBrokerOrder(w)
    /\ pc'[w] = "list_observations" => Submitted(w)
    /\ pc'[w] = "save_observation" => ListObservations(w) \/ SaveObservation(w)
    /\ pc'[w] = "update_observation" => ReadDue(w) \/ UpdateObservation(w)

\* An output that was not stored before, by the step that stores it.
NewOutput(w, m) ==
    \/ Analyze(w) /\ \E v \in ResearchVerdicts : m = ResearchOut(w, v)
    \/ Analysis(w) /\ \E v \in {"pass", "reject"} : m = AnalysisOutput(w, v)
    \/ RejectRisk(w) /\ m = DecisionOut(w, "rejected_risk", None)
    \/ AwaitApproval(w) /\ m = DecisionOut(w, "awaiting_approval", Parent(w).candidate)
    \/ Submitted(w) /\ m = SubmittedOut(w)
    \/ CloseApproval(w) /\ \E o \in {"expired", "cancelled"} : m = CloseOut(w, o)
    \/ ReportOutcome(w) /\ m = OutcomeOut(w)

Written(w) == \A m \in messages' \ messages :
                 NewOutput(w, m) /\ OutputOf(w, m) /\ ~IsStored(m.idempotency_key)

\* The steps that end in complete_job_success with an output.
LEMMA CommitFrames ==
    ASSUME QueueInv, ObservationsOK, NEW w \in Workers,
           \/ Analyze(w) \/ Analysis(w) \/ RejectRisk(w) \/ AwaitApproval(w) \/ Submitted(w)
           \/ CloseApproval(w) \/ ReportOutcome(w)
    PROVE  Frame(w) /\ Arrival(w) /\ Written(w)
<1> USE DEF At, Goto, Leave, budget, env
<1>1. DOMAIN lease = Workers /\ DOMAIN pc = Workers /\ DOMAIN mem = Workers
  BY DEF QueueInv, LeasesOK, ObservationsOK
<1>2. ASSUME NEW out, NEW at, Emits(w, out, at), NewOutput(w, out)
      PROVE  Written(w)
  <2>1. OutputOf(w, out) /\ UpsertMessage(out)
    BY <1>2 DEF Emits
  <2>2. \A m \in messages' \ messages : m = out /\ ~IsStored(out.idempotency_key)
    BY <2>1 DEF UpsertMessage
  <2> QED BY <1>2, <2>1, <2>2 DEF Written
<1>3. ASSUME NEW l, NEW out, NEW n, NEW at, NEW st, CompleteWithOutput(l, out, n, at, st)
      PROVE  /\ DOMAIN traces' = DOMAIN traces
             /\ UNCHANGED <<approvals, observations, orders, snapshots, evidence, candidates>>
  BY <1>3 DEF CompleteWithOutput
<1>4. CASE Analyze(w)
  <2>1. PICK v \in ResearchVerdicts : Emits(w, ResearchOut(w, v), now)
    BY <1>4, AnalyzeEmits
  <2>2. Written(w)
    BY <1>2, <1>4, <2>1 DEF NewOutput
  <2>3. Frame(w) /\ Arrival(w)
    BY <1>1, <1>3, <1>4 DEF Analyze, Frame, Arrival
  <2> QED BY <2>2, <2>3
<1>5. CASE Analysis(w)
  <2>1. PICK v \in {"pass", "reject"} : Emits(w, AnalysisOutput(w, v), now)
    BY <1>5, AnalysisEmits
  <2>2. Written(w)
    BY <1>2, <1>5, <2>1 DEF NewOutput
  <2>3. Frame(w) /\ Arrival(w)
    BY <1>1, <1>3, <1>5 DEF Analysis, Frame, Arrival
  <2> QED BY <2>2, <2>3
<1>6. CASE RejectRisk(w)
  <2>1. Written(w)
    BY <1>2, <1>6, DecisionEmits DEF NewOutput
  <2>2. Frame(w) /\ Arrival(w)
    BY <1>1, <1>3, <1>6 DEF RejectRisk, Frame, Arrival
  <2> QED BY <2>1, <2>2
<1>7. CASE AwaitApproval(w)
  <2>1. Written(w)
    BY <1>2, <1>7, DecisionEmits DEF NewOutput
  <2>2. Frame(w) /\ Arrival(w)
    BY <1>1, <1>3, <1>7 DEF AwaitApproval, Frame, Arrival
  <2> QED BY <2>1, <2>2
<1>8. CASE Submitted(w)
  <2>1. Written(w)
    BY <1>2, <1>8, DecisionEmits DEF NewOutput
  <2>2. Frame(w)
    BY <1>1, <1>3, <1>8 DEF Submitted, Frame
  <2>3. Arrival(w)
    BY <1>1, <1>8 DEF Submitted, Arrival
  <2> QED BY <2>1, <2>2, <2>3
<1>9. CASE CloseApproval(w)
  <2>1. Written(w)
    BY <1>2, <1>9, DecisionEmits DEF NewOutput
  <2>2. Frame(w) /\ Arrival(w)
    BY <1>1, <1>3, <1>9 DEF CloseApproval, Frame, Arrival
  <2> QED BY <2>1, <2>2
<1>10. CASE ReportOutcome(w)
  <2>1. Written(w)
    BY <1>2, <1>10, OutcomeEmits DEF NewOutput
  <2>2. Frame(w) /\ Arrival(w)
    BY <1>1, <1>3, <1>10 DEF ReportOutcome, Frame, Arrival
  <2> QED BY <2>1, <2>2
<1> QED BY <1>4, <1>5, <1>6, <1>7, <1>8, <1>9, <1>10

\* Every other step of a worker.
LEMMA CallFrames ==
    ASSUME QueueInv, ObservationsOK, NEW w \in Workers,
           WorkerStep(w) \/ Fault(w) \/ Crash(w),
           ~(\/ Analyze(w) \/ Analysis(w) \/ RejectRisk(w) \/ AwaitApproval(w) \/ Submitted(w)
             \/ CloseApproval(w) \/ ReportOutcome(w))
    PROVE  Frame(w) /\ Arrival(w) /\ messages' = messages
<1> USE DEF At, Goto, GotoWith, Leave, Raises, tables, records, budget, env
<1>1. DOMAIN lease = Workers /\ DOMAIN pc = Workers /\ DOMAIN mem = Workers
  BY DEF QueueInv, LeasesOK, ObservationsOK
<1>2. CASE Lease(w)
  <2>1. FirstCall[StageOf[w]] \in {"analyze", "snapshot", "execute", "read_request", "observe"}
    BY WorkerAssumption DEF FirstCall
  <2> QED BY <1>1, <1>2, <2>1 DEF Lease, Frame, Arrival
<1>3. CASE Except(w)
  BY <1>1, <1>3 DEF Except, Frame, Arrival
<1>4. CASE Fault(w)
  BY <1>1, <1>4 DEF Fault, Frame, Arrival
<1>5. CASE Crash(w)
  BY <1>1, <1>5 DEF Crash, Frame, Arrival
<1>6. CASE SaveResearchEvidence(w)
  BY <1>1, <1>6 DEF SaveResearchEvidence, Frame, Arrival
<1>7. CASE SavePortfolioSnapshot(w)
  <2>1. Frame(w) /\ messages' = messages
    BY <1>1, <1>7 DEF SavePortfolioSnapshot, Frame
  <2>2. pc'[w] = "analysis"
    BY <1>1, <1>7 DEF SavePortfolioSnapshot
  <2> QED BY <1>7, <2>1, <2>2 DEF Arrival
<1>8. CASE SnapshotExists(w) \/ SnapshotMissing(w)
  BY <1>1, <1>8 DEF SnapshotExists, SnapshotMissing, Frame, Arrival
<1>9. CASE SaveAnalysisCandidates(w)
  BY <1>1, <1>9 DEF SaveAnalysisCandidates, Frame, Arrival
<1>10. CASE RequestApproval(w)
  <2>1. Frame(w) /\ messages' = messages
    BY <1>1, <1>10 DEF RequestApproval, Frame
  <2>2. pc'[w] \in {"await_approval", "except"}
    BY <1>1, <1>10 DEF RequestApproval
  <2> QED BY <1>10, <2>1, <2>2 DEF Arrival
<1>11. CASE SubmitUnattended(w)
  <2>1. pc'[w] = "get_order"
    BY <1>1, <1>11 DEF SubmitUnattended
  <2>2. Frame(w) /\ messages' = messages
    BY <1>1, <1>11 DEF SubmitUnattended, Frame
  <2> QED BY <1>11, <2>1, <2>2 DEF Arrival
<1>12. CASE GetBrokerOrder(w)
  <2>1. pc'[w] \in {"submitted", "place_order"}
    BY <1>1, <1>12 DEF GetBrokerOrder
  <2>2. Frame(w) /\ messages' = messages
    BY <1>1, <1>12 DEF GetBrokerOrder, Frame
  <2> QED BY <1>12, <2>1, <2>2 DEF Arrival
<1>13. CASE PlaceOrder(w)
  <2>1. pc'[w] = "save_order"
    BY <1>1, <1>13 DEF PlaceOrder
  <2>2. Frame(w) /\ messages' = messages
    BY <1>1, <1>13 DEF PlaceOrder, Frame
  <2> QED BY <1>13, <2>1, <2>2 DEF Arrival
<1>14. CASE SaveBrokerOrder(w)
  <2>1. pc'[w] = "submitted"
    BY <1>1, <1>14 DEF SaveBrokerOrder
  <2>2. Frame(w) /\ messages' = messages
    BY <1>1, <1>14 DEF SaveBrokerOrder, Frame
  <2> QED BY <1>14, <2>1, <2>2 DEF Arrival
<1>15. CASE ListObservations(w)
  <2>1. pc'[w] \in {"save_observation", "idle"}
    BY <1>1, <1>15 DEF ListObservations
  <2>2. Frame(w) /\ messages' = messages
    BY <1>1, <1>15 DEF ListObservations, Frame
  <2> QED BY <1>15, <2>1, <2>2 DEF Arrival
<1>16. CASE SaveObservation(w)
  <2>1. pc'[w] \in {"save_observation", "idle"}
    BY <1>1, <1>16 DEF SaveObservation
  <2>2. Frame(w) /\ messages' = messages
    BY <1>1, <1>16 DEF SaveObservation, Frame
  <2> QED BY <1>16, <2>1, <2>2 DEF Arrival
<1>17. CASE ReadRequest(w)
  <2>1. pc'[w] \in {"expire", "wait", "get_order", "close"}
    BY <1>1, <1>17 DEF ReadRequest
  <2>2. Frame(w) /\ messages' = messages
    BY <1>1, <1>17 DEF ReadRequest, Frame
  <2> QED BY <1>17, <2>1, <2>2 DEF Arrival
<1>18. CASE ExpireRequest(w)
  <2>1. pc'[w] = "close"
    BY <1>1, <1>18 DEF ExpireRequest
  <2>2. Frame(w) /\ messages' = messages
    BY <1>1, <1>18 DEF ExpireRequest, Frame
  <2> QED BY <2>1, <2>2 DEF Arrival
<1>19. CASE WaitForApproval(w)
  BY <1>1, <1>19 DEF WaitForApproval, Frame, Arrival
<1>20. CASE NotADecision(w) \/ NonePending(w)
  BY <1>1, <1>20 DEF NotADecision, NonePending, Frame, Arrival
<1>21. CASE NothingToObserve(w) \/ WaitForWindow(w)
  BY <1>1, <1>21 DEF NothingToObserve, WaitForWindow, Frame, Arrival
<1>22. CASE ReadDue(w)
  <2>1. pc'[w] = "update_observation"
    BY <1>1, <1>22 DEF ReadDue
  <2>2. Frame(w) /\ messages' = messages
    BY <1>1, <1>22 DEF ReadDue, Frame
  <2> QED BY <1>22, <2>1, <2>2 DEF Arrival
<1>23. CASE UpdateObservation(w)
  <2>1. pc'[w] \in {"update_observation", "report"}
    BY <1>1, <1>23 DEF UpdateObservation
  <2>2. Frame(w) /\ messages' = messages
    BY <1>1, <1>23 DEF UpdateObservation, Frame
  <2> QED BY <1>23, <2>1, <2>2 DEF Arrival
<1> QED BY <1>2, <1>3, <1>4, <1>5, <1>6, <1>7, <1>8, <1>9, <1>10, <1>11, <1>12, <1>13, <1>14,
           <1>15, <1>16, <1>17, <1>18, <1>19, <1>20, <1>21, <1>22, <1>23
        DEF WorkerStep, StageStep, ResearcherStep, AnalystStep, ExecutorStep, SubmitStep,
            ApprovalStep, OutcomeStep

LEMMA WorkerFrames ==
    ASSUME QueueInv, ObservationsOK, NEW w \in Workers, WorkerStep(w) \/ Fault(w) \/ Crash(w)
    PROVE  Frame(w) /\ Arrival(w) /\ Written(w)
<1>1. messages' = messages => Written(w)
  BY DEF Written
<1> QED BY <1>1, CommitFrames, CallFrames

-----------------------------------------------------------------------------
(* The other parts of the invariant, step by step. *)

LEMMA IngressKept ==
    ASSUME PipelineInv, [Next]_vars
    PROVE  IngressOK'
<1> USE DEF tables, records, ingressRest
<1>1. QueueInv /\ IngressOK /\ ObservationsOK
  BY DEF PipelineInv
<1>2. messages \subseteq messages'
  BY <1>1, NextKinds, LeaseStays
<1>3. ASSUME DOMAIN traces' = DOMAIN traces, req' = req,
             \A m \in messages' \ messages : m.trace_id \in DOMAIN traces
      PROVE  IngressOK'
  BY <1>1, <1>2, <1>3 DEF IngressOK
<1>4. ASSUME NEW w \in Workers, WorkerStep(w) \/ Fault(w) \/ Crash(w)
      PROVE  IngressOK'
  <2>1. Frame(w) /\ Written(w)
    BY <1>1, <1>4, WorkerFrames
  <2>2. ASSUME NEW m \in messages' \ messages PROVE m.trace_id \in DOMAIN traces
    <3>1. OutputOf(w, m) /\ BeforeCommit(w)
      BY <1>1, <2>1, <2>2, AnalyzeEmits, AnalysisEmits, DecisionEmits, OutcomeEmits
         DEF Written, NewOutput, Emits
    <3>2. Parent(w) \in messages /\ m.trace_id = Parent(w).trace_id
      BY <1>1, <3>1, ParentFacts DEF OutputOf, BeforeCommit, QueueInv
    <3> QED BY <1>1, <3>2 DEF IngressOK
  <2> QED BY <1>3, <2>1, <2>2 DEF Frame
<1>5. ASSUME NEW a \in Alerts, Post(a) PROVE IngressOK'
  BY <1>1, <1>5 DEF Post, IngressOK
<1>6. CASE Respond202 \/ IngressFault
  BY <1>1, <1>6 DEF Respond202, IngressFault, IngressOK
<1>7. CASE HandleEnsureTrace \/ HandleUpsertMessage \/ HandleEnqueueJob
  <2>1. PICK a \in Alerts, c \in {"ensure_trace", "upsert_message", "enqueue_job", "respond"} :
            /\ req = <<[alert |-> a, call |-> c]>>
            /\ c # "ensure_trace" => a \in DOMAIN traces
            /\ c = "enqueue_job" => IngestMessage(a) \in messages
    BY <1>1, <1>7 DEF IngressOK, HandleEnsureTrace, HandleUpsertMessage, HandleEnqueueJob, InCall
  <2>2. req[1].alert = a /\ req[1].call = c
    BY <2>1
  <2>3. \A d : [req EXCEPT ![1].call = d] = <<[alert |-> a, call |-> d]>>
    BY <2>1
  <2>4. CASE HandleEnsureTrace
    <3>1. /\ req' = <<[alert |-> a, call |-> "upsert_message"]>> /\ messages' = messages
          /\ DOMAIN traces' = DOMAIN traces \cup {a}
      BY <2>2, <2>3, <2>4 DEF HandleEnsureTrace, EnsureTrace
    <3> QED BY <1>1, <3>1 DEF IngressOK
  <2>5. CASE HandleUpsertMessage
    <3>1. /\ traces' = traces /\ c = "upsert_message"
          /\ req' = <<[alert |-> a, call |-> IF IsStored(IngestMessage(a).idempotency_key)
                                             THEN "respond" ELSE "enqueue_job"]>>
          /\ messages' = IF IsStored(IngestMessage(a).idempotency_key) THEN messages
                         ELSE messages \cup {IngestMessage(a)}
      BY <2>2, <2>3, <2>5 DEF HandleUpsertMessage, UpsertMessage, InCall
    <3>2. IngestMessage(a).trace_id = a /\ a \in DOMAIN traces
      BY <2>1, <3>1, IngestFacts
    <3> QED BY <1>1, <3>1, <3>2 DEF IngressOK
  <2>6. CASE HandleEnqueueJob
    <3>1. /\ req' = <<[alert |-> a, call |-> "respond"]>> /\ messages' = messages
          /\ traces' = traces /\ c = "enqueue_job"
      BY <2>2, <2>3, <2>6 DEF HandleEnqueueJob, InCall
    <3>2. a \in DOMAIN traces
      BY <2>1, <3>1
    <3> QED BY <1>1, <3>1, <3>2 DEF IngressOK
  <2> QED BY <1>7, <2>4, <2>5, <2>6
<1>8. CASE \/ \E r \in approvals, status \in {"approved", "rejected"} : HumanDecides(r, status)
           \/ Tick
           \/ UNCHANGED vars
  <2>1. traces' = traces /\ req' = req /\ messages' = messages
    BY <1>8 DEF HumanDecides, Tick, vars, env
  <2> QED BY <1>3, <2>1
<1> QED BY <1>4, <1>5, <1>6, <1>7, <1>8 DEF Next, IngressNext, IngressHandler

\* The fields of a new output by which later stages and keys tell it apart.
OutputFields(w, m) ==
    LET p == Parent(w).message_id IN
    \/ /\ Analyze(w) /\ m.contract = "ResearchReport" /\ m.status \in {"pass", "defer"}
       /\ m.idempotency_key = ResearchKey(p) /\ m.candidate = None /\ m.stage = "research"
    \/ /\ Analysis(w) /\ m.contract = "AnalysisReport" /\ m.status \in {"pass", "reject"}
       /\ m.idempotency_key = AnalysisKey(p, SnapshotId(w)) /\ m.stage = "analysis"
       /\ m.status = "pass" => m.candidate = Run(w)
    \/ /\ RejectRisk(w) /\ m.contract = "ExecutionDecision" /\ m.status = "rejected_risk"
       /\ m.idempotency_key = ExecutionKey(p)
    \/ /\ AwaitApproval(w) /\ m.contract = "ExecutionDecision" /\ m.status = "awaiting_approval"
       /\ m.idempotency_key = ExecutionKey(p) /\ m.candidate = Parent(w).candidate
    \/ /\ Submitted(w) /\ m.contract = "ExecutionDecision" /\ m.status = "submitted"
       /\ m.idempotency_key = ExecutionKey(p) /\ m.candidate = Parent(w).candidate
    \/ /\ CloseApproval(w) /\ m.contract = "ExecutionDecision"
       /\ m.status \in {"expired", "cancelled"}
       /\ m.idempotency_key = ApprovalKey(p, mem[w].status)
    \/ /\ ReportOutcome(w) /\ m.contract = "OutcomeReport"
       /\ m.idempotency_key = OutcomeKey(Trace(w), Cardinality(Pending(Trace(w))))
       /\ m.status \notin {"pass", "defer", "reject", "rejected_risk", "awaiting_approval",
                           "submitted", "expired", "cancelled"}

LEMMA NewOutputFields ==
    ASSUME NEW w \in Workers, NEW m, NewOutput(w, m)
    PROVE  OutputFields(w, m)
<1> USE DEF OutputFields, Decision, Message
<1>1. CASE Analyze(w) /\ \E v \in ResearchVerdicts : m = ResearchOut(w, v)
  BY <1>1 DEF ResearchOut, ResearchVerdicts
<1>2. CASE Analysis(w) /\ \E v \in {"pass", "reject"} : m = AnalysisOutput(w, v)
  BY <1>2 DEF AnalysisOutput
<1>3. CASE RejectRisk(w) /\ m = DecisionOut(w, "rejected_risk", None)
  BY <1>3 DEF DecisionOut
<1>4. CASE AwaitApproval(w) /\ m = DecisionOut(w, "awaiting_approval", Parent(w).candidate)
  BY <1>4 DEF DecisionOut
<1>5. CASE Submitted(w) /\ m = SubmittedOut(w)
  BY <1>5 DEF SubmittedOut
<1>6. CASE CloseApproval(w) /\ \E o \in {"expired", "cancelled"} : m = CloseOut(w, o)
  BY <1>6 DEF CloseOut
<1>7. CASE ReportOutcome(w) /\ m = OutcomeOut(w)
  <2>1. /\ m.contract = "OutcomeReport"
        /\ m.idempotency_key = OutcomeKey(Trace(w), Cardinality(Pending(Trace(w))))
    BY <1>7, Zenon DEF OutcomeOut
  <2>2. m.status = ""
    BY <1>7, Zenon DEF OutcomeOut
  <2>3. m.status \notin {"pass", "defer", "reject", "rejected_risk", "awaiting_approval",
                        "submitted", "expired", "cancelled"}
    BY <2>2, Zenon
  <2> QED BY <1>7, <2>1, <2>3
<1> QED BY <1>1, <1>2, <1>3, <1>4, <1>5, <1>6, <1>7 DEF NewOutput

\* decide_approval keeps what a request is for.
LEMMA DecisionKeeps ==
    ASSUME RequestsOK, NEW r \in approvals,
           NEW status \in {"approved", "rejected", "expired"}, DecideApproval(r, status)
    PROVE  /\ approvals' \subseteq RequestSet
           /\ \A id, c : RequestFor(id, c) => RequestFor(id, c)'
<1> DEFINE s == [r EXCEPT !.status = status]
<1>1. approvals' = (approvals \ {r}) \cup {s}
  BY DEF DecideApproval
<1>2. r \in RequestSet
  BY DEF RequestsOK
<1>3. s \in RequestSet /\ s.message_id = r.message_id /\ s.candidate = r.candidate
  BY <1>2 DEF RequestSet
<1> HIDE DEF s
<1> QED BY <1>1, <1>3 DEF RequestsOK, RequestFor

\* create_approval_request for the run of w.
LEMMA RequestAdded ==
    ASSUME QueueInv, RequestsOK, NEW w \in Workers, RequestApproval(w)
    PROVE  /\ approvals' \subseteq RequestSet
           /\ \A id, c : RequestFor(id, c) => RequestFor(id, c)'
           /\ pc'[w] = "await_approval" => RequestFor(Run(w), Parent(w).candidate)'
<1> USE DEF At, Goto, Raises, tables, records
<1>0. pc[w] = "execute" /\ DOMAIN pc = Workers
  BY DEF RequestApproval, QueueInv, LeasesOK
<1>1. CASE ReferenceHolds(Run(w))
  <2> DEFINE r == [message_id |-> Run(w), candidate |-> Parent(w).candidate,
                   status |-> "requested", expires_at |-> now + ApprovalTimeout]
  <2>1. /\ approvals' = approvals \cup {r} /\ lease' = lease /\ messages' = messages
    BY <1>1 DEF RequestApproval, CreateApprovalRequest
  <2>2. /\ Run(w) \in Ids /\ Parent(w).candidate \in Ids \cup {None} /\ now \in Nat
    BY <1>0, OutputFacts
  <2>3. now + ApprovalTimeout \in Nat
    BY <2>2, ExecutorAssumption
  <2>4. r \in RequestSet
    BY <2>2, <2>3 DEF RequestSet
  <2>5. Run(w)' = Run(w) /\ Parent(w)' = Parent(w)
    BY <2>1 DEF Run, Held, Parent, MessageOf
  <2>6. r.message_id = Run(w) /\ r.candidate = Parent(w).candidate
    OBVIOUS
  <2> HIDE DEF r
  <2> QED BY <2>1, <2>4, <2>5, <2>6 DEF RequestsOK, RequestFor
<1>2. CASE ~ReferenceHolds(Run(w))
  <2>1. approvals' = approvals /\ pc'[w] = "except"
    BY <1>0, <1>2 DEF RequestApproval
  <2> QED BY <2>1 DEF RequestsOK, RequestFor
<1> QED BY <1>1, <1>2

LEMMA RequestsKept ==
    ASSUME PipelineInv, [Next]_vars
    PROVE  RequestsOK'
<1> USE DEF tables, records, ingressRest
<1>1. QueueInv /\ RequestsOK /\ ObservationsOK /\ IngressOK
  BY DEF PipelineInv
<1>2. /\ messages \subseteq messages'
      /\ \A v \in Workers : pc[v] # "idle" /\ pc'[v] # "idle" => StaysIn(v)
  BY <1>1, NextKinds, LeaseStays
<1>3. ASSUME approvals' \subseteq RequestSet, pc' = pc,
             \A id, c : RequestFor(id, c) => RequestFor(id, c)',
             \A m \in messages' \ messages : m.status # "awaiting_approval"
      PROVE  RequestsOK'
  <2>1. ASSUME NEW v \in Workers, pc'[v] = "await_approval"
        PROVE  RequestFor(Run(v), Parent(v).candidate)'
    <3>1. pc[v] = "await_approval" /\ StaysIn(v)
      BY <1>2, <1>3, <2>1
    <3> QED BY <1>1, <1>3, <3>1 DEF RequestsOK, At, StaysIn
  <2> QED BY <1>1, <1>3, <2>1 DEF RequestsOK, At
<1>4. ASSUME NEW w \in Workers, WorkerStep(w) \/ Fault(w) \/ Crash(w)
      PROVE  RequestsOK'
  <2>1. Frame(w) /\ Arrival(w) /\ Written(w)
    BY <1>1, <1>4, WorkerFrames
  <2>2. /\ approvals' \subseteq RequestSet
        /\ \A id, c : RequestFor(id, c) => RequestFor(id, c)'
    <3>1. CASE approvals' = approvals
      BY <1>1, <3>1 DEF RequestsOK, RequestFor
    <3>2. CASE RequestApproval(w)
      BY <1>1, <3>2, RequestAdded
    <3>3. CASE ExpireRequest(w)
      <4>1. pc[w] = "expire" /\ DecideApproval(Request(w), "expired")
        BY <3>3 DEF ExpireRequest, At
      <4>2. StageOf[w] = "approval"
        BY <1>1, <4>1, StageAt DEF CallOf, SubmitCalls
      <4>3. Request(w) \in approvals
        BY <1>1, <4>1, <4>2, RequestFacts
      <4> QED BY <1>1, <4>1, <4>3, DecisionKeeps
    <3> QED BY <2>1, <3>1, <3>2, <3>3 DEF Frame
  <2>3. ASSUME NEW m \in messages' \ messages, m.status = "awaiting_approval"
        PROVE  RequestFor(m.message_id, m.candidate)
    <3>1. NewOutput(w, m) /\ OutputOf(w, m)
      BY <2>1, <2>3 DEF Written
    <3>2. AwaitApproval(w) /\ m.candidate = Parent(w).candidate
      BY <2>3, <3>1, NewOutputFields DEF OutputFields
    <3>3. m.message_id = Run(w)
      BY <3>1 DEF OutputOf
    <3> QED BY <1>1, <3>2, <3>3 DEF RequestsOK, AwaitApproval
  <2>4. ASSUME NEW v \in Workers, pc'[v] = "await_approval"
        PROVE  RequestFor(Run(v), Parent(v).candidate)'
    <3>1. CASE v = w
      BY <1>1, <2>1, <2>4, <3>1, RequestAdded DEF Arrival
    <3>2. CASE v # w
      <4>1. pc[v] = "await_approval" /\ StaysIn(v)
        BY <1>2, <2>1, <2>4, <3>2 DEF Frame
      <4>2. RequestFor(Run(v), Parent(v).candidate)
        BY <1>1, <4>1 DEF RequestsOK, At
      <4> QED BY <2>2, <4>1, <4>2 DEF StaysIn
    <3> QED BY <3>1, <3>2
  <2>5. \A m \in messages' : m.status = "awaiting_approval" => RequestFor(m.message_id, m.candidate)'
    BY <1>1, <2>2, <2>3 DEF RequestsOK
  <2> QED BY <2>2, <2>4, <2>5 DEF RequestsOK, At
<1>5. CASE IngressNext \/ Tick \/ UNCHANGED vars
  <2>1. pc' = pc /\ approvals' = approvals
    BY <1>5 DEF IngressNext, IngressHandler, Post, HandleEnsureTrace, HandleUpsertMessage,
       HandleEnqueueJob, Respond202, IngressFault, Tick, vars
  <2>2. \A m \in messages' \ messages : m.status # "awaiting_approval"
    <3>1. \A m \in messages' \ messages : \E a : m = IngestMessage(a)
      BY <1>5 DEF IngressNext, IngressHandler, Post, HandleEnsureTrace, HandleUpsertMessage,
         HandleEnqueueJob, Respond202, IngressFault, Tick, vars, UpsertMessage
    <3>2. \A a : IngestMessage(a).status # "awaiting_approval"
      <4>1. \A a : IngestMessage(a).status = ""
        BY Zenon DEF IngestMessage, Message
      <4> QED BY <4>1, Zenon
    <3> QED BY <3>1, <3>2, Zenon
  <2>3. /\ approvals' \subseteq RequestSet
        /\ \A id, c : RequestFor(id, c) => RequestFor(id, c)'
    BY <1>1, <2>1 DEF RequestsOK, RequestFor
  <2> QED BY <1>3, <2>1, <2>2, <2>3
<1>6. ASSUME NEW r \in approvals, NEW status \in {"approved", "rejected"}, HumanDecides(r, status)
      PROVE  RequestsOK'
  <2>1. pc' = pc /\ messages' = messages /\ DecideApproval(r, status)
    BY <1>6 DEF HumanDecides
  <2> QED BY <1>1, <1>3, <2>1, DecisionKeeps
<1> QED BY <1>4, <1>5, <1>6 DEF Next

\* The locals that are set for the loops over horizons and rows.
LEMMA LocalsSet ==
    /\ \A T, n : [status |-> "", todo |-> T, at |-> n] = [status |-> Blank, todo |-> T, at |-> n]
    /\ \A T : [NoLocals EXCEPT !.todo = T] = [status |-> Blank, todo |-> T, at |-> 0]
<1>1. NoLocals = [status |-> Blank, todo |-> {}, at |-> 0]
  BY Zenon DEF NoLocals, Blank
<1>2. \A T : [NoLocals EXCEPT !.todo = T] = [status |-> Blank, todo |-> T, at |-> 0]
  BY <1>1
<1>3. \A T, n : [status |-> "", todo |-> T, at |-> n] = [status |-> Blank, todo |-> T, at |-> n]
  BY Zenon DEF Blank
<1> QED BY <1>2, <1>3, Zenon

\* save_outcome_observation: one horizon after the other.
LEMMA ObservationSaved ==
    ASSUME QueueInv, ObservationsOK, NEW w \in Workers, SaveObservation(w)
    PROVE  \E h \in mem[w].todo :
             /\ h \in Horizons /\ mem[w] \in HorizonsToDo
             /\ LET row == [saved_by |-> Run(w), trace_id |-> Trace(w), horizon |-> h,
                            scheduled_for |-> mem[w].at + h, observed |-> FALSE]
                IN observations' = observations \cup {row} /\ row \in ObservationSet
             /\ pc'[w] = "save_observation" =>
                  /\ mem[w].todo \ {h} # {} /\ pc'[w] # "idle"
                  /\ mem'[w] = [mem[w] EXCEPT !.todo = mem[w].todo \ {h}]
<1> USE DEF At, GotoWith, Leave
<1> DEFINE h == CHOOSE x \in mem[w].todo : \A y \in mem[w].todo : x <= y
           row == [saved_by |-> Run(w), trace_id |-> Trace(w), horizon |-> h,
                   scheduled_for |-> mem[w].at + h, observed |-> FALSE]
<1>1. pc[w] = "save_observation" /\ mem[w] \in HorizonsToDo /\ mem[w].todo # {}
      /\ DOMAIN mem = Workers /\ DOMAIN pc = Workers
  BY DEF SaveObservation, ObservationsOK, QueueInv, LeasesOK
<1>2. mem[w].todo \subseteq Horizons /\ mem[w].todo \in SUBSET Nat /\ mem[w].at \in Nat
  BY <1>1, ExecutorAssumption DEF HorizonsToDo
<1>3. \E x \in mem[w].todo : \A y \in mem[w].todo : x <= y
  BY <1>1, <1>2, LeastElement
<1>4. h \in mem[w].todo
  BY <1>3
<1>5. Run(w) \in Ids /\ Trace(w) \in Alerts
  BY <1>1, RunFacts, ParentFacts DEF QueueInv
<1>6. observations' = observations \cup {row}
  BY DEF SaveObservation, SaveOutcomeObservation
<1>7. pc'[w] = "save_observation" =>
        mem[w].todo \ {h} # {} /\ mem'[w] = [mem[w] EXCEPT !.todo = mem[w].todo \ {h}]
  BY <1>1 DEF SaveObservation
<1> HIDE DEF h
<1>8. h \in Horizons /\ h \in Nat /\ mem[w].at + h \in Nat
  BY <1>2, <1>4
<1>9. row \in ObservationSet
  BY <1>5, <1>8 DEF ObservationSet
<1> QED BY <1>1, <1>4, <1>6, <1>7, <1>8, <1>9

\* update_outcome_observation: one due row after the other.
LEMMA ObservationUpdated ==
    ASSUME QueueInv, ObservationsOK, NEW w \in Workers, UpdateObservation(w)
    PROVE  \E o \in mem[w].todo :
             /\ o \in ObservationSet /\ [o EXCEPT !.observed = TRUE] \in ObservationSet
             /\ observations' = (observations \ {o}) \cup {[o EXCEPT !.observed = TRUE]}
             /\ mem'[w].todo = mem[w].todo \ {o} /\ mem[w].todo \subseteq ObservationSet
             /\ pc'[w] = "update_observation" => mem[w].todo \ {o} # {}
<1> USE DEF At, GotoWith
<1> DEFINE todo == mem[w].todo
           T == {x.scheduled_for : x \in todo}
           o == CHOOSE x \in mem[w].todo : \A y \in mem[w].todo : x.scheduled_for <= y.scheduled_for
<1>1. /\ pc[w] = "update_observation" /\ todo \subseteq ObservationSet /\ todo # {}
      /\ DOMAIN mem = Workers /\ DOMAIN pc = Workers
  BY DEF UpdateObservation, ObservationsOK, QueueInv, LeasesOK
<1>2. T \in SUBSET Nat /\ T # {}
  BY <1>1 DEF ObservationSet
<1>3. PICK t \in T : \A y \in T : t <= y
  BY <1>2, LeastElement
<1>4. \E x \in todo : \A y \in todo : x.scheduled_for <= y.scheduled_for
  BY <1>3
<1>5. o \in todo
  BY <1>4
<1>6. observations' = (observations \ {o}) \cup {[o EXCEPT !.observed = TRUE]}
  BY DEF UpdateObservation, UpdateOutcomeObservation
<1>7. /\ mem'[w] = [NoLocals EXCEPT !.todo = todo \ {o}]
      /\ pc'[w] = "update_observation" => todo \ {o} # {}
  BY <1>1 DEF UpdateObservation
<1> HIDE DEF o, todo
<1>8. mem'[w].todo = todo \ {o}
  BY <1>7, LocalsSet
<1>9. o \in ObservationSet /\ [o EXCEPT !.observed = TRUE] \in ObservationSet
  BY <1>1, <1>5 DEF ObservationSet
<1> QED BY <1>1, <1>5, <1>6, <1>7, <1>8, <1>9 DEF todo

LEMMA ObservationsKept ==
    ASSUME PipelineInv, [Next]_vars
    PROVE  ObservationsOK'
<1> USE DEF tables, records, ingressRest
<1>1. QueueInv /\ ObservationsOK /\ now \in Nat
  BY DEF PipelineInv, QueueInv, TablesOK
<1>2. ASSUME UNCHANGED <<observations, mem, pc>> PROVE ObservationsOK'
  BY <1>1, <1>2 DEF ObservationsOK, At
<1>3. ASSUME NEW w \in Workers, WorkerStep(w) \/ Fault(w) \/ Crash(w)
      PROVE  ObservationsOK'
  <2>1. Frame(w) /\ Arrival(w)
    BY <1>1, <1>3, WorkerFrames
  <2>2. observations' \subseteq ObservationSet /\ IsFiniteSet(observations')
    <3>0. observations \subseteq ObservationSet /\ IsFiniteSet(observations)
      BY <1>1 DEF ObservationsOK
    <3>1. CASE observations' = observations
      BY <3>0, <3>1
    <3>2. CASE SaveObservation(w)
      <4>1. PICK row \in ObservationSet : observations' = observations \cup {row}
        BY <1>1, <3>2, ObservationSaved
      <4> QED BY <3>0, <4>1, FS_AddElement
    <3>3. CASE UpdateObservation(w)
      <4>1. PICK o, row \in ObservationSet : observations' = (observations \ {o}) \cup {row}
        BY <1>1, <3>3, ObservationUpdated
      <4>2. IsFiniteSet(observations \ {o})
        BY <3>0, FS_RemoveElement
      <4> QED BY <3>0, <4>1, <4>2, FS_AddElement
    <3> QED BY <2>1, <3>1, <3>2, <3>3 DEF Frame
  <2>3. DOMAIN mem' = Workers
    BY <1>1, <2>1 DEF Frame, ObservationsOK
  <2>4. ASSUME NEW v \in Workers, pc'[v] = "save_observation"
        PROVE  mem'[v] \in HorizonsToDo /\ mem'[v].todo # {}
    <3>1. CASE v # w
      BY <1>1, <2>1, <2>4, <3>1 DEF Frame, ObservationsOK, At
    <3>2. CASE v = w /\ ListObservations(w)
      <4>1. mem' = [mem EXCEPT ![w] = [status |-> "", todo |-> Horizons, at |-> now]]
        <5>1. pc'[w] # "idle" /\ DOMAIN pc = Workers
          BY <1>1, <2>4, <3>2 DEF QueueInv, LeasesOK
        <5>2. ~Leave(w)
          BY <5>1 DEF Leave
        <5> QED BY <3>2, <5>2, Zenon DEF ListObservations, GotoWith
      <4>2. mem' = [mem EXCEPT ![w] = [status |-> Blank, todo |-> Horizons, at |-> now]]
        BY <4>1, LocalsSet, Zenon
      <4>3. mem'[w] = [status |-> Blank, todo |-> Horizons, at |-> now]
        BY <1>1, <4>2 DEF ObservationsOK
      <4> QED BY <1>1, <3>2, <4>3, ExecutorAssumption DEF HorizonsToDo
    <3>3. CASE v = w /\ SaveObservation(w)
      <4>1. PICK h \in mem[w].todo :
               /\ mem[w] \in HorizonsToDo /\ mem[w].todo \ {h} # {}
               /\ mem'[w] = [mem[w] EXCEPT !.todo = mem[w].todo \ {h}]
        BY <1>1, <2>4, <3>3, ObservationSaved
      <4> QED BY <3>3, <4>1 DEF HorizonsToDo
    <3> QED BY <2>1, <2>4, <3>1, <3>2, <3>3 DEF Arrival
  <2>5. ASSUME NEW v \in Workers, pc'[v] = "update_observation"
        PROVE  mem'[v].todo \subseteq ObservationSet /\ mem'[v].todo # {}
    <3>1. CASE v # w
      BY <1>1, <2>1, <2>5, <3>1 DEF Frame, ObservationsOK, At
    <3>2. CASE v = w /\ ReadDue(w)
      <4>1. mem'[w] = [NoLocals EXCEPT !.todo = DueNow(Trace(w))] /\ DueNow(Trace(w)) # {}
        BY <1>1, <3>2 DEF ReadDue, GotoWith, ObservationsOK
      <4>2. mem'[w].todo = DueNow(Trace(w))
        BY <4>1, LocalsSet
      <4>3. DueNow(Trace(w)) \subseteq observations
        BY DEF DueNow, Pending, ObservationsOf
      <4> QED BY <1>1, <3>2, <4>1, <4>2, <4>3 DEF ObservationsOK
    <3>3. CASE v = w /\ UpdateObservation(w)
      BY <1>1, <2>5, <3>3, ObservationUpdated
    <3> QED BY <2>1, <2>5, <3>1, <3>2, <3>3 DEF Arrival
  <2> QED BY <2>2, <2>3, <2>4, <2>5 DEF ObservationsOK, At
<1>4. CASE IngressNext \/ Tick \/ UNCHANGED vars
  BY <1>2, <1>4 DEF IngressNext, IngressHandler, Post, HandleEnsureTrace, HandleUpsertMessage,
       HandleEnqueueJob, Respond202, IngressFault, Tick, vars
<1>5. ASSUME NEW r \in approvals, NEW status \in {"approved", "rejected"}, HumanDecides(r, status)
      PROVE  ObservationsOK'
  BY <1>2, <1>5 DEF HumanDecides
<1> QED BY <1>3, <1>4, <1>5 DEF Next

LEMMA BudgetKept ==
    ASSUME PipelineInv, [Next]_vars
    PROVE  BudgetOK'
<1> USE DEF budget
<1>1. QueueInv /\ ObservationsOK /\ BudgetOK /\ MaxFaults \in Nat /\ MaxCrashes \in Nat
  BY WorkerAssumption DEF PipelineInv
<1> DEFINE Spends ==
             /\ faults' = faults \/ (faults < MaxFaults /\ faults' = faults + 1)
             /\ crashes' = crashes \/ (crashes < MaxCrashes /\ crashes' = crashes + 1)
<1>2. Spends
  <2>1. ASSUME NEW w \in Workers, WorkerStep(w) \/ Fault(w) \/ Crash(w) PROVE Spends
    <3>1. Frame(w)
      BY <1>1, <2>1, WorkerFrames
    <3> QED BY <3>1 DEF Frame, Fault, Crash
  <2>2. CASE IngressNext \/ Tick \/ UNCHANGED vars
    BY <2>2 DEF IngressNext, IngressHandler, Post, HandleEnsureTrace, HandleUpsertMessage,
       HandleEnqueueJob, Respond202, IngressFault, Tick, vars
  <2>3. CASE \E r \in approvals, status \in {"approved", "rejected"} : HumanDecides(r, status)
    BY <2>3 DEF HumanDecides
  <2> QED BY <2>1, <2>2, <2>3 DEF Next
<1> QED BY <1>1, <1>2 DEF BudgetOK

-----------------------------------------------------------------------------
(* The theorems. *)

LEMMA InitInv ==
    ASSUME Init
    PROVE  PipelineInv
<1> USE DEF Init, JobInit, RecordInit, WorkerInit, IngressInit
<1>1. TablesOK
  BY DEF TablesOK, Unique
<1>2. LeasesOK
  BY DEF LeasesOK, LeaseOK, Holds
<1>3. MessagesOK /\ HandoffExact
  BY DEF MessagesOK, HandoffExact
<1>4. IngressOK /\ RequestsOK
  BY DEF IngressOK, RequestsOK, At
<1>5. ObservationsOK
  BY FS_EmptySet DEF ObservationsOK, At
<1>6. BudgetOK
  BY WorkerAssumption DEF BudgetOK
<1> QED BY <1>1, <1>2, <1>3, <1>4, <1>5, <1>6 DEF PipelineInv, QueueInv

\* The job tables, leases, messages, requests, observations and the request in
\* the ingress handler stay consistent with one another under every
\* interleaving of workers, posts, clicks, faults and crashes (db.py, worker.py).
THEOREM PipelineInvariant == Spec => []PipelineInv
<1>1. PipelineInv /\ [Next]_vars => PipelineInv'
  BY NextKinds, IngressKept, RequestsKept, ObservationsKept, BudgetKept DEF PipelineInv
<1>2. Init => PipelineInv
  BY InitInv
<1> QED BY <1>1, <1>2, PTL DEF Spec

LEMMA RowTypes ==
    ASSUME Ids \subseteq MessageIds
    PROVE  Seq(RowSet) \subseteq Seq(JobRows)
<1>1. RowSet \subseteq JobRows
  BY DEF RowSet, JobRows
<1> QED BY <1>1

LEMMA InvTypes ==
    ASSUME PipelineInv, Ids \subseteq MessageIds
    PROVE  TypeOK
<1>1. TablesOK /\ LeasesOK /\ MessagesOK /\ IngressOK /\ RequestsOK /\ BudgetOK
  BY DEF PipelineInv, QueueInv
<1>2. jobs \in Seq(JobRows)
  BY <1>1, RowTypes DEF TablesOK
<1>3. now \in Nat /\ runs \in Seq(Seq(JobStates)) /\ dead_letters \in Seq(Nat)
  BY <1>1, Zenon DEF TablesOK
<1>4. ASSUME NEW m \in messages PROVE m.message_id \in MessageIds /\ m.trace_id \in DOMAIN traces
  <2>1. m.message_id \in Ids
    <3>1. m.trace_id \in Alerts
      BY <1>1 DEF MessagesOK
    <3>2. CASE m = IngestMessage(m.trace_id)
      <4>1. m.message_id = <<0, m.trace_id>>
        BY <3>1, <3>2, IngestFacts
      <4> QED BY <3>1, <4>1 DEF Ids
    <3>3. CASE FromRun(m)
      BY <3>3 DEF FromRun, Ids
    <3> QED BY <1>1, <3>2, <3>3 DEF MessagesOK
  <2> QED BY <1>1, <2>1 DEF IngressOK
<1>5. \A r \in approvals : r.status \in {"requested", "approved", "rejected", "expired"}
  BY <1>1 DEF RequestsOK, RequestSet
<1>6. \A w \in Workers : lease[w] = <<>> <=> pc[w] = "idle"
  BY <1>1, IdleIffFree DEF Holds
<1> QED BY <1>1, <1>2, <1>3, <1>4, <1>5, <1>6, Zenon DEF TypeOK, IngressOK, BudgetOK

\* Every table keeps its type, and a worker holds a lease exactly while it is
\* inside process_next, for any set MessageIds that has an id for every alert
\* and every run (uuid4 never runs out).
THEOREM PipelineTypeCorrect ==
    ASSUME Ids \subseteq MessageIds
    PROVE  Spec => []TypeOK
<1>1. PipelineInv => TypeOK
  BY InvTypes
<1> QED BY <1>1, PipelineInvariant, PTL

\* HandoffExact: complete_job_success loses no hand-over and invents none,
\* whatever is retried, fails or crashes.
THEOREM HandoversExact == Spec => []HandoffExact
<1>1. PipelineInv => HandoffExact
  BY DEF PipelineInv, QueueInv
<1> QED BY <1>1, PipelineInvariant, PTL

\* ApprovalJobHasRequest: the branch of ApprovalWorker.process_next that
\* dead-letters an approval job without a request is never taken.
THEOREM ApprovalJobsHaveRequests == Spec => []ApprovalJobHasRequest
<1>1. ASSUME PipelineInv PROVE ApprovalJobHasRequest
  <2>1. TablesOK /\ MessagesOK /\ HandoffExact /\ RequestsOK
    BY <1>1 DEF PipelineInv, QueueInv
  <2>2. ASSUME NEW j \in DOMAIN jobs, jobs[j].stage = "approval"
        PROVE  \E r \in approvals : /\ r.message_id = jobs[j].message_id
                                    /\ r.candidate = MessageOf(jobs[j].message_id).candidate
    <3>1. PICK m \in messages : m.message_id = jobs[j].message_id /\ NextStageOf(m) = "approval"
      BY <2>1, <2>2 DEF HandoffExact
    <3>2. MessageOf(jobs[j].message_id) = m
      BY <2>1, <3>1 DEF MessageOf, MessagesOK
    <3>3. m.status = "awaiting_approval"
      <4>1. CASE m = IngestMessage(m.trace_id)
        BY <2>1, <3>1, <4>1, IngestFacts DEF MessagesOK
      <4>2. CASE StatusOK(m)
        BY <3>1, <4>2, NextStageFacts
      <4> QED BY <2>1, <4>1, <4>2 DEF MessagesOK, FromRun
    <3> QED BY <2>1, <3>1, <3>2, <3>3 DEF RequestsOK, RequestFor
  <2> QED BY <2>2 DEF ApprovalJobHasRequest
<1> QED BY <1>1, PipelineInvariant, PTL

-----------------------------------------------------------------------------
(* Pipeline implements JobQueue. *)

\* The transactions of the two modules are the same.
LEMMA SameTransactions ==
    /\ \A s, m : EnqueueJob(s, m) => JQ!EnqueueJob(s, m)
    /\ \A s, j : IsNextReady(s, j) => JQ!IsNextReady(s, j)
    /\ \A j : LeaseNextJob(j) => JQ!LeaseNextJob(j)
    /\ \A j : LeaseOf(j) = JQ!LeaseOf(j)
    /\ \A l, next : CompleteJobSuccess(l, next) => JQ!CompleteJobSuccess(l, next)
    /\ \A l, d, n : CompleteJobRetry(l, d, n) => JQ!CompleteJobRetry(l, d, n)
<1>1. \A T, s, m, at : Enqueued(T, s, m, at) = JQ!Enqueued(T, s, m, at)
  BY Zenon DEF Enqueued, JQ!Enqueued, IsQueued, JQ!IsQueued, NewJob, JQ!NewJob, NULL, JQ!NULL
<1>2. \A R, T : RunsFor(R, T) = JQ!RunsFor(R, T)
  BY Zenon DEF RunsFor, JQ!RunsFor
<1>3. \A s, m : EnqueueJob(s, m) => JQ!EnqueueJob(s, m)
  BY <1>1, <1>2, Zenon DEF EnqueueJob, JQ!EnqueueJob
<1>4. \A s, j : IsNextReady(s, j) => JQ!IsNextReady(s, j)
  BY Zenon DEF IsNextReady, JQ!IsNextReady, Ready, JQ!Ready
<1>5. \A j : LeaseNextJob(j) => JQ!LeaseNextJob(j)
  BY Zenon DEF LeaseNextJob, JQ!LeaseNextJob
<1>6. \A j : LeaseOf(j) = JQ!LeaseOf(j)
  BY Zenon DEF LeaseOf, JQ!LeaseOf
<1>7. \A l, next : CompleteJobSuccess(l, next) => JQ!CompleteJobSuccess(l, next)
  BY <1>1, <1>2, Zenon DEF CompleteJobSuccess, JQ!CompleteJobSuccess, NULL, JQ!NULL
<1>8. \A l, d, n : CompleteJobRetry(l, d, n) => JQ!CompleteJobRetry(l, d, n)
  BY Zenon DEF CompleteJobRetry, JQ!CompleteJobRetry, DeadLetterJob, JQ!DeadLetterJob,
     RetryLater, JQ!RetryLater, NULL, JQ!NULL
<1> QED BY <1>3, <1>4, <1>5, <1>6, <1>7, <1>8

\* Where a worker stands in the protocol, and where it does after a step that
\* touches neither its lease nor its row.
LEMMA PhaseFacts ==
    ASSUME QueueInv, NEW w \in Workers
    PROVE  /\ pc[w] = "idle" => QueuePhase[w] = "idle"
           /\ pc[w] # "idle" => QueuePhase[w] \in {"working", "finishing"}
           /\ BeforeCommit(w) => QueuePhase[w] = "working"
           /\ pc'[w] = "idle" => QueuePhase'[w] = "idle"
<1>1. BeforeCommit(w) => pc[w] # "idle" /\ jobs[Held(w).job_id].state = "running"
  BY HeldFacts DEF QueueInv, BeforeCommit, StateAt
<1>2. QueuePhase[w] = PhaseOf(w) /\ QueuePhase'[w] = PhaseOf(w)'
  BY DEF QueuePhase
<1>3. /\ pc[w] = "idle" => PhaseOf(w) = "idle"
      /\ pc[w] # "idle" => PhaseOf(w) \in {"working", "finishing"}
      /\ pc[w] # "idle" /\ jobs[Held(w).job_id].state = "running" => PhaseOf(w) = "working"
      /\ pc'[w] = "idle" => PhaseOf(w)' = "idle"
  BY DEF PhaseOf
<1> QED BY <1>1, <1>2, <1>3

LEMMA PhaseMoves ==
    ASSUME LeasesOK, NEW w \in Workers, NEW p, QueuePhase'[w] = p,
           \A v \in Workers \ {w} : pc'[v] = pc[v] /\ lease'[v] = lease[v],
           \A v \in Workers \ {w} : pc[v] # "idle" =>
               jobs'[Held(v).job_id].state = jobs[Held(v).job_id].state
    PROVE  QueuePhase' = [QueuePhase EXCEPT ![w] = p]
<1>1. \A v \in Workers \ {w} : QueuePhase'[v] = QueuePhase[v]
  <2> SUFFICES ASSUME NEW v \in Workers \ {w} PROVE QueuePhase'[v] = QueuePhase[v]
    OBVIOUS
  <2>1. pc'[v] = pc[v] /\ Held(v)' = Held(v)
    BY DEF Held
  <2>2. PhaseOf(v)' = PhaseOf(v)
    BY <2>1 DEF PhaseOf
  <2> QED BY <2>2 DEF QueuePhase
<1>2. DOMAIN QueuePhase = Workers /\ DOMAIN (QueuePhase') = Workers
      /\ QueuePhase' = [v \in Workers |-> QueuePhase'[v]]
  BY DEF QueuePhase
<1>3. QueuePhase = [v \in Workers |-> QueuePhase[v]]
  BY DEF QueuePhase
<1> QED BY <1>1, <1>2, <1>3

LEMMA PhaseStays ==
    ASSUME \A v \in Workers : lease'[v] = lease[v] /\ (pc[v] = "idle" <=> pc'[v] = "idle"),
           \A v \in Workers : pc[v] # "idle" =>
               jobs'[Held(v).job_id].state = jobs[Held(v).job_id].state
    PROVE  QueuePhase' = QueuePhase
<1>1. ASSUME NEW v \in Workers PROVE QueuePhase'[v] = QueuePhase[v]
  <2>1. Held(v)' = Held(v)
    BY DEF Held
  <2>2. PhaseOf(v)' = PhaseOf(v)
    BY <2>1 DEF PhaseOf
  <2> QED BY <2>2 DEF QueuePhase
<1>2. QueuePhase' = [v \in Workers |-> QueuePhase'[v]] /\ QueuePhase = [v \in Workers |-> QueuePhase[v]]
  BY DEF QueuePhase
<1> QED BY <1>1, <1>2

\* A worker that leaves process_next, seen from the protocol.
LEMMA Released ==
    ASSUME QueueInv, NEW w \in Workers, pc[w] # "idle", LetsGo(w),
           \A k \in DOMAIN jobs \ {Held(w).job_id} : jobs'[k] = jobs[k]
    PROVE  JQ!Release(w)
<1>1. TablesOK /\ LeasesOK /\ DOMAIN pc = Workers /\ DOMAIN lease = Workers
  BY DEF QueueInv, LeasesOK
<1>2. /\ \A v \in Workers \ {w} : pc'[v] = pc[v] /\ lease'[v] = lease[v]
      /\ pc'[w] = "idle"
  BY <1>1 DEF LetsGo
<1>3. ASSUME NEW v \in Workers \ {w}, pc[v] # "idle"
      PROVE  jobs'[Held(v).job_id].state = jobs[Held(v).job_id].state
  BY <1>1, <1>3, OtherJobs
<1>4. QueuePhase'[w] = "idle"
  BY <1>2, PhaseFacts
<1>5. QueuePhase' = [QueuePhase EXCEPT ![w] = "idle"]
  BY <1>1, <1>2, <1>3, <1>4, PhaseMoves
<1> QED BY <1>5 DEF JQ!Release, LetsGo

\* Every kind of step is a step of the protocol, or none.
LEMMA QueueStepFollows ==
    ASSUME QueueInv, QueueStep, QueueInv', now' = now,
           QueueDelays = Nat, QueueClock = Nat, Ids \subseteq MessageIds
    PROVE  JQ!Next \/ UNCHANGED JQ!vars
<1>1. TablesOK /\ LeasesOK /\ DOMAIN pc = Workers /\ DOMAIN lease = Workers /\ now \in Nat
      /\ now' \in Nat
  BY DEF QueueInv, LeasesOK, TablesOK
<1>2. CASE Quiet \/ (\E a \in Alerts : StoresAlert(a)) \/ \E w \in Workers : \E c : Moves(w, c)
  <2>1. UNCHANGED <<jobs, runs, dead_letters, lease>>
    BY <1>2 DEF Quiet, StoresAlert, Moves
  <2>2. \A v \in Workers : pc[v] = "idle" <=> pc'[v] = "idle"
    <3>1. ASSUME NEW w \in Workers, NEW c, Moves(w, c)
          PROVE  \A v \in Workers : pc[v] = "idle" <=> pc'[v] = "idle"
      <4>1. pc[w] # "idle" /\ c # "idle" /\ pc' = [pc EXCEPT ![w] = c]
        BY <3>1 DEF Moves, CallOf, SubmitCalls
      <4> QED BY <1>1, <4>1
    <3> QED BY <1>2, <3>1 DEF Quiet, StoresAlert
  <2>3. QueuePhase' = QueuePhase
    BY <2>1, <2>2, PhaseStays
  <2> QED BY <2>1, <2>3 DEF JQ!vars
<1>3. ASSUME NEW a \in Alerts, QueuesAlert(a) PROVE JQ!Next
  <2>1. lease' = lease /\ pc' = pc /\ EnqueueJob("research", <<0, a>>)
    BY <1>3 DEF QueuesAlert
  <2>2. \A k \in DOMAIN jobs : jobs'[k] = jobs[k]
    BY <1>1, <1>3, QueuesSound
  <2>3. QueuePhase' = QueuePhase
    BY <1>1, <2>1, <2>2, HeldFacts, PhaseStays
  <2>4. <<0, a>> \in MessageIds
    BY DEF Ids
  <2>5. JQ!Enqueue(<<0, a>>)
    BY <2>1, <2>3, SameTransactions DEF JQ!Enqueue
  <2> QED BY <2>4, <2>5 DEF JQ!Next
<1>4. ASSUME NEW w \in Workers, Quits(w) PROVE JQ!Next
  <2>1. JQ!Release(w)
    BY <1>4, Released DEF Quits
  <2>2. JQ!Crash(w)
    BY <1>4, <2>1, PhaseFacts DEF JQ!Crash, JQ!tables, Quits
  <2> QED BY <2>2 DEF JQ!Next
<1>5. ASSUME NEW w \in Workers, NEW j \in DOMAIN jobs, Takes(w, j) PROVE JQ!Next
  <2>1. /\ jobs'[j].state = "running" /\ \A k \in DOMAIN jobs \ {j} : jobs'[k] = jobs[k]
        /\ jobs[j].state \in {"queued", "retry_wait"}
    BY <1>1, <1>5, TakesSound
  <2>2. /\ pc[w] = "idle" /\ pc'[w] # "idle" /\ IsNextReady(StageOf[w], j) /\ LeaseNextJob(j)
        /\ lease' = [lease EXCEPT ![w] = <<LeaseOf(j)>>]
        /\ \A v \in Workers \ {w} : pc'[v] = pc[v] /\ lease'[v] = lease[v]
    <3>1. StageOf[w] \in {"research", "analysis", "execution", "approval", "outcome"}
      BY WorkerAssumption
    <3>2. FirstCall[StageOf[w]] # "idle"
      BY <3>1 DEF FirstCall
    <3>3. \A v \in Workers \ {w} : pc'[v] = pc[v] /\ lease'[v] = lease[v]
      BY <1>1, <1>5 DEF Takes
    <3>4. pc'[w] = FirstCall[StageOf[w]]
      BY <1>1, <1>5 DEF Takes
    <3> QED BY <1>5, <3>2, <3>3, <3>4 DEF Takes
  <2>3. ASSUME NEW v \in Workers \ {w}, pc[v] # "idle"
        PROVE  jobs'[Held(v).job_id].state = jobs[Held(v).job_id].state
    <3>1. Held(v).job_id \in DOMAIN jobs /\ StateAt(pc[v], jobs[Held(v).job_id].state)
      BY <1>1, <2>3, HeldFacts
    <3>2. jobs[Held(v).job_id].state \in {"running", "succeeded"}
      BY <3>1 DEF StateAt
    <3> QED BY <2>1, <3>1, <3>2
  <2>4. Held(w)'.job_id = j
    BY <1>1, <2>2 DEF Held, LeaseOf
  <2>5. QueuePhase'[w] = "working"
    BY <2>1, <2>2, <2>4 DEF QueuePhase, PhaseOf
  <2>6. QueuePhase' = [QueuePhase EXCEPT ![w] = "working"]
    BY <1>1, <2>2, <2>3, <2>5, PhaseMoves
  <2>7. QueuePhase[w] = "idle"
    BY <2>2, PhaseFacts
  <2>8. JQ!Lease(w)
    BY <2>2, <2>6, <2>7, SameTransactions DEF JQ!Lease
  <2> QED BY <2>8 DEF JQ!Next, JQ!WorkerStep
<1>6. ASSUME NEW w \in Workers, Finishes(w) PROVE JQ!Next
  <2>1. pc[w] # "idle" /\ BeforeCommit(w) /\ LetsGo(w) /\ CompleteJobSuccess(Held(w), <<>>)
    BY <1>6 DEF Finishes, BeforeCommit
  <2>2. JQ!Release(w)
    BY <1>1, <1>6, <2>1, FinishesSound, Released DEF Ended
  <2>3. JQ!CompleteJobSuccess(lease[w][1], <<>>)
    BY <2>1, SameTransactions DEF Held
  <2>4. JQ!Succeed(w, FALSE)
    BY <2>1, <2>2, <2>3, PhaseFacts DEF JQ!Succeed, JQ!NextJob
  <2> QED BY <2>4 DEF JQ!Next, JQ!WorkerStep
<1>7. ASSUME NEW w \in Workers, NEW delay \in Nat, NEW limit \in Nat, Retries(w, delay, limit)
      PROVE  JQ!Next
  <2>1. /\ pc[w] # "idle" /\ LetsGo(w) /\ CompleteJobRetry(Held(w), delay, limit)
        /\ limit \in {MaxAttempts, WaitAttempts}
    BY <1>7 DEF Retries
  <2>2. JQ!Release(w)
    BY <1>1, <1>7, <2>1, RetriesSound, Released DEF Ended
  <2>3. JQ!CompleteJobRetry(lease[w][1], delay, limit)
    BY <2>1, SameTransactions DEF Held
  <2>4. JQ!Retry(w, delay, limit)
    BY <2>1, <2>2, <2>3, PhaseFacts DEF JQ!Retry
  <2> QED BY <2>1, <2>4 DEF JQ!Next, JQ!WorkerStep
<1>8. ASSUME NEW w \in Workers, NEW out, NEW at, Emits(w, out, at) PROVE JQ!Next
  <2> DEFINE next == IF NextStageOf(out) = NoStage \/ IsStored(out.idempotency_key) THEN <<>>
                     ELSE <<[stage |-> NextStageOf(out), message_id |-> out.message_id,
                             available_at |-> at]>>
  <2>1. /\ pc[w] # "idle" /\ BeforeCommit(w) /\ CompleteJobSuccess(Held(w), next)
        /\ StatusOK(out) /\ out.message_id = Run(w) /\ at \in Nat
    BY <1>8 DEF Emits, BeforeCommit, OutputOf
  <2>2. next \in JQ!NextJob
    <3>1. NextStageOf(out) \in Stages \cup {NoStage}
      BY <2>1, NextStageFacts, WorkerAssumption
    <3>2. out.message_id \in MessageIds
      BY <1>1, <2>1, RunFacts
    <3>3. at \in (0 .. now) \cup {now + d : d \in QueueDelays}
      <4>1. CASE at <= now
        BY <1>1, <2>1, <4>1
      <4>2. CASE at > now
        <5>1. at = now + (at - now) /\ at - now \in Nat
          BY <1>1, <2>1, <4>2
        <5> QED BY <5>1
      <4> QED BY <1>1, <2>1, <4>1, <4>2
    <3>4. CASE next = <<>>
      BY <3>4 DEF JQ!NextJob
    <3>5. CASE next # <<>>
      <4>1. NextStageOf(out) \in Stages
        BY <3>1, <3>5
      <4> QED BY <3>2, <3>3, <3>5, <4>1 DEF JQ!NextJob
    <3> QED BY <3>4, <3>5
  <2> HIDE DEF next
  <2>3. JQ!CompleteJobSuccess(lease[w][1], next)
    BY <2>1, SameTransactions DEF Held
  <2>4. Ended(w, {"succeeded"}) /\ QueuePhase[w] = "working"
    BY <1>1, <1>8, <2>1, EmitsSound, PhaseFacts
  <2>5. CASE LetsGo(w)
    <3>1. JQ!Release(w)
      BY <2>1, <2>4, <2>5, Released DEF Ended
    <3>2. JQ!Succeed(w, FALSE)
      BY <2>2, <2>3, <2>4, <3>1 DEF JQ!Succeed
    <3> QED BY <3>2 DEF JQ!Next, JQ!WorkerStep
  <2>6. CASE ~LetsGo(w)
    <3>1. PICK c \in AfterCommit : pc' = [pc EXCEPT ![w] = c]
      BY <1>8, <2>6 DEF Emits
    <3>2. lease' = lease /\ pc'[w] # "idle" /\ \A v \in Workers \ {w} : pc'[v] = pc[v]
      BY <1>1, <1>8, <2>6, <3>1 DEF Emits, AfterCommit
    <3>3. \A v \in Workers \ {w} : pc[v] # "idle" =>
            jobs'[Held(v).job_id].state = jobs[Held(v).job_id].state
      BY <1>1, <2>1, <2>4, OtherJobs DEF Ended
    <3>4. QueuePhase'[w] = "finishing"
      <4>1. jobs'[Held(w)'.job_id].state = "succeeded"
        BY <2>4, <3>2 DEF Ended, Held
      <4> QED BY <3>2, <4>1 DEF QueuePhase, PhaseOf
    <3>5. QueuePhase' = [QueuePhase EXCEPT ![w] = "finishing"]
      BY <1>1, <3>2, <3>3, <3>4, PhaseMoves
    <3>6. JQ!Succeed(w, TRUE)
      BY <2>2, <2>3, <2>4, <3>2, <3>5 DEF JQ!Succeed
    <3> QED BY <3>6 DEF JQ!Next, JQ!WorkerStep
  <2> QED BY <2>5, <2>6
<1> QED BY <1>2, <1>3, <1>4, <1>5, <1>6, <1>7, <1>8 DEF QueueStep

\* FollowsJobQueue: whatever the stages do, to the job tables and leases the
\* pipeline is an implementation of JobQueue, whose delays and clock are not
\* bounded and whose identifiers suffice for every alert and every run.
THEOREM ImplementsJobQueue ==
    ASSUME QueueDelays = Nat, QueueClock = Nat, Ids \subseteq MessageIds
    PROVE  Spec => FollowsJobQueue
<1>1. Init => JQ!Init
  <2> SUFFICES ASSUME Init PROVE JQ!Init
    OBVIOUS
  <2>1. /\ now = 0 /\ jobs = <<>> /\ runs = <<>> /\ dead_letters = <<>>
        /\ lease = [w \in Workers |-> <<>>] /\ pc = [w \in Workers |-> "idle"]
    BY DEF Init, JobInit, WorkerInit
  <2>2. \A w \in Workers : PhaseOf(w) = "idle"
    BY <2>1 DEF PhaseOf
  <2> QED BY <2>1, <2>2 DEF JQ!Init, JQ!JobInit, QueuePhase
<1>2. PipelineInv /\ [Next]_vars => [JQ!Next]_(JQ!vars)
  <2> SUFFICES ASSUME PipelineInv, [Next]_vars PROVE JQ!Next \/ UNCHANGED JQ!vars
    OBVIOUS
  <2>1. QueueStep /\ QueueInv' /\ QueueInv /\ (now' = now \/ Tick) /\ now \in Nat
    BY NextKinds, WorkerKinds, OtherKinds DEF PipelineInv, QueueInv, TablesOK, Next
  <2>2. CASE now' = now
    BY <2>1, <2>2, QueueStepFollows
  <2>3. CASE Tick
    <3>1. now' = now + 1 /\ UNCHANGED <<jobs, runs, dead_letters, lease, pc>>
      BY <2>3 DEF Tick, tables
    <3>2. QueuePhase' = QueuePhase
      BY <3>1, PhaseStays
    <3>3. JQ!Tick
      BY <2>1, <3>1, <3>2 DEF JQ!Tick, JQ!tables
    <3> QED BY <3>3 DEF JQ!Next
  <2> QED BY <2>1, <2>2, <2>3
<1> QED BY <1>1, <1>2, PipelineInvariant, PTL DEF Spec, FollowsJobQueue, JQ!Spec
=============================================================================
