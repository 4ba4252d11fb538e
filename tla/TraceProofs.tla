---------------------------- MODULE TraceProofs ----------------------------
(***************************************************************************)
(* Proofs about the traces of Pipeline: idempotency keys make one report   *)
(* per stage of a trace as long as the analyst does not see a new          *)
(* portfolio snapshot when it tries again, and everything downstream (the  *)
(* jobs, the order, the observations) is then unique too.                  *)
(***************************************************************************)
EXTENDS OrderProofs

-----------------------------------------------------------------------------
(* The invariant, by parts. *)

ParentIs(m, contract) ==
    \E p \in messages : /\ p.message_id = m.parent /\ p.trace_id = m.trace_id
                        /\ p.contract = contract

\* What a message is stored under, and the report it answers.
KeyOK(m) ==
    /\ m.contract = "ResearchReport" =>
         /\ m.idempotency_key = ResearchKey(m.parent) /\ m.stage = "research"
         /\ ParentIs(m, "IngestedAlert")
    /\ m.contract = "AnalysisReport" =>
         /\ \E s \in snapshots : m.idempotency_key = AnalysisKey(m.parent, s)
         /\ m.stage = "analysis" /\ ParentIs(m, "ResearchReport")
    /\ m.status = "awaiting_approval" =>
         m.idempotency_key = ExecutionKey(m.parent) /\ ParentIs(m, "AnalysisReport")
    /\ m.idempotency_key[1] = "research" => m.contract = "ResearchReport"
    /\ m.idempotency_key[1] = "analysis" => m.contract = "AnalysisReport"
KeysOK ==
    /\ \A m \in messages : KeyOK(m)
    /\ ~FreshSnapshots => snapshots \subseteq {<<0, 0>>}
    /\ \A w \in Workers : pc[w] = "analysis" => SnapshotId(w) \in snapshots

\* A research report is analysed at most once.
OneAnalysis ==
    \A m, n \in messages :
        (m.contract = "AnalysisReport" /\ n.contract = "AnalysisReport" /\ m.parent = n.parent)
        => m = n

\* While no call has failed, a job that has its report is not taken up again.
Reported(j) == \E m \in messages : m.contract = "AnalysisReport" /\ m.message_id[1] = j
Analysed(j) == /\ jobs[j].stage = "analysis" /\ jobs[j].state = "succeeded"
               /\ \A w \in Workers : pc[w] # "idle" /\ Held(w).job_id = j => pc[w] = "save_candidates"
AnalysedOnce == FreshSnapshots /\ faults = 0 =>
                  OneAnalysis /\ \A j \in DOMAIN jobs : Reported(j) => Analysed(j)

-----------------------------------------------------------------------------
(* Messages of a trace. *)

LEMMA Contracts ==
    ASSUME QueueInv, NEW m \in messages
    PROVE  /\ m.contract = "IngestedAlert" => m = IngestMessage(m.trace_id)
           /\ NextStageOf(m) = "research" => m.contract = "IngestedAlert"
           /\ NextStageOf(m) = "analysis" => m.contract = "ResearchReport"
           /\ NextStageOf(m) = "execution" => m.contract = "AnalysisReport"
           /\ NextStageOf(m) = "approval" => m.status = "awaiting_approval"
           /\ m.contract # "IngestedAlert" => FromRun(m)
<1>1. CASE m = IngestMessage(m.trace_id)
  <2>1. PICK a \in Alerts : m = IngestMessage(a)
    BY <1>1 DEF QueueInv, MessagesOK
  <2>2. m.contract = "IngestedAlert" /\ NextStageOf(m) = "research"
    BY <2>1, IngestFacts, Zenon
  <2> QED BY <1>1, <2>2
<1>2. CASE FromRun(m)
  BY <1>2, NextStageFacts DEF FromRun
<1> QED BY <1>1, <1>2 DEF QueueInv, MessagesOK

\* The message a worker's job answers, by the stage.
LEMMA StageParent ==
    ASSUME QueueInv, NEW w \in Workers, pc[w] # "idle"
    PROVE  /\ Parent(w) \in messages /\ Parent(w).trace_id = Trace(w)
           /\ StageOf[w] = "research" => Parent(w).contract = "IngestedAlert"
           /\ StageOf[w] = "analysis" => Parent(w).contract = "ResearchReport"
           /\ StageOf[w] = "execution" => Parent(w).contract = "AnalysisReport"
BY ParentFacts, Contracts DEF QueueInv

\* A trace has one message of each kind up to the request for approval.
LEMMA OneOfEach ==
    ASSUME QueueInv, KeysOK, OneAnalysis, NEW m \in messages, NEW n \in messages,
           m.trace_id = n.trace_id
    PROVE  /\ m.contract = n.contract
                 /\ m.contract \in {"IngestedAlert", "ResearchReport", "AnalysisReport"} => m = n
           /\ m.status = "awaiting_approval" /\ n.status = "awaiting_approval" => m = n
<1> DEFINE Single(c) == \A x, y \in messages :
                          x.trace_id = y.trace_id /\ x.contract = c /\ y.contract = c => x = y
<1>1. \A x, y \in messages :
        x.message_id = y.message_id \/ x.idempotency_key = y.idempotency_key => x = y
  BY DEF QueueInv, MessagesOK
<1>2. Single("IngestedAlert")
  BY Contracts
<1>3. Single("ResearchReport")
  <2> SUFFICES ASSUME NEW x \in messages, NEW y \in messages, x.trace_id = y.trace_id,
                      x.contract = "ResearchReport", y.contract = "ResearchReport"
               PROVE  x = y
    OBVIOUS
  <2>1. ParentIs(x, "IngestedAlert") /\ ParentIs(y, "IngestedAlert")
        /\ x.idempotency_key = ResearchKey(x.parent) /\ y.idempotency_key = ResearchKey(y.parent)
    BY DEF KeysOK, KeyOK
  <2>2. x.parent = y.parent
    BY <1>2, <2>1 DEF ParentIs
  <2> QED BY <1>1, <2>1, <2>2
<1>4. Single("AnalysisReport")
  <2> SUFFICES ASSUME NEW x \in messages, NEW y \in messages, x.trace_id = y.trace_id,
                      x.contract = "AnalysisReport", y.contract = "AnalysisReport"
               PROVE  x = y
    OBVIOUS
  <2>1. ParentIs(x, "ResearchReport") /\ ParentIs(y, "ResearchReport")
    BY DEF KeysOK, KeyOK
  <2>2. x.parent = y.parent
    BY <1>3, <2>1 DEF ParentIs
  <2> QED BY <2>2 DEF OneAnalysis
<1>5. ASSUME m.status = "awaiting_approval", n.status = "awaiting_approval" PROVE m = n
  <2>1. ParentIs(m, "AnalysisReport") /\ ParentIs(n, "AnalysisReport")
        /\ m.idempotency_key = ExecutionKey(m.parent) /\ n.idempotency_key = ExecutionKey(n.parent)
    BY <1>5 DEF KeysOK, KeyOK
  <2>2. m.parent = n.parent
    BY <1>4, <2>1 DEF ParentIs
  <2> QED BY <1>1, <2>1, <2>2
<1> QED BY <1>2, <1>3, <1>4, <1>5

LEMMA OnePerStage ==
    ASSUME QueueInv, KeysOK, OneAnalysis, NEW m \in messages, NEW n \in messages,
           m.trace_id = n.trace_id, NextStageOf(m) = NextStageOf(n),
           NextStageOf(m) \in {"research", "analysis", "execution", "approval"}
    PROVE  m = n
BY Contracts, OneOfEach

LEMMA StageJobsOnce ==
    ASSUME QueueInv, KeysOK, OneAnalysis
    PROVE  NoDuplicateStageJobs
<1> SUFFICES ASSUME NEW j \in DOMAIN jobs, NEW k \in DOMAIN jobs, jobs[j].stage = jobs[k].stage,
                    jobs[j].stage # "outcome", TraceOfJob(j) = TraceOfJob(k)
             PROVE  j = k
  BY DEF NoDuplicateStageJobs
<1>1. PICK m \in messages : m.message_id = jobs[j].message_id /\ NextStageOf(m) = jobs[j].stage
  BY DEF QueueInv, HandoffExact
<1>2. PICK n \in messages : n.message_id = jobs[k].message_id /\ NextStageOf(n) = jobs[k].stage
  BY DEF QueueInv, HandoffExact
<1>3. \A x, y \in messages : x.message_id = y.message_id => x = y
  BY DEF QueueInv, MessagesOK
<1>4. MessageOf(jobs[j].message_id) = m /\ MessageOf(jobs[k].message_id) = n
  BY <1>1, <1>2, <1>3 DEF MessageOf
<1>5. m.trace_id = n.trace_id
  BY <1>4 DEF TraceOfJob
<1>6. jobs[j].stage \in Stages
  <2>1. jobs[j] \in RowSet
    BY DEF QueueInv, TablesOK
  <2> QED BY <2>1 DEF RowSet
<1>7. m = n
  BY <1>1, <1>2, <1>5, <1>6, OnePerStage, WorkerAssumption
<1> QED BY <1>1, <1>2, <1>7 DEF QueueInv, TablesOK, Unique

LEMMA OrdersOnce ==
    ASSUME OrderInv, KeysOK, OneAnalysis
    PROVE  OneOrderPerTrace
<1> SUFFICES ASSUME NEW i \in DOMAIN broker, NEW k \in DOMAIN broker,
                    broker[i].client_order_id[1] = broker[k].client_order_id[1]
             PROVE  broker[i].client_order_id = broker[k].client_order_id
  BY DEF OneOrderPerTrace
<1>1. OrdersFor(i) /\ OrdersFor(k) /\ QueueInv
  BY DEF OrderInv, OrdersSpent, PipelineInv
<1>2. PICK m \in messages : /\ NextStageOf(m) = OrderStage
                            /\ broker[i].client_order_id = StableOrderId(m.trace_id, m.candidate)
  BY <1>1 DEF OrdersFor
<1>3. PICK n \in messages : /\ NextStageOf(n) = OrderStage
                            /\ broker[k].client_order_id = StableOrderId(n.trace_id, n.candidate)
  BY <1>1 DEF OrdersFor
<1>4. m.trace_id = n.trace_id
  BY <1>2, <1>3 DEF StableOrderId
<1>5. m = n
  BY <1>1, <1>2, <1>3, <1>4, OnePerStage DEF OrderStage
<1> QED BY <1>2, <1>3, <1>5

-----------------------------------------------------------------------------
(* The keys are kept. *)

LEMMA NewKey ==
    ASSUME QueueInv, KeysOK, NEW w \in Workers, NEW m, OutputFields(w, m), OutputOf(w, m)
    PROVE  KeyOK(m)
<1> DEFINE p == Parent(w)
<1>1. m.parent = p.message_id /\ m.trace_id = Trace(w)
  BY DEF OutputOf
<1>2. ASSUME NEW c, pc[w] # "idle", p.contract = c PROVE ParentIs(m, c)
  <2>1. p \in messages /\ p.trace_id = Trace(w)
    BY <1>2, StageParent
  <2> QED BY <1>1, <1>2, <2>1 DEF ParentIs
<1> HIDE DEF p
<1>3. CASE Analyze(w) /\ m.contract = "ResearchReport"
  <2>1. /\ m.idempotency_key = ResearchKey(p.message_id) /\ m.stage = "research"
        /\ m.status # "awaiting_approval" /\ pc[w] = "analyze"
    BY <1>3, Guards DEF OutputFields, p
  <2>2. StageOf[w] = "research"
    BY <2>1, StageAt DEF CallOf, SubmitCalls
  <2>3. ParentIs(m, "IngestedAlert")
    BY <1>2, <2>1, <2>2, StageParent DEF p
  <2> QED BY <1>1, <1>3, <2>1, <2>3 DEF KeyOK, ResearchKey
<1>4. CASE Analysis(w) /\ m.contract = "AnalysisReport"
  <2>1. /\ m.idempotency_key = AnalysisKey(p.message_id, SnapshotId(w)) /\ m.stage = "analysis"
        /\ m.status # "awaiting_approval" /\ pc[w] = "analysis"
    BY <1>4, Guards DEF OutputFields, p
  <2>2. StageOf[w] = "analysis" /\ SnapshotId(w) \in snapshots
    BY <2>1, StageAt DEF CallOf, SubmitCalls, KeysOK
  <2>3. ParentIs(m, "ResearchReport")
    BY <1>2, <2>1, <2>2, StageParent DEF p
  <2> QED BY <1>1, <1>4, <2>1, <2>2, <2>3 DEF KeyOK, AnalysisKey
<1>5. CASE AwaitApproval(w) /\ m.contract = "ExecutionDecision"
  <2>1. m.idempotency_key = ExecutionKey(p.message_id) /\ pc[w] = "await_approval"
    BY <1>5, Guards DEF OutputFields, p
  <2>2. StageOf[w] = "execution"
    BY <2>1, StageAt DEF CallOf, SubmitCalls
  <2>3. ParentIs(m, "AnalysisReport")
    BY <1>2, <2>1, <2>2, StageParent DEF p
  <2> QED BY <1>1, <1>5, <2>1, <2>3 DEF KeyOK, ExecutionKey
<1>6. CASE /\ m.contract \in {"ExecutionDecision", "OutcomeReport"} /\ m.status # "awaiting_approval"
           /\ m.idempotency_key[1] \notin {"research", "analysis"}
  BY <1>6 DEF KeyOK
<1> QED BY <1>3, <1>4, <1>5, <1>6 DEF OutputFields, ExecutionKey, ApprovalKey, OutcomeKey

LEMMA IngestKeyOK ==
    ASSUME NEW a \in Alerts
    PROVE  KeyOK(IngestMessage(a))
<1>1. /\ IngestMessage(a).contract = "IngestedAlert"
      /\ IngestMessage(a).status # "awaiting_approval"
  BY IngestStatus
<1>2. IngestMessage(a).idempotency_key = <<"scout", a>>
  BY IngestFacts, Zenon
<1> QED BY <1>1, <1>2 DEF KeyOK

LEMMA KeysKept ==
    ASSUME PipelineInv, KeysOK, Goes
    PROVE  KeysOK'
<1>1. QueueInv /\ messages \subseteq messages'
  BY DEF PipelineInv, Goes
<1>2. ASSUME NEW v \in Workers, pc[v] # "idle", pc'[v] = "analysis"
      PROVE  SnapshotId(v)' = SnapshotId(v)
  BY <1>2 DEF Goes, StaysIn, SnapshotId
<1>3. ASSUME NEW w \in Workers, WorkerShape(w) PROVE KeysOK'
  <2>1. Frame(w) /\ Arrival(w) /\ Written(w)
    BY <1>3 DEF WorkerShape
  <2>2. \/ snapshots' = snapshots
        \/ pc[w] = "snapshot" /\ snapshots' = snapshots \cup {SnapshotId(w)}
    BY <2>1 DEF Frame, SavePortfolioSnapshot, At
  <2>3. ~FreshSnapshots => snapshots' \subseteq {<<0, 0>>}
    BY <2>2 DEF KeysOK, SnapshotId
  <2>4. ASSUME NEW v \in Workers, pc'[v] = "analysis" PROVE SnapshotId(v)' \in snapshots'
    <3>1. CASE v # w
      <4>1. pc[v] = "analysis"
        BY <2>1, <2>4, <3>1 DEF Frame
      <4> QED BY <1>2, <2>2, <2>4, <4>1 DEF KeysOK
    <3>2. CASE v = w
      <4>1. pc[w] = "snapshot" /\ SnapshotId(w) \in snapshots'
        BY <2>1, <2>4, <3>2 DEF Arrival, SavePortfolioSnapshot, At
      <4> QED BY <1>2, <2>4, <3>2, <4>1
    <3> QED BY <3>1, <3>2
  <2>5. ASSUME NEW m \in messages' PROVE KeyOK(m)
    BY <1>1, <2>1, NewOutputFields, NewKey DEF KeysOK, Written
  <2>6. \A m \in messages' : KeyOK(m)'
    BY <1>1, <2>2, <2>5 DEF KeyOK, ParentIs
  <2> QED BY <2>3, <2>4, <2>6 DEF KeysOK
<1>4. CASE Aside
  <2>1. pc' = pc /\ snapshots' = snapshots
    BY <1>4 DEF Aside
  <2>2. ASSUME NEW m \in messages' PROVE KeyOK(m)
    BY <1>4, IngestKeyOK DEF KeysOK, Aside
  <2>3. \A m \in messages' : KeyOK(m)'
    BY <1>1, <2>1, <2>2 DEF KeyOK, ParentIs
  <2>4. \A v \in Workers : pc'[v] = "analysis" => SnapshotId(v)' \in snapshots'
    BY <1>2, <2>1 DEF KeysOK
  <2> QED BY <2>1, <2>3, <2>4 DEF KeysOK
<1> QED BY <1>3, <1>4 DEF Goes, StepShape

-----------------------------------------------------------------------------
(* One analysis per research report. *)

\* One provider's snapshot for all jobs: the key is the same on every attempt.
LEMMA SameSnapshot ==
    ASSUME QueueInv, KeysOK, ~FreshSnapshots
    PROVE  OneAnalysis
<1> SUFFICES ASSUME NEW m \in messages, NEW n \in messages, m.contract = "AnalysisReport",
                    n.contract = "AnalysisReport", m.parent = n.parent
             PROVE  m = n
  BY DEF OneAnalysis
<1>1. /\ m.idempotency_key = AnalysisKey(m.parent, <<0, 0>>)
      /\ n.idempotency_key = AnalysisKey(n.parent, <<0, 0>>)
  BY DEF KeysOK, KeyOK
<1> QED BY <1>1 DEF QueueInv, MessagesOK

\* A report is the output of a run of the analysis job of its parent.
LEMMA ReportJob ==
    ASSUME QueueInv, KeysOK, NEW m \in messages, m.contract = "AnalysisReport"
    PROVE  /\ m.message_id[1] \in DOMAIN jobs
           /\ jobs[m.message_id[1]].message_id = m.parent
BY Contracts DEF FromRun

\* A job that has its report stays as it is until its worker is done with it.
LEMMA AnalysedKept ==
    ASSUME PipelineInv, Goes, faults' = 0, NEW j \in DOMAIN jobs, Analysed(j)
    PROVE  j \in DOMAIN jobs' /\ Analysed(j)'
<1>1. QueueInv /\ QueueInv' /\ QueueStep /\ now' \in Nat /\ faults \in Nat
  BY WorkerAssumption DEF PipelineInv, BudgetOK, Goes
<1>2. /\ \/ jobs'[j] = jobs[j]
         \/ \E v \in Workers : pc[v] # "idle" /\ Held(v).job_id = j /\ pc'[v] # pc[v]
      /\ \A v \in Workers : pc'[v] # "idle" /\ Held(v)'.job_id = j =>
                              pc[v] # "idle" /\ Held(v).job_id = j
  BY <1>1, RowShift DEF Analysed
<1>3. j \in DOMAIN jobs'
  <2>1. DOMAIN jobs \subseteq DOMAIN jobs'
    BY <1>1, KeptRows DEF RowsKept
  <2> QED BY <2>1
<1>4. ASSUME NEW w \in Workers, WorkerShape(w), pc[w] # "idle", Held(w).job_id = j
      PROVE  jobs' = jobs /\ pc'[w] = "idle"
  <2>1. pc[w] = "save_candidates" /\ DOMAIN pc = Workers
    BY <1>1, <1>4 DEF Analysed, QueueInv, LeasesOK
  <2>2. ~Fault(w)
    BY <1>1 DEF Fault
  <2>3. Crash(w) \/ SaveAnalysisCandidates(w)
    BY <1>4, <2>1, <2>2 DEF WorkerShape, Departure
  <2> QED BY <2>1, <2>3 DEF Crash, SaveAnalysisCandidates, Leave, tables
<1>5. CASE \E w \in Workers : WorkerShape(w)
  <2>1. PICK w \in Workers : WorkerShape(w)
    BY <1>5
  <2>2. \A v \in Workers \ {w} : pc'[v] = pc[v]
    BY <2>1 DEF WorkerShape, Frame
  <2>3. jobs'[j] = jobs[j]
    BY <1>2, <1>4, <2>1, <2>2
  <2>4. \A v \in Workers : pc'[v] # "idle" /\ Held(v)'.job_id = j => pc'[v] = "save_candidates"
    BY <1>2, <1>4, <2>1, <2>2 DEF Analysed
  <2> QED BY <1>3, <2>3, <2>4 DEF Analysed
<1>6. CASE Aside
  <2>1. pc' = pc
    BY <1>6 DEF Aside
  <2>2. jobs'[j] = jobs[j]
    BY <1>2, <2>1
  <2>3. \A v \in Workers : pc'[v] # "idle" /\ Held(v)'.job_id = j => pc'[v] = "save_candidates"
    BY <1>2, <2>1 DEF Analysed
  <2> QED BY <1>3, <2>2, <2>3 DEF Analysed
<1> QED BY <1>5, <1>6 DEF Goes, StepShape

LEMMA AnalysisDone ==
    ASSUME PipelineInv, Goes, NEW w \in Workers, Analysis(w), NEW j, j = Run(w)[1]
    PROVE  /\ j \in DOMAIN jobs /\ jobs[j].state = "running" /\ jobs[j].stage = "analysis"
           /\ jobs[j].message_id = Parent(w).message_id /\ Analysed(j)'
<1>1. /\ QueueInv /\ QueueInv' /\ QueueStep /\ now' \in Nat /\ TablesOK /\ LeasesOK /\ MessagesOK
      /\ HandoffExact /\ DOMAIN pc = Workers
  BY DEF PipelineInv, Goes, QueueInv, LeasesOK
<1>2. /\ pc[w] = "analysis" /\ \E status \in {"pass", "reject"} : Emits(w, AnalysisOutput(w, status), now)
  BY <1>1, AnalysisEmits
<1>3. Held(w).job_id = j
  BY <1>1, <1>2, RunFacts
<1>4. pc'[w] = "save_candidates"
  BY <1>1 DEF Analysis, Goto
<1>5. /\ j \in DOMAIN jobs /\ jobs[j].state = "running" /\ jobs[j].stage = StageOf[w]
      /\ jobs[j].message_id = Held(w).message_id
  BY <1>1, <1>2, <1>3, HeldFacts DEF StateAt, AfterCommit
<1>6. StageOf[w] = "analysis"
  BY <1>1, <1>2, StageAt DEF CallOf, SubmitCalls
<1>7. Parent(w).message_id = Held(w).message_id
  BY <1>1, <1>2, ParentFacts
<1>8. RowsKept /\ Ended(w, {"succeeded"})
  BY <1>1, <1>2, EmitsSound DEF Sound
<1>9. jobs'[j].state = "succeeded" /\ jobs'[j].stage = "analysis"
  BY <1>5, <1>6, <1>8, <1>3 DEF Ended, RowsKept
<1>10. ASSUME NEW v \in Workers, pc'[v] # "idle", Held(v)'.job_id = j PROVE pc'[v] = "save_candidates"
  <2>1. pc[v] # "idle" /\ Held(v).job_id = j
    BY <1>1, <1>5, <1>10, RowShift
  <2>2. v = w
    BY <1>1, <1>2, <1>3, <2>1, OtherJobs
  <2> QED BY <1>4, <2>2
<1> QED BY <1>5, <1>6, <1>7, <1>9, <1>10 DEF Analysed

\* The step that stores a report is that of an analyst.
LEMMA NewReport ==
    ASSUME Goes, NEW m \in messages' \ messages, m.contract = "AnalysisReport"
    PROVE  \E w \in Workers : Analysis(w) /\ m.message_id = Run(w) /\ m.parent = Parent(w).message_id
                              /\ \A n \in messages' \ messages : n.message_id = Run(w)
<1>1. ~Aside
  BY IngestStatus DEF Aside
<1>2. PICK w \in Workers : WorkerShape(w)
  BY <1>1 DEF Goes, StepShape
<1>3. \A n \in messages' \ messages : OutputFields(w, n) /\ OutputOf(w, n)
  BY <1>2, NewOutputFields DEF WorkerShape, Written
<1>4. Analysis(w)
  BY <1>3 DEF OutputFields
<1> QED BY <1>3, <1>4 DEF OutputOf

LEMMA AnalysedOnceKept ==
    ASSUME PipelineInv, KeysOK, AnalysedOnce, Goes
    PROVE  AnalysedOnce'
<1> SUFFICES ASSUME FreshSnapshots, faults' = 0
             PROVE  OneAnalysis' /\ \A j \in DOMAIN jobs' : Reported(j)' => Analysed(j)'
  BY DEF AnalysedOnce
<1>1. QueueInv /\ QueueInv' /\ faults \in Nat /\ messages \subseteq messages'
  BY WorkerAssumption DEF PipelineInv, BudgetOK, Goes
<1>2. OneAnalysis /\ \A j \in DOMAIN jobs : Reported(j) => Analysed(j)
  <2>1. faults = 0
    BY <1>1 DEF Goes, StepShape, WorkerShape, Frame, Fault, Aside
  <2> QED BY <2>1 DEF AnalysedOnce
<1>3. ASSUME NEW m \in messages, m.contract = "AnalysisReport"
      PROVE  /\ m.message_id[1] \in DOMAIN jobs /\ Analysed(m.message_id[1])
             /\ jobs[m.message_id[1]].message_id = m.parent
  BY <1>1, <1>2, <1>3, ReportJob DEF Reported
<1>4. ASSUME NEW m \in messages, NEW n \in messages' \ messages, m.contract = "AnalysisReport",
             n.contract = "AnalysisReport"
      PROVE  m.parent # n.parent
  <2>1. PICK w \in Workers : Analysis(w) /\ n.parent = Parent(w).message_id
    BY <1>4, NewReport
  <2>2. PICK j : j = Run(w)[1]
    OBVIOUS
  <2>3. /\ j \in DOMAIN jobs /\ jobs[j].state = "running" /\ jobs[j].stage = "analysis"
        /\ jobs[j].message_id = n.parent
    BY <2>1, <2>2, AnalysisDone
  <2> QED BY <1>1, <1>3, <1>4, <2>3 DEF Analysed, QueueInv, TablesOK, Unique
<1>5. OneAnalysis'
  <2> SUFFICES ASSUME NEW m \in messages', NEW n \in messages', m.contract = "AnalysisReport",
                      n.contract = "AnalysisReport", m.parent = n.parent
               PROVE  m = n
    BY DEF OneAnalysis
  <2>1. CASE m \in messages /\ n \in messages
    BY <1>2, <2>1 DEF OneAnalysis
  <2>2. CASE m \notin messages /\ n \notin messages
    <3>1. m.message_id = n.message_id
      BY <2>2, NewReport
    <3> QED BY <1>1, <3>1 DEF QueueInv, MessagesOK
  <2> QED BY <1>4, <2>1, <2>2
<1>6. ASSUME NEW j \in DOMAIN jobs', Reported(j)' PROVE Analysed(j)'
  <2>1. PICK m \in messages' : m.contract = "AnalysisReport" /\ m.message_id[1] = j
    BY <1>6 DEF Reported
  <2>2. CASE m \in messages
    BY <1>3, <2>1, <2>2, AnalysedKept
  <2>3. CASE m \notin messages
    <3>1. PICK w \in Workers : Analysis(w) /\ m.message_id = Run(w)
      BY <2>1, <2>3, NewReport
    <3> QED BY <2>1, <3>1, AnalysisDone
  <2> QED BY <2>2, <2>3
<1> QED BY <1>5, <1>6

\* With one snapshot for all jobs, or while no call has failed.
LEMMA Once ==
    ASSUME QueueInv, KeysOK, AnalysedOnce, ~FreshSnapshots \/ faults = 0
    PROVE  OneAnalysis
BY SameSnapshot DEF AnalysedOnce

-----------------------------------------------------------------------------
(* Observations. *)

\* The rows still to be saved by a worker are of horizons its trace has no
\* row of; a row still to be updated is there, observed meanwhile or not.
Like(p, o) == /\ p.saved_by = o.saved_by /\ p.trace_id = o.trace_id
              /\ p.horizon = o.horizon /\ p.scheduled_for = o.scheduled_for
Unscheduled(w) == \A o \in observations : o.trace_id = Trace(w) => o.horizon \notin mem[w].todo
DueRows(w) == \A o \in mem[w].todo : o.observed = FALSE /\ \E p \in observations : Like(p, o)
ScheduledOK ==
    /\ OneObservationPerHorizon
    /\ \A w \in Workers : /\ pc[w] = "save_observation" => Unscheduled(w)
                          /\ pc[w] = "update_observation" => DueRows(w)

\* No two workers submit the order of one trace.
LEMMA OneSubmitter ==
    ASSUME QueueInv, ModeOK, KeysOK, OneAnalysis, NEW v \in Workers, NEW w \in Workers,
           pc[v] \in SubmitCalls, pc[w] \in SubmitCalls, Trace(v) = Trace(w)
    PROVE  v = w
<1>1. TablesOK /\ LeasesOK /\ MessagesOK /\ HandoffExact /\ pc[v] # "idle" /\ pc[w] # "idle"
  BY DEF QueueInv, SubmitCalls
<1>2. StageOf[v] = OrderStage /\ StageOf[w] = OrderStage
  BY DEF ModeOK
<1>3. /\ Parent(v) \in messages /\ Parent(w) \in messages
      /\ Parent(v).trace_id = Parent(w).trace_id
      /\ NextStageOf(Parent(v)) = OrderStage /\ NextStageOf(Parent(w)) = OrderStage
      /\ Parent(v).message_id = Held(v).message_id /\ Parent(w).message_id = Held(w).message_id
  BY <1>1, <1>2, ParentFacts
<1>4. Parent(v) = Parent(w)
  BY <1>3, OnePerStage DEF OrderStage
<1>5. /\ Held(v).job_id \in DOMAIN jobs /\ Held(w).job_id \in DOMAIN jobs
      /\ jobs[Held(v).job_id].stage = jobs[Held(w).job_id].stage
      /\ jobs[Held(v).job_id].message_id = jobs[Held(w).job_id].message_id
  BY <1>1, <1>2, <1>3, <1>4, HeldFacts
<1>6. Held(v).job_id = Held(w).job_id
  BY <1>1, <1>5 DEF TablesOK, Unique
<1> QED BY <1>1, <1>6, OtherJobs

\* What a step of w does to the rows: it saves one of a horizon that is left,
\* or marks one, and every row stays apart from that mark.
RowsStep(w) ==
    /\ OneObservationPerHorizon'
    /\ \A p \in observations : \E q \in observations' : Like(q, p)
    /\ \A q \in observations' : \/ \E p \in observations : Like(q, p)
                                \/ pc[w] = "save_observation" /\ q.trace_id = Trace(w)

LEMMA SavedRow ==
    ASSUME QueueInv, ObservationsOK, ScheduledOK, NEW w \in Workers, SaveObservation(w),
           pc'[w] # "idle" => StaysIn(w)
    PROVE  RowsStep(w) /\ (pc'[w] = "save_observation" => Unscheduled(w)')
<1>1. pc[w] = "save_observation" /\ Unscheduled(w)
  BY DEF SaveObservation, At, ScheduledOK
<1>2. PICK h \in mem[w].todo :
        /\ mem[w] \in HorizonsToDo
        /\ LET row == [saved_by |-> Run(w), trace_id |-> Trace(w), horizon |-> h,
                       scheduled_for |-> mem[w].at + h, observed |-> FALSE]
           IN observations' = observations \cup {row} /\ row \in ObservationSet
        /\ pc'[w] = "save_observation" => mem'[w] = [mem[w] EXCEPT !.todo = mem[w].todo \ {h}]
  BY ObservationSaved
<1>3. PICK row \in ObservationSet : /\ observations' = observations \cup {row}
                                    /\ row.trace_id = Trace(w) /\ row.horizon = h
  BY <1>2
<1>4. OneObservationPerHorizon'
  BY <1>1, <1>2, <1>3 DEF OneObservationPerHorizon, ScheduledOK, Unscheduled
<1>5. RowsStep(w)
  BY <1>1, <1>3, <1>4 DEF RowsStep, Like
<1>6. ASSUME pc'[w] = "save_observation" PROVE Unscheduled(w)'
  <2>1. mem'[w].todo = mem[w].todo \ {h}
    BY <1>2, <1>6 DEF HorizonsToDo
  <2>2. Trace(w)' = Trace(w)
    BY <1>6 DEF StaysIn
  <2> QED BY <1>1, <1>3, <2>1, <2>2 DEF Unscheduled
<1> QED BY <1>5, <1>6

LEMMA MarkedRow ==
    ASSUME QueueInv, ObservationsOK, ScheduledOK, NEW w \in Workers, UpdateObservation(w)
    PROVE  RowsStep(w) /\ mem'[w].todo \subseteq mem[w].todo
<1>1. pc[w] = "update_observation" /\ DueRows(w) /\ observations \subseteq ObservationSet
  BY DEF UpdateObservation, At, ScheduledOK, ObservationsOK
<1>2. PICK o \in mem[w].todo :
        /\ o \in ObservationSet /\ [o EXCEPT !.observed = TRUE] \in ObservationSet
        /\ observations' = (observations \ {o}) \cup {[o EXCEPT !.observed = TRUE]}
        /\ mem'[w].todo = mem[w].todo \ {o}
  BY ObservationUpdated
<1>3. PICK u \in ObservationSet : /\ observations' = (observations \ {o}) \cup {u} /\ Like(u, o)
                                  /\ u = [o EXCEPT !.observed = TRUE] /\ u.observed = TRUE
  BY <1>2 DEF Like, ObservationSet
<1>4. PICK p \in observations : Like(p, o)
  BY <1>1 DEF DueRows
<1>5. p = o \/ p = u
  <2>1. p.observed \in BOOLEAN /\ o.observed = FALSE
    BY <1>1 DEF DueRows, ObservationSet
  <2>2. p \in ObservationSet
    BY <1>1
  <2> QED BY <1>2, <1>3, <1>4, <2>1, <2>2 DEF Like, ObservationSet
<1>6. OneObservationPerHorizon'
  <2>1. u.trace_id = p.trace_id /\ u.horizon = p.horizon
    BY <1>3, <1>4 DEF Like
  <2>2. \A x \in observations : x.trace_id = p.trace_id /\ x.horizon = p.horizon => x = p
    BY DEF OneObservationPerHorizon, ScheduledOK
  <2>3. \A x \in observations' : x.trace_id = u.trace_id /\ x.horizon = u.horizon => x = u
    BY <1>3, <1>5, <2>1, <2>2
  <2>4. \A x, y \in observations : x.trace_id = y.trace_id /\ x.horizon = y.horizon => x = y
    BY DEF OneObservationPerHorizon, ScheduledOK
  <2>5. \A x, y \in observations' : x.trace_id = y.trace_id /\ x.horizon = y.horizon => x = y
    <3> SUFFICES ASSUME NEW x \in observations', NEW y \in observations',
                        x.trace_id = y.trace_id, x.horizon = y.horizon
                 PROVE  x = y
      OBVIOUS
    <3>1. CASE x = u \/ y = u
      BY <2>3, <3>1
    <3>2. CASE x \in observations /\ y \in observations
      BY <2>4, <3>2
    <3> QED BY <1>3, <3>1, <3>2
  <2> QED BY <2>5 DEF OneObservationPerHorizon
<1>7. RowsStep(w)
  BY <1>3, <1>4, <1>6 DEF RowsStep, Like
<1> QED BY <1>2, <1>7

LEMMA ScheduledKept ==
    ASSUME PipelineInv, ModeOK, KeysOK, OneAnalysis, ScheduledOK, Goes
    PROVE  ScheduledOK'
<1>1. QueueInv /\ ObservationsOK /\ DOMAIN pc = Workers /\ DOMAIN mem = Workers
  BY DEF PipelineInv, QueueInv, LeasesOK, ObservationsOK
<1>2. ASSUME NEW w \in Workers, WorkerShape(w) PROVE ScheduledOK'
  <2>1. Frame(w) /\ Arrival(w) /\ (pc[w] # "idle" /\ pc'[w] # "idle" => StaysIn(w))
    BY <1>2 DEF WorkerShape, Goes
  <2>2. RowsStep(w)
    <3>1. CASE observations' = observations
      BY <3>1 DEF RowsStep, ScheduledOK, OneObservationPerHorizon, Like
    <3>2. CASE SaveObservation(w)
      BY <1>1, <2>1, <3>2, SavedRow, Guards
    <3>3. CASE UpdateObservation(w)
      BY <1>1, <3>3, MarkedRow
    <3> QED BY <2>1, <3>1, <3>2, <3>3 DEF Frame
  <2>3. ASSUME NEW v \in Workers, pc'[v] = "save_observation" PROVE Unscheduled(v)'
    <3>1. CASE v # w
      <4>1. pc[v] = "save_observation" /\ mem'[v] = mem[v]
        BY <2>1, <2>3, <3>1 DEF Frame
      <4>2. StaysIn(v)
        BY <2>3, <4>1 DEF Goes
      <4>3. pc[w] = "save_observation" => Trace(v) # Trace(w)
        BY <1>1, <3>1, <4>1, OneSubmitter DEF SubmitCalls
      <4>4. \A o \in observations : o.trace_id = Trace(v) => o.horizon \notin mem[v].todo
        BY <4>1 DEF ScheduledOK, Unscheduled
      <4>5. \A o \in observations' : o.trace_id = Trace(v) => o.horizon \notin mem[v].todo
        BY <2>2, <4>3, <4>4 DEF RowsStep, Like
      <4> QED BY <4>1, <4>2, <4>5 DEF Unscheduled, StaysIn
    <3>2. CASE v = w /\ SaveObservation(w)
      BY <1>1, <2>1, <2>3, <3>2, SavedRow, Guards
    <3>3. CASE v = w /\ ListObservations(w)
      <4>1. pc[w] = "list_observations" /\ ~Leave(w)
        BY <1>1, <2>3, <3>3, Guards DEF Leave
      <4>2. ObservationsOf(Trace(w)) = {} /\ observations' = observations
        BY <3>3, <4>1 DEF ListObservations, records
      <4>3. Trace(w)' = Trace(w)
        BY <2>1, <2>3, <3>3, <4>1 DEF StaysIn
      <4> QED BY <3>3, <4>2, <4>3 DEF Unscheduled, ObservationsOf
    <3> QED BY <2>1, <2>3, <3>1, <3>2, <3>3 DEF Arrival
  <2>4. ASSUME NEW v \in Workers, pc'[v] = "update_observation" PROVE DueRows(v)'
    <3>1. ASSUME pc[v] = "update_observation", mem'[v].todo \subseteq mem[v].todo PROVE DueRows(v)'
      <4>1. \A o \in mem'[v].todo : o.observed = FALSE /\ \E p \in observations : Like(p, o)
        BY <3>1 DEF ScheduledOK, DueRows
      <4>2. \A o \in mem'[v].todo : o.observed = FALSE /\ \E p \in observations' : Like(p, o)
        BY <2>2, <4>1 DEF RowsStep, Like
      <4> QED BY <4>2 DEF DueRows
    <3>2. CASE v # w
      BY <2>1, <2>4, <3>1, <3>2 DEF Frame
    <3>3. CASE v = w /\ UpdateObservation(w)
      BY <1>1, <3>1, <3>3, MarkedRow, Guards
    <3>4. CASE v = w /\ ReadDue(w)
      <4>1. mem'[w] = [NoLocals EXCEPT !.todo = DueNow(Trace(w))] /\ observations' = observations
        BY <1>1, <3>4 DEF ReadDue, GotoWith, records
      <4>2. mem'[w].todo = DueNow(Trace(w))
        BY <4>1, LocalsSet
      <4>3. \A o \in DueNow(Trace(w)) : o \in observations /\ o.observed = FALSE
        BY <1>1 DEF DueNow, Pending, ObservationsOf, ObservationsOK, ObservationSet
      <4> QED BY <3>4, <4>1, <4>2, <4>3 DEF DueRows, Like
    <3> QED BY <2>1, <2>4, <3>2, <3>3, <3>4 DEF Arrival
  <2> QED BY <2>2, <2>3, <2>4 DEF ScheduledOK, RowsStep
<1>3. CASE Aside
  <2>1. pc' = pc /\ mem' = mem /\ observations' = observations
    BY <1>3 DEF Aside
  <2>2. \A v \in Workers : pc[v] # "idle" => Trace(v)' = Trace(v)
    BY <2>1 DEF Goes, StaysIn
  <2> QED BY <2>1, <2>2 DEF ScheduledOK, OneObservationPerHorizon, Unscheduled, DueRows, Like
<1> QED BY <1>2, <1>3 DEF Goes, StepShape

-----------------------------------------------------------------------------
(* Evidence and candidates. *)

\* The two stages that save records after the commit, by their table.
Sides == {"research", "analysis"}
Batch(s) == IF s = "research" THEN evidence ELSE candidates
ReportOf(s) == IF s = "research" THEN "ResearchReport" ELSE "AnalysisReport"
SideCall(s) == IF s = "research" THEN "save_evidence" ELSE "save_candidates"
SideKey(s, w) == IF s = "research" THEN ResearchKey(Parent(w).message_id)
                 ELSE AnalysisKey(Parent(w).message_id, SnapshotId(w))

\* Job j has ended well, and nobody is busy with it any more.
Over(j, s) == jobs[j].stage = s /\ jobs[j].state = "succeeded" /\ ~Busy(j)
OverFor(s, id) == \E j \in DOMAIN jobs : Over(j, s) /\ jobs[j].message_id = id
SavedFor(s, i, id) == \E m \in messages : /\ m.message_id = Batch(s)[i] /\ m.contract = ReportOf(s)
                                          /\ m.parent = id

\* A batch belongs to the report of a job that is over, no report has two, and
\* while no process died every job that is over has its batch.
SideOK(s) ==
    /\ Batch(s) \in Seq(Ids)
    /\ \A i \in DOMAIN Batch(s) : \E id : SavedFor(s, i, id) /\ OverFor(s, id)
    /\ \A i, k \in DOMAIN Batch(s) : Batch(s)[i] = Batch(s)[k] => i = k
    /\ crashes = 0 => \A j \in DOMAIN jobs :
         Over(j, s) => \E i \in DOMAIN Batch(s) : SavedFor(s, i, jobs[j].message_id)
    /\ \A w \in Workers : pc[w] = SideCall(s) => IsStored(SideKey(s, w))

LEMMA BusyIff ==
    ASSUME QueueInv, NEW j
    PROVE  Busy(j) <=> \E w \in Workers : pc[w] # "idle" /\ Held(w).job_id = j
BY IdleIffFree DEF QueueInv, Busy, Holds

LEMMA FreeAfter ==
    ASSUME LeasesOK', NEW w \in Workers
    PROVE  lease'[w] # <<>> <=> pc'[w] # "idle"
<1>1. LeaseOK(w)'
  BY DEF LeasesOK
<1>2. \A s : ~CallOf(s, "idle")
  BY DEF CallOf, SubmitCalls
<1>3. \A x : <<x>> # <<>>
  OBVIOUS
<1> QED BY <1>1, <1>2, <1>3, Zenon DEF LeaseOK

\* What is over stays over.
LEMMA OverKept ==
    ASSUME QueueInv, QueueStep, QueueInv', now' \in Nat, NEW j \in DOMAIN jobs, NEW s, Over(j, s)
    PROVE  j \in DOMAIN jobs' /\ jobs'[j] = jobs[j] /\ Over(j, s)'
<1>1. \A w \in Workers : ~(pc[w] # "idle" /\ Held(w).job_id = j)
  BY BusyIff DEF Over
<1>2. /\ jobs'[j] = jobs[j]
      /\ \A v \in Workers : ~(pc'[v] # "idle" /\ Held(v)'.job_id = j)
  BY <1>1, RowShift DEF Over
<1>3. ~Busy(j)'
  <2>1. Busy(j)' <=> \E w \in Workers : pc'[w] # "idle" /\ Held(w)'.job_id = j
    BY FreeAfter DEF QueueInv, Busy
  <2> QED BY <1>2, <2>1
<1>4. j \in DOMAIN jobs'
  BY KeptRows DEF RowsKept
<1> QED BY <1>2, <1>3, <1>4 DEF Over

\* What is over was over, or its worker just left.
LEMMA OverBefore ==
    ASSUME QueueInv, QueueStep, QueueInv', now' \in Nat, NEW j \in DOMAIN jobs', NEW s, Over(j, s)'
    PROVE  /\ j \in DOMAIN jobs /\ jobs'[j].message_id = jobs[j].message_id /\ jobs[j].stage = s
           /\ \/ Over(j, s)
              \/ \E w \in Workers : pc[w] # "idle" /\ Held(w).job_id = j /\ pc'[w] = "idle"
<1>1. TablesOK /\ LeasesOK /\ now' \in Nat /\ RowsKept
  BY KeptRows DEF QueueInv
<1>2. jobs'[j].state = "succeeded" /\ ~Busy(j)' /\ jobs'[j].stage = s
  BY DEF Over
<1>3. ASSUME \/ j \notin DOMAIN jobs
             \/ j \in DOMAIN jobs /\ jobs[j].state # "succeeded"
      PROVE  j \in DOMAIN jobs /\ \E w \in Workers : pc[w] # "idle" /\ Held(w).job_id = j
  <2>1. CASE Quiet \/ \E a \in Alerts : StoresAlert(a)
    BY <1>2, <1>3, <2>1 DEF Quiet, StoresAlert
  <2>2. ASSUME NEW a \in Alerts, QueuesAlert(a) PROVE FALSE
    <3>1. /\ \A k \in DOMAIN jobs : jobs'[k] = jobs[k]
          /\ \A k \in DOMAIN jobs' \ DOMAIN jobs : jobs'[k] = NewJob("research", <<0, a>>, now)
      BY <1>1, <2>2, QueuesSound
    <3>2. NewJob("research", <<0, a>>, now).state = "queued"
      BY DEF NewJob
    <3> QED BY <1>2, <1>3, <3>1, <3>2
  <2>3. ASSUME NEW w \in Workers, (\E c : Moves(w, c)) \/ Quits(w) PROVE FALSE
    BY <1>2, <1>3, <2>3 DEF Moves, Quits
  <2>4. ASSUME NEW w \in Workers, NEW k \in DOMAIN jobs, Takes(w, k) PROVE FALSE
    BY <1>1, <1>2, <1>3, <2>4, TakesSound
  <2>5. ASSUME NEW w \in Workers, Ended(w, {"succeeded"}) \/ Ended(w, {"retry_wait", "dead_letter"}),
               pc[w] # "idle", j \in DOMAIN jobs
        PROVE  pc[w] # "idle" /\ Held(w).job_id = j
    BY <1>2, <1>3, <2>5 DEF Ended
  <2>6. ASSUME NEW w \in Workers, Finishes(w) PROVE Ended(w, {"succeeded"}) /\ pc[w] # "idle" /\ j \in DOMAIN jobs
    BY <1>1, <2>6, FinishesSound DEF Finishes, BeforeCommit
  <2>7. ASSUME NEW w \in Workers, NEW d \in Nat, NEW l \in Nat, Retries(w, d, l)
        PROVE  Ended(w, {"retry_wait", "dead_letter"}) /\ pc[w] # "idle" /\ j \in DOMAIN jobs
    BY <1>1, <2>7, RetriesSound DEF Retries
  <2>8. ASSUME NEW w \in Workers, NEW out, NEW at, Emits(w, out, at)
        PROVE  Ended(w, {"succeeded"}) /\ pc[w] # "idle" /\ j \in DOMAIN jobs
    BY <1>1, <1>2, <2>8, EmitsSound DEF Emits, BeforeCommit, Handed
  <2> QED BY <2>1, <2>2, <2>3, <2>4, <2>5, <2>6, <2>7, <2>8 DEF QueueStep
<1>4. j \in DOMAIN jobs /\ jobs'[j].message_id = jobs[j].message_id /\ jobs[j].stage = s
  BY <1>1, <1>2, <1>3 DEF RowsKept
<1>5. ASSUME NEW w \in Workers, pc[w] # "idle", Held(w).job_id = j PROVE pc'[w] = "idle"
  <2> SUFFICES ASSUME pc'[w] # "idle" PROVE FALSE
    OBVIOUS
  <2>1. Held(w)'.job_id = j
    BY <1>5, LeaseStays DEF StaysIn
  <2>2. lease'[w] # <<>>
    BY FreeAfter DEF QueueInv
  <2> QED BY <1>2, <2>1, <2>2 DEF Busy
<1> QED BY <1>2, <1>3, <1>4, <1>5, BusyIff DEF Over

\* complete_job_success returns a report, whether it stored it or found it.
LEMMA StoredKept ==
    ASSUME PipelineInv, Goes, NEW s \in Sides, SideOK(s), NEW v \in Workers, pc'[v] = SideCall(s)
    PROVE  IsStored(SideKey(s, v))'
<1>1. QueueInv /\ TablesOK /\ LeasesOK /\ now' \in Nat /\ messages \subseteq messages'
  BY DEF PipelineInv, Goes, QueueInv
<1>2. ASSUME pc[v] # "idle" PROVE SideKey(s, v)' = SideKey(s, v)
  <2>1. StaysIn(v)
    BY <1>2 DEF Goes, SideCall
  <2> QED BY <2>1 DEF StaysIn, SideKey, SnapshotId
<1>3. ASSUME pc[v] = SideCall(s) PROVE IsStored(SideKey(s, v))'
  <2>1. \E m \in messages : m.idempotency_key = SideKey(s, v)
    BY <1>3 DEF SideOK, IsStored
  <2>2. SideKey(s, v)' = SideKey(s, v)
    BY <1>2, <1>3 DEF SideCall
  <2> QED BY <1>1, <2>1, <2>2 DEF IsStored
<1>4. ASSUME NEW out, Emits(v, out, now), out.idempotency_key = SideKey(s, v)
      PROVE  IsStored(SideKey(s, v))'
  <2>1. Handed(out)
    BY <1>1, <1>4, EmitsSound
  <2>2. \E m \in messages' : m.idempotency_key = SideKey(s, v)
    BY <1>1, <1>4, <2>1 DEF Handed, IsStored
  <2>3. SideKey(s, v)' = SideKey(s, v)
    BY <1>2, <1>4 DEF Emits, BeforeCommit
  <2> QED BY <2>2, <2>3 DEF IsStored
<1>5. ASSUME WorkerShape(v) PROVE IsStored(SideKey(s, v))'
  <2>1. CASE s = "research"
    <3>1. Analyze(v)
      BY <1>5, <2>1 DEF WorkerShape, Arrival, SideCall
    <3>2. PICK verdict \in ResearchVerdicts : Emits(v, ResearchOut(v, verdict), now)
      BY <1>1, <3>1, AnalyzeEmits
    <3>3. ResearchOut(v, verdict).idempotency_key = SideKey(s, v)
      BY <2>1 DEF ResearchOut, Message, SideKey
    <3> QED BY <1>4, <3>2, <3>3
  <2>2. CASE s = "analysis"
    <3>1. Analysis(v)
      BY <1>5, <2>2 DEF WorkerShape, Arrival, SideCall
    <3>2. PICK status \in {"pass", "reject"} : Emits(v, AnalysisOutput(v, status), now)
      BY <1>1, <3>1, AnalysisEmits
    <3>3. AnalysisOutput(v, status).idempotency_key = SideKey(s, v)
      BY <2>2 DEF AnalysisOutput, Message, SideKey
    <3> QED BY <1>4, <3>2, <3>3
  <2> QED BY <2>1, <2>2 DEF Sides
<1> QED BY <1>3, <1>5 DEF Goes, StepShape, WorkerShape, Frame, Aside

\* Whatever the step, a batch that is there stays the batch of its report.
LEMMA SavedKept ==
    ASSUME PipelineInv, Goes, NEW s \in Sides, SideOK(s), NEW i \in DOMAIN Batch(s),
           Batch(s)'[i] = Batch(s)[i]
    PROVE  /\ \E id : SavedFor(s, i, id)' /\ OverFor(s, id)'
           /\ \A id : SavedFor(s, i, id) => SavedFor(s, i, id)'
<1>1. QueueInv /\ QueueInv' /\ QueueStep /\ now' \in Nat /\ messages \subseteq messages'
  BY DEF PipelineInv, Goes
<1>2. \A id : SavedFor(s, i, id) => SavedFor(s, i, id)'
  BY <1>1 DEF SavedFor
<1>3. PICK id : SavedFor(s, i, id) /\ OverFor(s, id)
  BY DEF SideOK
<1>4. PICK j \in DOMAIN jobs : Over(j, s) /\ jobs[j].message_id = id
  BY <1>3 DEF OverFor
<1>5. j \in DOMAIN jobs' /\ jobs'[j] = jobs[j] /\ Over(j, s)'
  BY <1>1, <1>4, OverKept
<1>6. OverFor(s, id)'
  BY <1>4, <1>5 DEF OverFor
<1> QED BY <1>2, <1>3, <1>6

\* A step that saves no batch of stage s: no job of s is left well by it.
LEMMA SideStill ==
    ASSUME PipelineInv, Goes, NEW s \in Sides, SideOK(s), Batch(s)' = Batch(s),
           crashes' = 0 => crashes = 0,
           crashes' = 0 => \A w \in Workers : pc[w] # "idle" /\ pc'[w] = "idle" /\ StageOf[w] = s =>
                                                jobs'[Held(w).job_id].state # "succeeded"
    PROVE  SideOK(s)'
<1>1. QueueInv /\ QueueInv' /\ QueueStep /\ now' \in Nat /\ TablesOK /\ LeasesOK
  BY DEF PipelineInv, Goes, QueueInv
<1>2. ASSUME NEW i \in DOMAIN Batch(s)
      PROVE  /\ \E id : SavedFor(s, i, id)' /\ OverFor(s, id)'
             /\ \A id : SavedFor(s, i, id) => SavedFor(s, i, id)'
  BY SavedKept
<1>3. ASSUME crashes' = 0, NEW j \in DOMAIN jobs', Over(j, s)'
      PROVE  \E i \in DOMAIN Batch(s) : SavedFor(s, i, jobs[j].message_id)'
  <2>1. /\ j \in DOMAIN jobs /\ jobs'[j].message_id = jobs[j].message_id /\ jobs[j].stage = s
        /\ \/ Over(j, s)
           \/ \E w \in Workers : pc[w] # "idle" /\ Held(w).job_id = j /\ pc'[w] = "idle"
    BY <1>1, <1>3, OverBefore
  <2>2. ASSUME NEW w \in Workers, pc[w] # "idle", Held(w).job_id = j, pc'[w] = "idle" PROVE FALSE
    <3>1. StageOf[w] = s
      BY <1>1, <2>1, <2>2, HeldFacts
    <3>2. jobs'[j].state = "succeeded"
      BY <1>3 DEF Over
    <3> QED BY <1>3, <2>2, <3>1, <3>2
  <2>3. \E i \in DOMAIN Batch(s) : SavedFor(s, i, jobs[j].message_id)
    BY <1>3, <2>1, <2>2 DEF SideOK
  <2>4. PICK id : id = jobs[j].message_id
    OBVIOUS
  <2>5. \E i \in DOMAIN Batch(s) : SavedFor(s, i, id)'
    BY <1>2, <2>3, <2>4
  <2> QED BY <2>1, <2>4, <2>5
<1>4. \A v \in Workers : pc'[v] = SideCall(s) => IsStored(SideKey(s, v))'
  BY StoredKept
<1>5. /\ Batch(s)' \in Seq(Ids)
      /\ \A i, k \in DOMAIN Batch(s)' : Batch(s)'[i] = Batch(s)'[k] => i = k
  BY DEF SideOK
<1>6. \A i \in DOMAIN Batch(s)' : \E id : SavedFor(s, i, id)' /\ OverFor(s, id)'
  BY <1>2
<1>7. crashes' = 0 => \A j \in DOMAIN jobs' :
        Over(j, s)' => \E i \in DOMAIN Batch(s)' : SavedFor(s, i, jobs[j].message_id)'
  BY <1>3
<1> QED BY <1>4, <1>5, <1>6, <1>7 DEF SideOK

\* The report a worker finds under its key answers the message of its job.
LEMMA ReportFound ==
    ASSUME QueueInv, KeysOK, NEW s \in Sides, NEW w \in Workers, IsStored(SideKey(s, w))
    PROVE  \E m \in messages : /\ m.message_id = StoredUnder(SideKey(s, w)) /\ m.message_id \in Ids
                               /\ m.contract = ReportOf(s) /\ m.parent = Parent(w).message_id
<1>1. PICK m \in messages : /\ m.idempotency_key = SideKey(s, w)
                            /\ StoredUnder(SideKey(s, w)) = m.message_id
  BY DEF IsStored, StoredUnder
<1>2. m.contract = ReportOf(s) /\ m.parent = Parent(w).message_id
  <2>1. KeyOK(m)
    BY DEF KeysOK
  <2>2. CASE s = "research"
    <3>1. m.idempotency_key = ResearchKey(Parent(w).message_id)
      BY <1>1, <2>2 DEF SideKey
    <3>2. m.idempotency_key[1] = "research" /\ m.idempotency_key[2] = Parent(w).message_id
      BY <3>1 DEF ResearchKey
    <3>3. m.contract = "ResearchReport" /\ m.idempotency_key = ResearchKey(m.parent)
      BY <2>1, <3>2 DEF KeyOK
    <3>4. m.idempotency_key[2] = m.parent
      BY <3>3 DEF ResearchKey
    <3> QED BY <2>2, <3>2, <3>3, <3>4 DEF ReportOf
  <2>3. CASE s = "analysis"
    <3>1. m.idempotency_key = AnalysisKey(Parent(w).message_id, SnapshotId(w))
      BY <1>1, <2>3 DEF SideKey
    <3>2. m.idempotency_key[1] = "analysis" /\ m.idempotency_key[2] = Parent(w).message_id
      BY <3>1 DEF AnalysisKey
    <3>3. m.contract = "AnalysisReport" /\ \E x : m.idempotency_key = AnalysisKey(m.parent, x)
      BY <2>1, <3>2 DEF KeyOK
    <3>4. m.idempotency_key[2] = m.parent
      BY <3>3 DEF AnalysisKey
    <3> QED BY <2>3, <3>2, <3>3, <3>4 DEF ReportOf
  <2> QED BY <2>2, <2>3 DEF Sides
<1>3. m.message_id \in Ids
  <2>1. m.contract # "IngestedAlert"
    BY <1>2 DEF ReportOf
  <2> QED BY <2>1, Contracts DEF FromRun, Ids
<1> QED BY <1>1, <1>2, <1>3

\* save_research_evidence and save_analysis_candidates.
Saves(s, w) == IF s = "research" THEN SaveResearchEvidence(w) ELSE SaveAnalysisCandidates(w)
LEMMA SideSaves ==
    ASSUME NEW s \in Sides, NEW w \in Workers, Saves(s, w), DOMAIN pc = Workers
    PROVE  /\ Batch(s)' = Append(Batch(s), StoredUnder(SideKey(s, w)))
           /\ pc[w] = SideCall(s) /\ pc'[w] = "idle" /\ \A v \in Workers \ {w} : pc'[v] = pc[v]
           /\ jobs' = jobs /\ messages' = messages /\ crashes' = crashes
           /\ \A t \in Sides \ {s} : Batch(t)' = Batch(t)
<1> USE DEF Saves, Batch, SideKey, SideCall, Sides, At, Leave, tables, budget
<1>1. CASE s = "research"
  BY <1>1 DEF SaveResearchEvidence
<1>2. CASE s = "analysis"
  BY <1>2 DEF SaveAnalysisCandidates
<1> QED BY <1>1, <1>2

\* The step that saves a batch: its job is over now, and was not before.
LEMMA SideGrows ==
    ASSUME PipelineInv, Goes, KeysOK, NEW s \in Sides, SideOK(s), NEW w \in Workers, Saves(s, w)
    PROVE  SideOK(s)'
<1>1. QueueInv /\ QueueInv' /\ QueueStep /\ now' \in Nat /\ TablesOK /\ LeasesOK /\ LeasesOK'
      /\ DOMAIN pc = Workers
  BY DEF PipelineInv, Goes, QueueInv, LeasesOK
<1>2. /\ Batch(s)' = Append(Batch(s), StoredUnder(SideKey(s, w)))
      /\ pc[w] = SideCall(s) /\ pc'[w] = "idle" /\ \A v \in Workers \ {w} : pc'[v] = pc[v]
      /\ jobs' = jobs /\ messages' = messages /\ crashes' = crashes
  BY <1>1, SideSaves
<1>3. pc[w] # "idle" /\ pc[w] \in AfterCommit /\ CallOf(StageOf[w], pc[w])
  <2>1. pc[w] # "idle" /\ pc[w] \in AfterCommit
    BY <1>2 DEF SideCall, AfterCommit
  <2> QED BY <1>1, <2>1, StageAt
<1>4. StageOf[w] = s
  BY <1>2, <1>3 DEF CallOf, SubmitCalls, SideCall, Sides
<1>5. PICK j \in DOMAIN jobs : j = Held(w).job_id
  BY <1>1, <1>3, HeldFacts
<1>6. PICK id : id = jobs[j].message_id
  OBVIOUS
<1>7. jobs[j].stage = s /\ jobs[j].state = "succeeded" /\ Held(w).message_id = id
  BY <1>1, <1>3, <1>4, <1>5, <1>6, HeldFacts DEF StateAt
<1>8. Over(j, s)' /\ OverFor(s, id)'
  <2>1. ASSUME NEW v \in Workers, lease'[v] # <<>>, Held(v)'.job_id = j PROVE FALSE
    <3>1. pc'[v] # "idle"
      BY <1>1, <2>1, FreeAfter
    <3>2. v # w /\ pc[v] # "idle"
      BY <1>2, <3>1
    <3>3. Held(v)'.job_id = Held(v).job_id
      BY <3>1, <3>2 DEF Goes, StaysIn
    <3> QED BY <1>1, <1>3, <1>5, <2>1, <3>2, <3>3, OtherJobs
  <2>2. ~Busy(j)'
    BY <2>1 DEF Busy
  <2> QED BY <1>2, <1>6, <1>7, <2>2 DEF Over, OverFor
<1>9. PICK m \in messages : /\ m.message_id = StoredUnder(SideKey(s, w)) /\ m.message_id \in Ids
                            /\ m.contract = ReportOf(s) /\ m.parent = id
  <2>1. Parent(w).message_id = id
    BY <1>1, <1>3, <1>7, ParentFacts DEF QueueInv
  <2>2. IsStored(SideKey(s, w))
    BY <1>2 DEF SideOK
  <2> QED BY <1>1, <2>1, <2>2, ReportFound
<1> DEFINE B == Batch(s)
<1>n. PICK n : n = Len(Batch(s)) + 1
  OBVIOUS
<1>10. /\ Batch(s)' = Append(B, m.message_id) /\ B \in Seq(Ids) /\ Batch(s)' \in Seq(Ids)
       /\ DOMAIN B = 1 .. Len(B) /\ Len(B) \in Nat /\ DOMAIN (Batch(s)') = 1 .. n
       /\ Batch(s)'[n] = m.message_id /\ \A i \in DOMAIN B : Batch(s)'[i] = B[i]
  <2>1. B \in Seq(Ids) /\ Batch(s)' = Append(B, m.message_id)
    BY <1>2, <1>9 DEF SideOK
  <2> HIDE DEF B
  <2>2. /\ Append(B, m.message_id) \in Seq(Ids) /\ DOMAIN B = 1 .. Len(B) /\ Len(B) \in Nat
        /\ DOMAIN Append(B, m.message_id) = 1 .. (Len(B) + 1)
        /\ Append(B, m.message_id)[Len(B) + 1] = m.message_id
        /\ \A i \in DOMAIN B : Append(B, m.message_id)[i] = B[i]
    BY <1>9, <2>1
  <2> QED BY <1>n, <2>1, <2>2 DEF B
<1>11. ASSUME NEW i \in DOMAIN Batch(s)
       PROVE  /\ \E x : SavedFor(s, i, x)' /\ OverFor(s, x)'
              /\ \A x : SavedFor(s, i, x) => SavedFor(s, i, x)'
  BY <1>10, SavedKept
<1>12. SavedFor(s, n, id)'
  BY <1>2, <1>9, <1>10 DEF SavedFor
<1>13. ASSUME NEW i \in DOMAIN B, B[i] = m.message_id PROVE FALSE
  <2>1. PICK x : SavedFor(s, i, x) /\ OverFor(s, x)
    BY <1>13 DEF SideOK
  <2>2. x = id
    BY <1>1, <1>9, <1>13, <2>1 DEF SavedFor, QueueInv, MessagesOK
  <2>3. PICK k \in DOMAIN jobs : Over(k, s) /\ jobs[k].message_id = id
    BY <2>1, <2>2 DEF OverFor
  <2>4. k = j
    BY <1>1, <1>6, <1>7, <2>3 DEF Over, TablesOK, Unique
  <2> QED BY <1>1, <1>3, <1>5, <2>3, <2>4, BusyIff DEF Over
<1>14. ASSUME crashes' = 0, NEW k \in DOMAIN jobs', Over(k, s)'
       PROVE  \E i \in DOMAIN Batch(s)' : SavedFor(s, i, jobs[k].message_id)'
  <2>1. /\ k \in DOMAIN jobs /\ jobs'[k].message_id = jobs[k].message_id
        /\ \/ Over(k, s)
           \/ \E v \in Workers : pc[v] # "idle" /\ Held(v).job_id = k /\ pc'[v] = "idle"
    BY <1>1, <1>14, OverBefore
  <2>2. PICK x : x = jobs[k].message_id
    OBVIOUS
  <2>3. CASE Over(k, s)
    <3>1. PICK i \in DOMAIN B : SavedFor(s, i, x)
      BY <1>2, <1>14, <2>1, <2>2, <2>3 DEF SideOK
    <3>2. SavedFor(s, i, x)' /\ i \in DOMAIN Batch(s)'
      BY <1>n, <1>10, <1>11, <3>1
    <3> QED BY <2>1, <2>2, <3>2
  <2>4. CASE \E v \in Workers : pc[v] # "idle" /\ Held(v).job_id = k /\ pc'[v] = "idle"
    <3>1. k = j
      BY <1>2, <1>5, <2>4
    <3>2. n \in DOMAIN Batch(s)' /\ x = id
      BY <1>n, <1>6, <1>10, <2>2, <3>1
    <3> QED BY <1>12, <2>1, <2>2, <3>2
  <2> QED BY <2>1, <2>3, <2>4
<1>15. \A v \in Workers : pc'[v] = SideCall(s) => IsStored(SideKey(s, v))'
  BY StoredKept
<1>16. \A i \in DOMAIN Batch(s)' : \E x : SavedFor(s, i, x)' /\ OverFor(s, x)'
  <2>1. \A i \in DOMAIN Batch(s)' : i \in DOMAIN B \/ i = n
    BY <1>n, <1>10
  <2> QED BY <1>8, <1>11, <1>12, <2>1
<1>17. \A i, k \in DOMAIN Batch(s)' : Batch(s)'[i] = Batch(s)'[k] => i = k
  <2>1. \A i \in DOMAIN Batch(s)' : i \in DOMAIN B \/ i = n
    BY <1>n, <1>10
  <2>2. \A i, k \in DOMAIN B : B[i] = B[k] => i = k
    BY DEF SideOK
  <2> HIDE DEF B
  <2> QED BY <1>10, <1>13, <2>1, <2>2
<1> HIDE DEF B
<1>18. Batch(s)' \in Seq(Ids)
  BY <1>10
<1> QED BY <1>14, <1>15, <1>16, <1>17, <1>18 DEF SideOK

\* Researcher and analyst leave a job that is done by saving its batch.
LEMMA SideLeft ==
    ASSUME PipelineInv, Goes, NEW s \in Sides, NEW w \in Workers, WorkerShape(w), ~Saves(s, w),
           ~Crash(w), pc[w] # "idle", pc'[w] = "idle", StageOf[w] = s
    PROVE  jobs'[Held(w).job_id].state # "succeeded"
<1>1. QueueInv /\ now' \in Nat /\ TablesOK /\ LeasesOK /\ DOMAIN pc = Workers
  BY DEF PipelineInv, Goes, QueueInv, LeasesOK
<1>2. CallOf(s, pc[w])
  BY <1>1, StageAt
<1>3. WorkerStep(w)
  <2>1. Fault(w) => pc'[w] = "except"
    BY <1>1 DEF Fault
  <2> QED BY <2>1 DEF WorkerShape
<1>4. Departure(w)
  BY <1>3 DEF WorkerShape
<1>5. /\ Analyze(w) => pc'[w] = "save_evidence"
      /\ SavePortfolioSnapshot(w) => pc'[w] = "analysis"
      /\ SnapshotExists(w) => pc'[w] = "except"
      /\ Analysis(w) => pc'[w] = "save_candidates"
  BY <1>1 DEF Analyze, SavePortfolioSnapshot, SnapshotExists, Analysis, Goto, Raises
<1>6. Except(w)
  BY <1>2, <1>4, <1>5 DEF Departure, CallOf, Sides, Saves
<1>7. CompleteJobRetry(Held(w), RetryBackoff, MaxAttempts)
  BY <1>6 DEF Except
<1>8. Ended(w, {"retry_wait", "dead_letter"})
  BY <1>1, <1>7, RetryTables, WorkerAssumption
<1> QED BY <1>8 DEF Ended

LEMMA SideKept ==
    ASSUME PipelineInv, Goes, KeysOK, NEW s \in Sides, SideOK(s)
    PROVE  SideOK(s)'
<1>1. ASSUME NEW w \in Workers, WorkerShape(w), ~Saves(s, w) PROVE SideOK(s)'
  <2>1. Frame(w)
    BY <1>1 DEF WorkerShape
  <2>2. Batch(s)' = Batch(s)
    BY <1>1, <2>1 DEF Frame, Saves, Batch, Sides
  <2>3. crashes' = 0 => crashes = 0 /\ ~Crash(w)
    <3>1. crashes \in Nat
      BY WorkerAssumption DEF PipelineInv, BudgetOK
    <3>2. Crash(w) => crashes' = crashes + 1
      BY DEF Crash
    <3>3. crashes' = crashes \/ Crash(w)
      BY <2>1 DEF Frame
    <3> QED BY <3>1, <3>2, <3>3
  <2>4. ASSUME crashes' = 0, NEW v \in Workers, pc[v] # "idle", pc'[v] = "idle", StageOf[v] = s
        PROVE  jobs'[Held(v).job_id].state # "succeeded"
    <3>1. v = w
      BY <2>1, <2>4 DEF Frame
    <3> QED BY <1>1, <2>3, <2>4, <3>1, SideLeft
  <2> QED BY <2>2, <2>3, <2>4, SideStill
<1>2. CASE Aside
  <2>1. Batch(s)' = Batch(s) /\ crashes' = crashes /\ pc' = pc
    BY <1>2 DEF Aside, Batch
  <2> QED BY <2>1, SideStill
<1> QED BY <1>1, <1>2, SideGrows DEF Goes, StepShape

\* What SideOK says of each table, as the rows of stage_messages see it.
LEMMA SidesComplete ==
    ASSUME QueueInv, KeysOK, OneAnalysis, \A s \in Sides : SideOK(s), crashes = 0
    PROVE  SideRecordsComplete
<1>1. ASSUME NEW s \in Sides, NEW m \in messages, m.contract = ReportOf(s)
      PROVE  /\ CountOf(Batch(s), m.message_id) \in Nat
             /\ CountOf(Batch(s), m.message_id) <= 1
             /\ \A j \in DOMAIN jobs :
                  jobs[j].message_id = m.parent /\ jobs[j].stage = m.stage
                  /\ jobs[j].state = "succeeded" /\ ~Busy(j)
                  => CountOf(Batch(s), m.message_id) = 1
  <2> DEFINE S == {i \in DOMAIN Batch(s) : Batch(s)[i] = m.message_id}
  <2>1. SideOK(s) /\ m.stage = s
    BY <1>1 DEF KeysOK, KeyOK, ReportOf, Sides
  <2>2. \A i, k \in S : i = k
    BY <2>1 DEF SideOK
  <2>3. S = {} \/ \E i : S = {i}
    <3> HIDE DEF S
    <3>1. ASSUME NEW i \in S PROVE S = {i}
      BY <2>2
    <3> QED BY <3>1
  <2>4. Cardinality(S) = 0 \/ Cardinality(S) = 1
    <3> HIDE DEF S
    <3>1. ASSUME S = {} PROVE Cardinality(S) = 0
      BY <3>1, FS_EmptySet
    <3>2. ASSUME NEW i, S = {i} PROVE Cardinality(S) = 1
      BY <3>2, FS_Singleton
    <3> QED BY <2>3, <3>1, <3>2
  <2>5. ASSUME NEW j \in DOMAIN jobs, jobs[j].message_id = m.parent, jobs[j].stage = m.stage,
               jobs[j].state = "succeeded", ~Busy(j)
        PROVE  Cardinality(S) = 1
    <3>1. Over(j, s)
      BY <2>1, <2>5 DEF Over
    <3>2. PICK i \in DOMAIN Batch(s) : SavedFor(s, i, m.parent)
      BY <2>1, <2>5, <3>1 DEF SideOK
    <3>3. PICK n \in messages : n.message_id = Batch(s)[i] /\ n.contract = ReportOf(s)
                                /\ n.parent = m.parent
      BY <3>2 DEF SavedFor
    <3>4. n = m
      <4>1. CASE s = "research"
        BY <1>1, <3>3, <4>1 DEF KeysOK, KeyOK, ReportOf, QueueInv, MessagesOK
      <4>2. CASE s = "analysis"
        BY <1>1, <3>3, <4>2 DEF OneAnalysis, ReportOf
      <4> QED BY <4>1, <4>2 DEF Sides
    <3>5. i \in S
      BY <3>2, <3>3, <3>4
    <3>6. PICK x : S = {x}
      <4> HIDE DEF S
      <4> QED BY <2>3, <3>5
    <3> HIDE DEF S
    <3> QED BY <3>6, FS_Singleton
  <2> QED BY <2>4, <2>5 DEF CountOf
<1>2. ASSUME NEW m \in messages, m.contract = "ResearchReport"
      PROVE  /\ CountOf(evidence, m.message_id) <= 1
             /\ \A j \in DOMAIN jobs :
                  jobs[j].message_id = m.parent /\ jobs[j].stage = m.stage
                  /\ jobs[j].state = "succeeded" /\ ~Busy(j)
                  => CountOf(evidence, m.message_id) = 1
  <2>1. "research" \in Sides /\ ReportOf("research") = "ResearchReport" /\ Batch("research") = evidence
    BY DEF Sides, ReportOf, Batch
  <2> QED BY <1>1, <1>2, <2>1
<1>3. ASSUME NEW m \in messages, m.contract = "AnalysisReport"
      PROVE  /\ CountOf(candidates, m.message_id) <= 1
             /\ \A j \in DOMAIN jobs :
                  jobs[j].message_id = m.parent /\ jobs[j].stage = m.stage
                  /\ jobs[j].state = "succeeded" /\ ~Busy(j)
                  => CountOf(candidates, m.message_id) = 1
  <2>1. /\ "analysis" \in Sides /\ ReportOf("analysis") = "AnalysisReport"
        /\ Batch("analysis") = candidates
    BY DEF Sides, ReportOf, Batch
  <2> QED BY <1>1, <1>3, <2>1
<1> QED BY <1>2, <1>3 DEF SideRecordsComplete

-----------------------------------------------------------------------------
(* The theorems. *)

\* ScheduledOK needs a trace whose report is analysed once; the other parts do not.
TraceInv == /\ OrderInv /\ KeysOK /\ AnalysedOnce /\ (OneAnalysis => ScheduledOK)
            /\ \A s \in Sides : SideOK(s)

LEMMA TraceInit ==
    ASSUME Init
    PROVE  TraceInv
<1>1. OrderInv
  BY OrderInit
<1> USE DEF Init, JobInit, RecordInit, WorkerInit, IngressInit
<1>2. KeysOK /\ AnalysedOnce
  BY DEF KeysOK, AnalysedOnce, OneAnalysis
<1>3. ScheduledOK
  BY DEF ScheduledOK, OneObservationPerHorizon
<1>4. ASSUME NEW s \in Sides PROVE SideOK(s)
  <2>1. Batch(s) = <<>>
    BY DEF Batch
  <2>2. <<>> \in Seq(Ids) /\ DOMAIN <<>> = {}
    OBVIOUS
  <2>3. DOMAIN jobs = {} /\ \A w \in Workers : pc[w] # SideCall(s)
    BY DEF SideCall
  <2> QED BY <2>1, <2>2, <2>3 DEF SideOK
<1> QED BY <1>1, <1>2, <1>3, <1>4 DEF TraceInv

\* Idempotency keys, and the rows that were written under them.
THEOREM TraceInvariant == Spec => []TraceInv
<1>1. TraceInv /\ [Next]_vars => TraceInv'
  <2> SUFFICES ASSUME TraceInv, [Next]_vars PROVE TraceInv'
    OBVIOUS
  <2>1. Goes /\ PipelineInv /\ OrderInv /\ QueueInv /\ KeysOK /\ AnalysedOnce /\ ModeOK
    BY Shapes DEF TraceInv, OrderInv, PipelineInv
  <2>2. OrderInv'
    BY <2>1, OrderStep
  <2>3. KeysOK' /\ AnalysedOnce'
    BY <2>1, KeysKept, AnalysedOnceKept
  <2>4. ASSUME OneAnalysis' PROVE ScheduledOK'
    <3>1. OneAnalysis
      BY <2>1, <2>4 DEF OneAnalysis, Goes
    <3> QED BY <2>1, <3>1, ScheduledKept DEF TraceInv
  <2>5. \A s \in Sides : SideOK(s)'
    BY <2>1, SideKept DEF TraceInv
  <2> QED BY <2>2, <2>3, <2>4, <2>5 DEF TraceInv
<1>2. Init => TraceInv
  BY TraceInit
<1> QED BY <1>1, <1>2, PTL DEF Spec

\* The setting in which a report is analysed once: the snapshot an analyst
\* writes its key with does not change, or no call fails and makes it retry.
LEMMA OneReport ==
    ASSUME ~FreshSnapshots \/ MaxFaults = 0, TraceInv
    PROVE  QueueInv /\ OrderInv /\ KeysOK /\ OneAnalysis
<1>1. QueueInv /\ OrderInv /\ KeysOK /\ AnalysedOnce /\ BudgetOK
  BY DEF TraceInv, OrderInv, PipelineInv
<1>2. ~FreshSnapshots \/ faults = 0
  BY <1>1, WorkerAssumption DEF BudgetOK
<1> QED BY <1>1, <1>2, Once

\* NoDuplicateStageJobs: however often an alert is posted, a stage retried or a
\* commit repeated by complete_job_success, a trace has one research, analysis,
\* execution and approval job.
THEOREM StageJobsUnique ==
    ASSUME ~FreshSnapshots \/ MaxFaults = 0
    PROVE  Spec => []NoDuplicateStageJobs
<1>1. TraceInv => NoDuplicateStageJobs
  BY OneReport, StageJobsOnce
<1> QED BY <1>1, TraceInvariant, PTL

\* OneOrderPerTrace: every order of a trace that reaches place_order carries one
\* client order id, whichever worker, attempt or crash sends it.
THEOREM OneOrderId ==
    ASSUME ~FreshSnapshots \/ MaxFaults = 0
    PROVE  Spec => []OneOrderPerTrace
<1>1. TraceInv => OneOrderPerTrace
  BY OneReport, OrdersOnce
<1> QED BY <1>1, TraceInvariant, PTL

\* OneObservationPerHorizon: the list_outcome_observations test is enough,
\* although it and the inserts of _submit_order are transactions of their own.
THEOREM ObservationsUnique ==
    ASSUME ~FreshSnapshots \/ MaxFaults = 0
    PROVE  Spec => []OneObservationPerHorizon
<1>1. TraceInv => OneObservationPerHorizon
  BY OneReport DEF TraceInv, ScheduledOK
<1> QED BY <1>1, TraceInvariant, PTL

\* SideRecordsComplete: save_research_evidence and save_analysis_candidates run
\* once for the report of a job that ended succeeded, unless the process dies
\* between the commit and the save.
THEOREM SideRecordsSaved ==
    ASSUME ~FreshSnapshots \/ MaxFaults = 0, MaxCrashes = 0
    PROVE  Spec => []SideRecordsComplete
<1>1. TraceInv => SideRecordsComplete
  <2> SUFFICES ASSUME TraceInv PROVE SideRecordsComplete
    OBVIOUS
  <2>1. crashes = 0
    BY DEF TraceInv, OrderInv, PipelineInv, BudgetOK
  <2> QED BY <2>1, OneReport, SidesComplete DEF TraceInv
<1> QED BY <1>1, TraceInvariant, PTL
=============================================================================
