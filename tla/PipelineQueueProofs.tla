------------------------- MODULE PipelineQueueProofs -------------------------
(***************************************************************************)
(* The ground the proofs about Pipeline stand on: the job tables against   *)
(* the leases in the workers' memory, and every job against the message it *)
(* answers to, under each of the nine kinds of step a process can take.    *)
(***************************************************************************)
EXTENDS Pipeline, TLAPS

-----------------------------------------------------------------------------
(* The inductive invariant, by parts. *)

PosNat == Nat \ {0}
Ids == ({0} \X Alerts) \cup (PosNat \X PosNat)
RowSet == [stage : Stages, message_id : Ids, state : JobStates,
           attempt_count : Nat, available_at : Nat, leased_until : Nat]
LeaseSet == [job_id : PosNat, run_id : PosNat, stage : Stages, message_id : Ids,
             attempt_count : PosNat]

Unique(T) == \A j, k \in DOMAIN T :
                T[j].stage = T[k].stage /\ T[j].message_id = T[k].message_id => j = k

\* stage_jobs and stage_runs.
TablesOK ==
    /\ now \in Nat
    /\ jobs \in Seq(RowSet) /\ Unique(jobs)
    /\ runs \in Seq(Seq(JobStates)) /\ Len(runs) = Len(jobs)
    /\ dead_letters \in Seq(Nat)

\* The calls of a stage's process_next, and those that follow its commit.
AfterCommit == {"save_evidence", "save_candidates", "list_observations", "save_observation"}
SubmitCalls == {"get_order", "place_order", "save_order", "submitted",
                "list_observations", "save_observation"}
CallOf(s, c) ==
    \/ c = "except"
    \/ s = "research" /\ c \in {"analyze", "save_evidence"}
    \/ s = "analysis" /\ c \in {"snapshot", "analysis", "save_candidates"}
    \/ s = "execution" /\ c \in {"execute", "await_approval"} \cup SubmitCalls
    \/ s = "approval" /\ c \in {"read_request", "expire", "wait", "close"} \cup SubmitCalls
    \/ s = "outcome" /\ c \in {"observe", "update_observation", "report"}

\* The state of a job whose worker is about to make call c.
StateAt(c, st) ==
    /\ c \in AfterCommit => st = "succeeded"
    /\ c = "except" => st \in {"running", "succeeded"}
    /\ c \notin AfterCommit \cup {"except"} => st = "running"

\* A lease is as the row says, which no other worker touches.
Holds(w) == lease[w] # <<>>
LeaseOK(w) ==
    \/ lease[w] = <<>> /\ pc[w] = "idle"
    \/ LET l == Held(w) IN
         /\ lease[w] = <<l>> /\ l \in LeaseSet /\ l.job_id \in DOMAIN jobs
         /\ l.attempt_count = jobs[l.job_id].attempt_count
         /\ l.message_id = jobs[l.job_id].message_id
         /\ l.stage = jobs[l.job_id].stage /\ l.stage = StageOf[w]
         /\ CallOf(l.stage, pc[w]) /\ StateAt(pc[w], jobs[l.job_id].state)
LeasesOK ==
    /\ DOMAIN lease = Workers /\ DOMAIN pc = Workers
    /\ \A w \in Workers : LeaseOK(w)
    /\ \A v, w \in Workers : Holds(v) /\ Holds(w) /\ v # w => Held(v).job_id # Held(w).job_id

\* A stored message is the ingest message of an alert or the output of a run
\* that is over, for the message its job was queued for.
StatusOK(m) ==
    CASE m.contract = "ResearchReport" -> m.status \in ResearchVerdicts
      [] m.contract = "AnalysisReport" -> m.status \in {"pass", "reject"}
      [] m.contract = "ExecutionDecision" ->
            m.status \in {"rejected_risk", "awaiting_approval", "submitted", "expired", "cancelled"}
      [] m.contract = "OutcomeReport" -> m.status = ""
      [] OTHER -> FALSE
FromRun(m) ==
    /\ m.message_id \in PosNat \X PosNat /\ m.message_id[1] \in DOMAIN jobs
    /\ LET row == jobs[m.message_id[1]] IN
         /\ m.message_id[2] <= row.attempt_count
         /\ row.state = "running" => m.message_id[2] # row.attempt_count
         /\ m.parent = row.message_id
    /\ \E p \in messages : p.message_id = m.parent /\ p.trace_id = m.trace_id
    /\ StatusOK(m)
MessagesOK ==
    /\ \A m \in messages : /\ m.trace_id \in Alerts /\ m.expiry_at \in Nat
                           /\ m.candidate \in Ids \cup {None}
                           /\ m = IngestMessage(m.trace_id) \/ FromRun(m)
    /\ \A m, n \in messages :
         m.message_id = n.message_id \/ m.idempotency_key = n.idempotency_key => m = n

-----------------------------------------------------------------------------
(* The job tables. *)

\* What every transaction keeps of the rows that are there: the pair a row was
\* queued for, its attempts, and a run that is over stays over.
RowsKept ==
    /\ DOMAIN jobs \subseteq DOMAIN jobs'
    /\ \A j \in DOMAIN jobs :
         /\ jobs'[j].stage = jobs[j].stage /\ jobs'[j].message_id = jobs[j].message_id
         /\ \/ /\ jobs'[j].attempt_count = jobs[j].attempt_count
               /\ jobs'[j].state = "running" => jobs[j].state = "running"
            \/ jobs'[j].attempt_count = jobs[j].attempt_count + 1

\* U is table T with row j replaced.
Replaced(T, j, row, U) ==
    /\ U \in Seq(RowSet) /\ Unique(U) /\ Len(U) = Len(T) /\ DOMAIN U = DOMAIN T
    /\ U[j] = row /\ \A k \in DOMAIN T \ {j} : U[k] = T[k]

LEMMA RowUpdated ==
    ASSUME NEW T \in Seq(RowSet), Unique(T), NEW j \in DOMAIN T, NEW row \in RowSet,
           row.stage = T[j].stage, row.message_id = T[j].message_id
    PROVE  Replaced(T, j, row, [T EXCEPT ![j] = row])
<1> DEFINE U == [T EXCEPT ![j] = row]
<1>1. U \in Seq(RowSet) /\ Len(U) = Len(T) /\ DOMAIN U = DOMAIN T
  OBVIOUS
<1>2. U[j] = row /\ \A k \in DOMAIN T \ {j} : U[k] = T[k]
  OBVIOUS
<1> HIDE DEF U
<1>3. Unique(U)
  BY <1>1, <1>2 DEF Unique
<1>4. Replaced(T, j, row, U)
  BY <1>1, <1>2, <1>3 DEF Replaced
<1> QED BY <1>4 DEF U

\* _enqueue_job_conn adds at most one row, for a pair that was not there.
Grown(T, s, m, at, U) ==
    /\ U \in Seq(RowSet) /\ Unique(U) /\ DOMAIN T \subseteq DOMAIN U
    /\ \A k \in DOMAIN T : U[k] = T[k]
    /\ \A k \in DOMAIN U \ DOMAIN T : U[k] = NewJob(s, m, at)
    /\ IsQueued(U, s, m)
LEMMA RowAdded ==
    ASSUME NEW T \in Seq(RowSet), Unique(T), NEW s \in Stages, NEW m \in Ids, NEW at \in Nat
    PROVE  Grown(T, s, m, at, Enqueued(T, s, m, at))
<1> DEFINE U == Enqueued(T, s, m, at)
<1>1. NewJob(s, m, at) \in RowSet
  BY DEF NewJob, RowSet, JobStates, NULL
<1>2. CASE IsQueued(T, s, m)
  <2>1. U = T
    BY <1>2 DEF Enqueued
  <2> QED BY <1>2, <2>1 DEF Grown
<1>3. CASE ~IsQueued(T, s, m)
  <2>1. U = Append(T, NewJob(s, m, at))
    BY <1>3 DEF Enqueued
  <2> HIDE DEF U
  <2>2. /\ U \in Seq(RowSet) /\ Len(U) = Len(T) + 1 /\ Len(T) \in Nat
        /\ DOMAIN U = 1 .. Len(U) /\ DOMAIN T = 1 .. Len(T)
        /\ U[Len(U)] = NewJob(s, m, at) /\ \A k \in DOMAIN T : U[k] = T[k]
    BY <1>1, <2>1
  <2>3. DOMAIN U = DOMAIN T \cup {Len(U)} /\ Len(U) \notin DOMAIN T
    BY <2>2
  <2>4. U[Len(U)].stage = s /\ U[Len(U)].message_id = m
    BY <2>2 DEF NewJob
  <2>5. Unique(U)
    <3>1. \A k \in DOMAIN T : ~(U[k].stage = s /\ U[k].message_id = m)
      BY <1>3, <2>2 DEF IsQueued
    <3> QED BY <2>2, <2>3, <2>4, <3>1 DEF Unique
  <2>6. IsQueued(U, s, m)
    BY <2>3, <2>4 DEF IsQueued
  <2>7. Grown(T, s, m, at, U)
    BY <2>2, <2>3, <2>5, <2>6 DEF Grown
  <2> QED BY <2>7 DEF U
<1> QED BY <1>2, <1>3

LEMMA RunsAdded ==
    ASSUME NEW T \in Seq(RowSet), NEW R \in Seq(Seq(JobStates))
    PROVE  RunsFor(R, T) \in Seq(Seq(JobStates)) /\ Len(RunsFor(R, T)) = Len(T)
<1>1. \A j \in DOMAIN T : (IF j \in DOMAIN R THEN R[j] ELSE <<>>) \in Seq(JobStates)
  OBVIOUS
<1>2. DOMAIN T = 1 .. Len(T) /\ Len(T) \in Nat
  OBVIOUS
<1> QED BY <1>1, <1>2 DEF RunsFor

\* Whether or not the entry is there, its update leaves a sequence.
LEMMA EntryUpdated ==
    ASSUME NEW S, NEW h \in Seq(S), NEW k, NEW e, k \in DOMAIN h => e \in S,
           NEW g, g = [h EXCEPT ![k] = e]
    PROVE  g \in Seq(S) /\ Len(g) = Len(h)
<1>1. Len(h) \in Nat /\ DOMAIN h = 1 .. Len(h) /\ \A i \in 1 .. Len(h) : h[i] \in S
  OBVIOUS
<1>2. DOMAIN g = 1 .. Len(h) /\ \A i \in 1 .. Len(h) : g[i] \in S
  BY <1>1
<1>3. g = [i \in 1 .. Len(h) |-> g[i]]
  BY <1>2
<1>4. g \in [1 .. Len(h) -> S]
  BY <1>2, <1>3
<1> QED BY <1>1, <1>4

RunEnded(R, j, k, st) == [R EXCEPT ![j][k] = st]

LEMMA RunUpdated ==
    ASSUME NEW R \in Seq(Seq(JobStates)), NEW j, NEW k, NEW st \in JobStates
    PROVE  /\ RunEnded(R, j, k, st) \in Seq(Seq(JobStates))
           /\ Len(RunEnded(R, j, k, st)) = Len(R)
<1> DEFINE Q == [R EXCEPT ![j][k] = st]
           h == [R[j] EXCEPT ![k] = st]
<1>1. j \in DOMAIN R => h \in Seq(JobStates)
  <2>1. \A g \in Seq(JobStates) : [g EXCEPT ![k] = st] \in Seq(JobStates)
    BY EntryUpdated
  <2> QED BY <2>1
<1>2. Q = [R EXCEPT ![j] = h]
  OBVIOUS
<1> HIDE DEF h, Q
<1>3. Len(R) \in Nat /\ DOMAIN R = 1 .. Len(R)
  OBVIOUS
<1>4. \A i \in 1 .. Len(R) : Q[i] = IF i = j THEN h ELSE R[i]
  BY <1>2, <1>3
<1>5. \A i \in 1 .. Len(R) : Q[i] \in Seq(JobStates)
  <2>1. \A i \in 1 .. Len(R) : R[i] \in Seq(JobStates)
    OBVIOUS
  <2> QED BY <1>1, <1>3, <1>4, <2>1, Zenon
<1>6. Q = [i \in 1 .. Len(R) |-> Q[i]]
  BY <1>2, <1>3
<1>7. Q \in [1 .. Len(R) -> Seq(JobStates)]
  BY <1>5, <1>6, Zenon
<1>8. Q \in Seq(Seq(JobStates)) /\ Len(Q) = Len(R)
  BY <1>3, <1>7
<1> QED BY <1>8 DEF Q, RunEnded

-----------------------------------------------------------------------------
(* What a step is to jobs, leases and messages: one of nine kinds. *)

LetsGo(w) == pc' = [pc EXCEPT ![w] = "idle"] /\ lease' = [lease EXCEPT ![w] = <<>>]
BeforeCommit(w) == pc[w] \notin AfterCommit \cup {"idle", "except"}

Quiet == UNCHANGED <<jobs, runs, dead_letters, lease, pc, messages>>
StoresAlert(a) == /\ UpsertMessage(IngestMessage(a))
                  /\ UNCHANGED <<jobs, runs, dead_letters, lease, pc>>
QueuesAlert(a) == /\ IngestMessage(a) \in messages
                  /\ EnqueueJob("research", <<0, a>>) /\ UNCHANGED <<lease, pc, messages>>
Moves(w, c) == /\ pc[w] \notin {"idle", "except"} /\ CallOf(StageOf[w], c)
               /\ c # "except" => (c \in AfterCommit <=> pc[w] \in AfterCommit)
               /\ pc' = [pc EXCEPT ![w] = c]
               /\ UNCHANGED <<jobs, runs, dead_letters, lease, messages>>
Quits(w) == pc[w] # "idle" /\ LetsGo(w) /\ UNCHANGED <<jobs, runs, dead_letters, messages>>
Takes(w, j) == /\ pc[w] = "idle" /\ IsNextReady(StageOf[w], j) /\ LeaseNextJob(j)
               /\ lease' = [lease EXCEPT ![w] = <<LeaseOf(j)>>]
               /\ pc' = [pc EXCEPT ![w] = FirstCall[StageOf[w]]] /\ UNCHANGED messages
Finishes(w) == /\ BeforeCommit(w) /\ CompleteJobSuccess(Held(w), <<>>) /\ LetsGo(w)
               /\ UNCHANGED messages
Retries(w, delay, limit) == /\ pc[w] # "idle" /\ delay \in Nat
                            /\ limit \in {MaxAttempts, WaitAttempts}
                            /\ CompleteJobRetry(Held(w), delay, limit) /\ LetsGo(w)
                            /\ UNCHANGED messages

\* out is the output of w's run, and calls for the stage the commit enqueues.
OutputOf(w, out) ==
    /\ out.message_id = Run(w) /\ out.trace_id = Trace(w) /\ out.parent = Parent(w).message_id
    /\ out.expiry_at \in Nat /\ out.candidate \in Ids \cup {None} /\ StatusOK(out)
Emits(w, out, at) ==
    /\ BeforeCommit(w) /\ OutputOf(w, out) /\ at \in Nat
    /\ CompleteJobSuccess(Held(w),
         IF NextStageOf(out) = NoStage \/ IsStored(out.idempotency_key) THEN <<>>
         ELSE <<[stage |-> NextStageOf(out), message_id |-> out.message_id, available_at |-> at]>>)
    /\ UpsertMessage(out)
    /\ \/ LetsGo(w)
       \/ /\ \E c \in AfterCommit : CallOf(StageOf[w], c) /\ pc' = [pc EXCEPT ![w] = c]
          /\ UNCHANGED lease

QueueStep ==
    \/ Quiet
    \/ \E a \in Alerts : StoresAlert(a) \/ QueuesAlert(a)
    \/ \E w \in Workers :
         \/ \E c : Moves(w, c)
         \/ Quits(w)
         \/ \E j \in DOMAIN jobs : Takes(w, j)
         \/ Finishes(w)
         \/ \E delay, limit \in Nat : Retries(w, delay, limit)
         \/ \E out, at : Emits(w, out, at)

\* What a worker inside process_next holds.
LEMMA HeldFacts ==
    ASSUME TablesOK, LeasesOK, NEW w \in Workers, pc[w] # "idle"
    PROVE  /\ Holds(w) /\ lease[w] = <<Held(w)>> /\ Held(w) \in LeaseSet
           /\ Held(w).job_id \in DOMAIN jobs
           /\ Held(w).attempt_count = jobs[Held(w).job_id].attempt_count
           /\ Held(w).message_id = jobs[Held(w).job_id].message_id
           /\ Held(w).stage = jobs[Held(w).job_id].stage /\ Held(w).stage = StageOf[w]
           /\ CallOf(Held(w).stage, pc[w]) /\ StateAt(pc[w], jobs[Held(w).job_id].state)
<1>1. LeaseOK(w)
  BY DEF LeasesOK
<1>2. lease[w] = <<Held(w)>> => Holds(w)
  BY DEF Holds
<1> QED BY <1>1, <1>2 DEF LeaseOK

\* A worker without a lease is idle and the other way round.
LEMMA IdleIffFree ==
    ASSUME LeasesOK, NEW w \in Workers
    PROVE  Holds(w) <=> pc[w] # "idle"
<1>1. LeaseOK(w)
  BY DEF LeasesOK
<1>2. \A s : ~CallOf(s, "idle")
  BY DEF CallOf, SubmitCalls
<1>3. lease[w] = <<Held(w)>> => lease[w] # <<>>
  OBVIOUS
<1>4. \/ lease[w] = <<>> /\ pc[w] = "idle"
      \/ lease[w] = <<Held(w)>> /\ CallOf(Held(w).stage, pc[w])
  BY <1>1 DEF LeaseOK
<1>5. CallOf(Held(w).stage, pc[w]) => pc[w] # "idle"
  BY <1>2
<1> QED BY <1>3, <1>4, <1>5 DEF Holds

\* The update of one row, as the transactions write it.
LEMMA JobUpdated ==
    ASSUME TablesOK, NEW j \in DOMAIN jobs, NEW row \in RowSet,
           row.stage = jobs[j].stage, row.message_id = jobs[j].message_id,
           jobs' = [jobs EXCEPT ![j] = row],
           row.attempt_count = jobs[j].attempt_count + 1
              \/ (row.attempt_count = jobs[j].attempt_count /\ row.state # "running")
    PROVE  Replaced(jobs, j, row, jobs') /\ RowsKept
<1>1. jobs \in Seq(RowSet) /\ Unique(jobs)
  BY DEF TablesOK
<1>2. Replaced(jobs, j, row, [jobs EXCEPT ![j] = row])
  BY <1>1, RowUpdated
<1>3. Replaced(jobs, j, row, jobs')
  BY <1>2
<1>4. RowsKept
  BY <1>3 DEF RowsKept, Replaced
<1> QED BY <1>3, <1>4

\* lease_next_job on the tables.
LEMMA TakeTables ==
    ASSUME TablesOK, now' \in Nat, NEW j \in DOMAIN jobs, LeaseNextJob(j)
    PROVE  /\ TablesOK' /\ RowsKept /\ DOMAIN jobs' = DOMAIN jobs
           /\ jobs'[j].state = "running" /\ jobs'[j].attempt_count = jobs[j].attempt_count + 1
           /\ \A k \in DOMAIN jobs \ {j} : jobs'[k] = jobs[k]
<1> DEFINE row == [jobs[j] EXCEPT !.state = "running", !.attempt_count = jobs[j].attempt_count + 1,
                                  !.leased_until = now + LeaseSec]
<1>1. jobs[j] \in RowSet /\ j \in DOMAIN runs /\ now \in Nat
  BY DEF TablesOK
<1>2. jobs[j].attempt_count + 1 \in Nat /\ now + LeaseSec \in Nat /\ "running" \in JobStates
  BY <1>1, LeaseSecAssumption DEF RowSet, JobStates
<1>3. /\ row \in RowSet /\ row.stage = jobs[j].stage /\ row.message_id = jobs[j].message_id
      /\ row.state = "running" /\ row.attempt_count = jobs[j].attempt_count + 1
  BY <1>1, <1>2 DEF RowSet
<1>4. jobs' = [jobs EXCEPT ![j] = row]
  BY DEF LeaseNextJob
<1> HIDE DEF row
<1>5. Replaced(jobs, j, row, jobs') /\ RowsKept
  BY <1>3, <1>4, JobUpdated
<1>6. runs' \in Seq(Seq(JobStates)) /\ Len(runs') = Len(runs)
  <2>1. runs \in Seq(Seq(JobStates))
    BY DEF TablesOK
  <2>2. Append(runs[j], "running") \in Seq(JobStates)
    BY <1>1, <1>2, <2>1
  <2> QED BY <1>1, <2>1, <2>2 DEF LeaseNextJob
<1>7. TablesOK'
  BY <1>5, <1>6 DEF TablesOK, Replaced, LeaseNextJob
<1> QED BY <1>3, <1>5, <1>7 DEF Replaced

\* The row of job j after it left state running, and its run.
EndedRow(j, st, at) == [jobs[j] EXCEPT !.state = st, !.leased_until = NULL, !.available_at = at]
EndFacts(j, st, row, Q) ==
    /\ row \in RowSet /\ row.stage = jobs[j].stage /\ row.message_id = jobs[j].message_id
    /\ row.attempt_count = jobs[j].attempt_count /\ row.state = st
    /\ Replaced(jobs, j, row, [jobs EXCEPT ![j] = row])
    /\ Q \in Seq(Seq(JobStates)) /\ Len(Q) = Len(runs)
LEMMA EndTables ==
    ASSUME TablesOK, NEW j \in DOMAIN jobs, NEW r,
           NEW st \in {"succeeded", "retry_wait", "dead_letter"}, NEW at \in Nat
    PROVE  EndFacts(j, st, EndedRow(j, st, at), RunEnded(runs, j, r, st))
<1> DEFINE row == EndedRow(j, st, at)
           Q == RunEnded(runs, j, r, st)
<1>1. jobs[j] \in RowSet /\ jobs \in Seq(RowSet) /\ Unique(jobs) /\ runs \in Seq(Seq(JobStates))
  BY DEF TablesOK
<1>2. st \in JobStates
  BY DEF JobStates
<1>3. /\ row \in RowSet /\ row.stage = jobs[j].stage /\ row.message_id = jobs[j].message_id
      /\ row.attempt_count = jobs[j].attempt_count /\ row.state = st
  BY <1>1, <1>2 DEF EndedRow, RowSet, NULL
<1>4. Q \in Seq(Seq(JobStates)) /\ Len(Q) = Len(runs)
  BY <1>1, <1>2, RunUpdated
<1> HIDE DEF row, Q
<1>5. Replaced(jobs, j, row, [jobs EXCEPT ![j] = row])
  BY <1>1, <1>3, RowUpdated
<1>6. EndFacts(j, st, row, Q)
  BY <1>3, <1>4, <1>5 DEF EndFacts
<1> QED BY <1>6 DEF row, Q

\* What a worker's last transaction does to the row it holds and to the others.
Ended(w, states) ==
    /\ jobs'[Held(w).job_id].state \in states
    /\ jobs'[Held(w).job_id].attempt_count = jobs[Held(w).job_id].attempt_count
    /\ \A k \in DOMAIN jobs \ {Held(w).job_id} : jobs'[k] = jobs[k]

\* dead_letter_job and complete_job_retry.
LEMMA RetryTables ==
    ASSUME TablesOK, LeasesOK, now' \in Nat, NEW w \in Workers, pc[w] # "idle",
           NEW delay \in Nat, NEW limit \in Nat, CompleteJobRetry(Held(w), delay, limit)
    PROVE  /\ TablesOK' /\ RowsKept /\ DOMAIN jobs' = DOMAIN jobs
           /\ Ended(w, {"retry_wait", "dead_letter"})
<1> DEFINE j == Held(w).job_id
           r == Held(w).run_id
<1>1. j \in DOMAIN jobs /\ j \in Nat /\ jobs[j] \in RowSet /\ now \in Nat
  BY HeldFacts DEF TablesOK, LeaseSet, PosNat
<1>2. \E st \in {"retry_wait", "dead_letter"}, at \in Nat :
        /\ jobs' = [jobs EXCEPT ![j] = EndedRow(j, st, at)]
        /\ runs' = RunEnded(runs, j, r, st)
        /\ dead_letters' \in Seq(Nat)
  <2>1. dead_letters \in Seq(Nat) /\ jobs[j].available_at \in Nat
    BY <1>1 DEF TablesOK, RowSet
  <2>2. CASE DeadLetterJob(Held(w))
    <3>1. [jobs[j] EXCEPT !.state = "dead_letter", !.leased_until = NULL]
            = EndedRow(j, "dead_letter", jobs[j].available_at)
      BY <1>1 DEF RowSet, EndedRow
    <3>2. jobs' = [jobs EXCEPT ![j] = [jobs[j] EXCEPT !.state = "dead_letter", !.leased_until = NULL]]
      BY <2>2, <1>1 DEF DeadLetterJob
    <3>3. dead_letters' \in Seq(Nat)
      BY <2>1, <2>2, <1>1 DEF DeadLetterJob
    <3>4. runs' = RunEnded(runs, j, r, "dead_letter")
      BY <2>2 DEF DeadLetterJob, RunEnded
    <3> QED BY <2>1, <3>1, <3>2, <3>3, <3>4
  <2>3. CASE RetryLater(Held(w), delay)
    <3>1. jobs' = [jobs EXCEPT ![j] = EndedRow(j, "retry_wait", now + delay)]
      BY <2>3, <1>1 DEF RetryLater, EndedRow
    <3>2. now + delay \in Nat
      BY <1>1
    <3>3. runs' = RunEnded(runs, j, r, "retry_wait") /\ dead_letters' = dead_letters
      BY <2>3 DEF RetryLater, RunEnded
    <3> QED BY <2>1, <3>1, <3>2, <3>3
  <2> QED BY <2>2, <2>3 DEF CompleteJobRetry
<1> HIDE DEF j, r
<1>3. PICK st \in {"retry_wait", "dead_letter"}, at \in Nat :
        /\ jobs' = [jobs EXCEPT ![j] = EndedRow(j, st, at)]
        /\ runs' = RunEnded(runs, j, r, st)
        /\ dead_letters' \in Seq(Nat)
  BY <1>2
<1> DEFINE row == EndedRow(j, st, at)
<1>4. /\ row \in RowSet /\ row.stage = jobs[j].stage /\ row.message_id = jobs[j].message_id
      /\ row.attempt_count = jobs[j].attempt_count /\ row.state = st
      /\ runs' \in Seq(Seq(JobStates)) /\ Len(runs') = Len(runs)
  <2>1. st \in {"succeeded", "retry_wait", "dead_letter"}
    OBVIOUS
  <2>2. EndFacts(j, st, EndedRow(j, st, at), RunEnded(runs, j, r, st))
    BY <1>1, <2>1, EndTables
  <2> QED BY <1>3, <2>2 DEF EndFacts
<1>5. jobs' = [jobs EXCEPT ![j] = row]
  BY <1>3
<1> HIDE DEF row
<1>6. Replaced(jobs, j, row, jobs') /\ RowsKept
  BY <1>1, <1>4, <1>5, JobUpdated
<1>7. TablesOK'
  BY <1>3, <1>4, <1>6 DEF TablesOK, Replaced
<1> QED BY <1>4, <1>6, <1>7 DEF Replaced, Ended, j

\* complete_job_success, with the job it enqueues or none.
NextOK(next) == \/ next = <<>>
                \/ /\ next = <<next[1]>>
                   /\ next[1].stage \in Stages /\ next[1].message_id \in Ids
                   /\ next[1].available_at \in Nat
LEMMA SuccessTables ==
    ASSUME TablesOK, LeasesOK, now' \in Nat, NEW w \in Workers, pc[w] # "idle",
           NEW next, NextOK(next), CompleteJobSuccess(Held(w), next)
    PROVE  /\ TablesOK' /\ RowsKept /\ Ended(w, {"succeeded"})
           /\ next = <<>> => DOMAIN jobs' = DOMAIN jobs
           /\ next # <<>> => /\ IsQueued(jobs', next[1].stage, next[1].message_id)
                             /\ \A k \in DOMAIN jobs' \ DOMAIN jobs : jobs'[k] =
                                   NewJob(next[1].stage, next[1].message_id, next[1].available_at)
<1> DEFINE j == Held(w).job_id
           r == Held(w).run_id
           row == EndedRow(j, "succeeded", jobs[j].available_at)
           done == [jobs EXCEPT ![j] = row]
           ended == RunEnded(runs, j, r, "succeeded")
<1>1. j \in DOMAIN jobs /\ jobs[j] \in RowSet /\ jobs \in Seq(RowSet)
  BY HeldFacts DEF TablesOK
<1>2. jobs[j].available_at \in Nat
  BY <1>1 DEF RowSet
<1>3. /\ row \in RowSet /\ row.stage = jobs[j].stage /\ row.message_id = jobs[j].message_id
      /\ row.attempt_count = jobs[j].attempt_count /\ row.state = "succeeded"
      /\ Replaced(jobs, j, row, done)
      /\ ended \in Seq(Seq(JobStates)) /\ Len(ended) = Len(runs)
  <2> HIDE DEF j, r
  <2>1. EndFacts(j, "succeeded", EndedRow(j, "succeeded", jobs[j].available_at),
                 RunEnded(runs, j, r, "succeeded"))
    BY <1>1, <1>2, EndTables
  <2> QED BY <2>1 DEF EndFacts
<1>4. /\ jobs' = IF next = <<>> THEN done
                 ELSE Enqueued(done, next[1].stage, next[1].message_id, next[1].available_at)
      /\ runs' = RunsFor(ended, jobs') /\ dead_letters' = dead_letters
  <2>1. [jobs[j] EXCEPT !.state = "succeeded", !.leased_until = NULL] = row
    BY <1>1 DEF RowSet, EndedRow
  <2> DEFINE table == [jobs EXCEPT ![j].state = "succeeded", ![j].leased_until = NULL]
  <2>2. table = done
    BY <1>1, <2>1
  <2>3. jobs' = IF next = <<>> THEN table
                ELSE Enqueued(table, next[1].stage, next[1].message_id, next[1].available_at)
    BY DEF CompleteJobSuccess
  <2> HIDE DEF done, table
  <2>5. jobs' = IF next = <<>> THEN done
                ELSE Enqueued(done, next[1].stage, next[1].message_id, next[1].available_at)
    BY <2>2, <2>3
  <2>6. runs' = RunsFor(ended, jobs') /\ dead_letters' = dead_letters
    BY Zenon DEF CompleteJobSuccess, RunEnded
  <2> QED BY <2>5, <2>6
<1> HIDE DEF j, r, row, done, ended
<1>5. /\ done \in Seq(RowSet) /\ Unique(done) /\ DOMAIN done = DOMAIN jobs
      /\ done[j] = row /\ \A k \in DOMAIN jobs \ {j} : done[k] = jobs[k]
  BY <1>3 DEF Replaced
<1>6. /\ jobs' \in Seq(RowSet) /\ Unique(jobs') /\ DOMAIN jobs \subseteq DOMAIN jobs'
      /\ \A k \in DOMAIN jobs : jobs'[k] = done[k]
      /\ next = <<>> => DOMAIN jobs' = DOMAIN jobs
      /\ next # <<>> => /\ IsQueued(jobs', next[1].stage, next[1].message_id)
                        /\ \A k \in DOMAIN jobs' \ DOMAIN jobs : jobs'[k] =
                              NewJob(next[1].stage, next[1].message_id, next[1].available_at)
  <2>1. CASE next = <<>>
    BY <1>4, <1>5, <2>1
  <2>2. CASE next # <<>>
    <3>1. /\ next[1].stage \in Stages /\ next[1].message_id \in Ids /\ next[1].available_at \in Nat
          /\ jobs' = Enqueued(done, next[1].stage, next[1].message_id, next[1].available_at)
      BY <1>4, <2>2 DEF NextOK
    <3>2. Grown(done, next[1].stage, next[1].message_id, next[1].available_at, jobs')
      BY <1>5, <3>1, RowAdded
    <3> QED BY <1>5, <2>2, <3>2 DEF Grown
  <2> QED BY <2>1, <2>2
<1>7. runs' \in Seq(Seq(JobStates)) /\ Len(runs') = Len(jobs')
  BY <1>3, <1>4, <1>6, RunsAdded
<1>8. TablesOK'
  BY <1>4, <1>6, <1>7 DEF TablesOK
<1>9. RowsKept
  BY <1>1, <1>3, <1>5, <1>6 DEF RowsKept
<1>10. Ended(w, {"succeeded"})
  BY <1>1, <1>3, <1>5, <1>6 DEF Ended, j
<1> QED BY <1>6, <1>8, <1>9, <1>10

\* One worker's lease and place change, every other lease and row stays.
LEMMA LeasesAfter ==
    ASSUME TablesOK, LeasesOK, NEW w \in Workers, NEW c, NEW l,
           pc' = [pc EXCEPT ![w] = c], DOMAIN lease' = Workers, lease'[w] = l,
           \A v \in Workers \ {w} : lease'[v] = lease[v],
           DOMAIN jobs \subseteq DOMAIN jobs',
           \A v \in Workers \ {w} : pc[v] # "idle" => jobs'[Held(v).job_id] = jobs[Held(v).job_id],
           LeaseOK(w)',
           \A v \in Workers \ {w} : pc[v] # "idle" /\ l # <<>> => l[1].job_id # Held(v).job_id
    PROVE  LeasesOK'
<1>1. DOMAIN lease' = Workers /\ DOMAIN pc' = Workers
  BY DEF LeasesOK
<1>2. \A v \in Workers \ {w} : lease'[v] = lease[v] /\ pc'[v] = pc[v] /\ Held(v)' = Held(v)
  BY DEF LeasesOK, Held
<1>3. \A v \in Workers : LeaseOK(v)'
  <2> SUFFICES ASSUME NEW v \in Workers \ {w} PROVE LeaseOK(v)'
    OBVIOUS
  <2>1. lease'[v] = lease[v] /\ pc'[v] = pc[v] /\ Held(v)' = Held(v)
    BY <1>2
  <2>2. CASE pc[v] = "idle"
    <3>1. lease[v] = <<>>
      BY <2>2, IdleIffFree DEF Holds
    <3> QED BY <2>1, <2>2, <3>1 DEF LeaseOK
  <2>3. CASE pc[v] # "idle"
    <3>1. /\ lease[v] = <<Held(v)>> /\ Held(v) \in LeaseSet
          /\ Held(v).job_id \in DOMAIN jobs /\ Held(v).job_id \in DOMAIN jobs'
          /\ jobs'[Held(v).job_id] = jobs[Held(v).job_id]
          /\ Held(v).attempt_count = jobs[Held(v).job_id].attempt_count
          /\ Held(v).message_id = jobs[Held(v).job_id].message_id
          /\ Held(v).stage = jobs[Held(v).job_id].stage /\ Held(v).stage = StageOf[v]
          /\ CallOf(Held(v).stage, pc[v]) /\ StateAt(pc[v], jobs[Held(v).job_id].state)
      BY <2>3, HeldFacts
    <3> QED BY <2>1, <3>1 DEF LeaseOK
  <2> QED BY <2>2, <2>3
<1>4. \A u, v \in Workers : Holds(u)' /\ Holds(v)' /\ u # v => Held(u)'.job_id # Held(v)'.job_id
  <2>1. \A v \in Workers \ {w} : Holds(v)' => Holds(v) /\ pc[v] # "idle"
    BY <1>2, IdleIffFree DEF Holds
  <2>2. Holds(w)' => l # <<>> /\ Held(w)' = l[1]
    BY DEF Holds, Held
  <2>3. \A u, v \in Workers : Holds(u) /\ Holds(v) /\ u # v => Held(u).job_id # Held(v).job_id
    BY DEF LeasesOK
  <2>4. \A v \in Workers \ {w} : Holds(v)' /\ Holds(w)' => Held(w)'.job_id # Held(v)'.job_id
    BY <1>2, <2>1, <2>2
  <2> SUFFICES ASSUME NEW u \in Workers, NEW v \in Workers, Holds(u)', Holds(v)', u # v
               PROVE  Held(u)'.job_id # Held(v)'.job_id
    OBVIOUS
  <2>5. CASE u # w /\ v # w
    BY <1>2, <2>1, <2>3, <2>5
  <2> QED BY <2>4, <2>5
<1> QED BY <1>1, <1>3, <1>4 DEF LeasesOK

\* A worker lets go; the rows the others hold are as before.
LEMMA LeasesWithout ==
    ASSUME TablesOK, LeasesOK, NEW w \in Workers, LetsGo(w),
           DOMAIN jobs \subseteq DOMAIN jobs',
           \A v \in Workers \ {w} : pc[v] # "idle" => jobs'[Held(v).job_id] = jobs[Held(v).job_id]
    PROVE  LeasesOK'
<1>1. /\ lease'[w] = <<>> /\ pc'[w] = "idle" /\ DOMAIN lease' = Workers
      /\ \A v \in Workers \ {w} : lease'[v] = lease[v]
  BY DEF LetsGo, LeasesOK
<1>2. LeaseOK(w)'
  BY <1>1 DEF LeaseOK
<1> QED BY <1>1, <1>2, LeasesAfter DEF LetsGo

\* The row a worker holds is not the one another worker holds.
LEMMA OtherJobs ==
    ASSUME TablesOK, LeasesOK, NEW v \in Workers, NEW w \in Workers, v # w,
           pc[v] # "idle", pc[w] # "idle"
    PROVE  Held(v).job_id \in DOMAIN jobs \ {Held(w).job_id}
<1>1. Holds(v) /\ Holds(w) /\ Held(v).job_id \in DOMAIN jobs
  BY HeldFacts
<1> QED BY <1>1 DEF LeasesOK

-----------------------------------------------------------------------------
(* Each kind of step keeps the tables, the leases and what RowsKept says. *)

Sound == TablesOK' /\ LeasesOK' /\ RowsKept

\* Nothing happens to rows and leases.
LEMMA StillTables ==
    ASSUME TablesOK, now' \in Nat, UNCHANGED <<jobs, runs, dead_letters>>
    PROVE  TablesOK' /\ RowsKept
BY DEF TablesOK, RowsKept

LEMMA StillLeases ==
    ASSUME LeasesOK, UNCHANGED <<lease, pc>>, DOMAIN jobs \subseteq DOMAIN jobs',
           \A j \in DOMAIN jobs : jobs'[j] = jobs[j]
    PROVE  LeasesOK'
<1>1. \A w \in Workers : LeaseOK(w)'
  <2> SUFFICES ASSUME NEW w \in Workers PROVE LeaseOK(w)'
    OBVIOUS
  <2>1. LeaseOK(w)
    BY DEF LeasesOK
  <2>2. Held(w)' = Held(w) /\ lease'[w] = lease[w] /\ pc'[w] = pc[w]
    BY DEF Held
  <2> QED BY <2>1, <2>2 DEF LeaseOK
<1>2. \A w \in Workers : Held(w)' = Held(w) /\ (Holds(w)' <=> Holds(w))
  BY DEF Held, Holds
<1> QED BY <1>1, <1>2 DEF LeasesOK

LEMMA QuietSound ==
    ASSUME TablesOK, LeasesOK, now' \in Nat, UNCHANGED <<jobs, runs, dead_letters, lease, pc>>
    PROVE  Sound
BY StillTables, StillLeases DEF Sound

LEMMA QueuesSound ==
    ASSUME TablesOK, LeasesOK, now' \in Nat, NEW a \in Alerts, QueuesAlert(a)
    PROVE  /\ Sound /\ IsQueued(jobs', "research", <<0, a>>)
           /\ \A k \in DOMAIN jobs : jobs'[k] = jobs[k]
           /\ \A k \in DOMAIN jobs' \ DOMAIN jobs : jobs'[k] = NewJob("research", <<0, a>>, now)
<1>1. jobs' = Enqueued(jobs, "research", <<0, a>>, now) /\ runs' = RunsFor(runs, jobs')
      /\ dead_letters' = dead_letters
  BY DEF QueuesAlert, EnqueueJob
<1>2. "research" \in Stages /\ <<0, a>> \in Ids /\ now \in Nat /\ jobs \in Seq(RowSet) /\ Unique(jobs)
  BY WorkerAssumption DEF Ids, TablesOK
<1>3. Grown(jobs, "research", <<0, a>>, now, jobs')
  BY <1>1, <1>2, RowAdded
<1>4. runs' \in Seq(Seq(JobStates)) /\ Len(runs') = Len(jobs')
  BY <1>1, <1>3, RunsAdded DEF Grown, TablesOK
<1>5. TablesOK'
  BY <1>1, <1>3, <1>4 DEF TablesOK, Grown
<1>6. RowsKept
  BY <1>3 DEF RowsKept, Grown
<1>7. LeasesOK'
  BY <1>3, StillLeases DEF Grown, QueuesAlert
<1> QED BY <1>3, <1>5, <1>6, <1>7 DEF Sound, Grown

LEMMA MovesSound ==
    ASSUME TablesOK, LeasesOK, now' \in Nat, NEW w \in Workers, NEW c, Moves(w, c)
    PROVE  Sound
<1>1. TablesOK' /\ RowsKept
  BY StillTables DEF Moves
<1>2. /\ pc[w] # "idle" /\ pc[w] # "except" /\ lease' = lease /\ jobs' = jobs
      /\ pc' = [pc EXCEPT ![w] = c] /\ CallOf(StageOf[w], c)
      /\ c # "except" => (c \in AfterCommit <=> pc[w] \in AfterCommit)
  BY DEF Moves
<1>3. DOMAIN lease' = Workers /\ \A v \in Workers : lease'[v] = lease[v]
  BY <1>2 DEF LeasesOK
<1>4. LeaseOK(w)'
  <2>1. pc'[w] = c /\ Held(w)' = Held(w) /\ lease'[w] = lease[w]
    BY <1>2 DEF LeasesOK, Held
  <2>2. /\ lease[w] = <<Held(w)>> /\ Held(w) \in LeaseSet /\ Held(w).job_id \in DOMAIN jobs
        /\ Held(w).attempt_count = jobs[Held(w).job_id].attempt_count
        /\ Held(w).message_id = jobs[Held(w).job_id].message_id
        /\ Held(w).stage = jobs[Held(w).job_id].stage /\ Held(w).stage = StageOf[w]
        /\ StateAt(pc[w], jobs[Held(w).job_id].state)
    BY <1>2, HeldFacts
  <2>3. StateAt(c, jobs[Held(w).job_id].state)
    BY <1>2, <2>2 DEF StateAt, AfterCommit
  <2> QED BY <1>2, <2>1, <2>2, <2>3 DEF LeaseOK
<1>5. \A v \in Workers \ {w} : pc[v] # "idle" => lease[w][1].job_id # Held(v).job_id
  <2>1. \A v \in Workers \ {w} : pc[v] # "idle" => Held(v).job_id \in DOMAIN jobs \ {Held(w).job_id}
    BY <1>2, OtherJobs
  <2> QED BY <2>1 DEF Held
<1>6. LeasesOK'
  BY <1>2, <1>3, <1>4, <1>5, LeasesAfter
<1> QED BY <1>1, <1>6 DEF Sound

LEMMA QuitsSound ==
    ASSUME TablesOK, LeasesOK, now' \in Nat, NEW w \in Workers, Quits(w)
    PROVE  Sound
BY StillTables, LeasesWithout DEF Sound, Quits

LEMMA RetriesSound ==
    ASSUME TablesOK, LeasesOK, now' \in Nat, NEW w \in Workers,
           NEW delay \in Nat, NEW limit \in Nat, Retries(w, delay, limit)
    PROVE  Sound /\ DOMAIN jobs' = DOMAIN jobs /\ Ended(w, {"retry_wait", "dead_letter"})
<1>1. pc[w] # "idle" /\ CompleteJobRetry(Held(w), delay, limit) /\ LetsGo(w)
  BY DEF Retries
<1>2. TablesOK' /\ RowsKept /\ DOMAIN jobs' = DOMAIN jobs /\ Ended(w, {"retry_wait", "dead_letter"})
  BY <1>1, RetryTables
<1>3. \A v \in Workers \ {w} : pc[v] # "idle" => jobs'[Held(v).job_id] = jobs[Held(v).job_id]
  BY <1>1, <1>2, OtherJobs DEF Ended
<1>4. LeasesOK'
  BY <1>1, <1>2, <1>3, LeasesWithout
<1> QED BY <1>2, <1>4 DEF Sound

LEMMA TakesSound ==
    ASSUME TablesOK, LeasesOK, now' \in Nat, NEW w \in Workers, NEW j \in DOMAIN jobs, Takes(w, j)
    PROVE  /\ Sound /\ DOMAIN jobs' = DOMAIN jobs
           /\ jobs[j].state \in {"queued", "retry_wait"} /\ jobs[j].stage = StageOf[w]
           /\ jobs'[j].state = "running" /\ jobs'[j].attempt_count = jobs[j].attempt_count + 1
           /\ \A k \in DOMAIN jobs \ {j} : jobs'[k] = jobs[k]
           /\ \A v \in Workers : pc[v] # "idle" => Held(v).job_id # j
<1>1. /\ pc[w] = "idle" /\ LeaseNextJob(j) /\ lease' = [lease EXCEPT ![w] = <<LeaseOf(j)>>]
      /\ pc' = [pc EXCEPT ![w] = FirstCall[StageOf[w]]]
      /\ jobs[j].state \in {"queued", "retry_wait"} /\ jobs[j].stage = StageOf[w]
  BY DEF Takes, IsNextReady, Ready
<1>2. /\ TablesOK' /\ RowsKept /\ DOMAIN jobs' = DOMAIN jobs
      /\ jobs'[j].state = "running" /\ jobs'[j].attempt_count = jobs[j].attempt_count + 1
      /\ \A k \in DOMAIN jobs \ {j} : jobs'[k] = jobs[k]
  BY <1>1, TakeTables
<1>3. \A v \in Workers : pc[v] # "idle" => Held(v).job_id # j
  <2>1. \A v \in Workers : pc[v] # "idle" => jobs[Held(v).job_id].state \in {"running", "succeeded"}
    BY HeldFacts DEF StateAt
  <2> QED BY <1>1, <2>1
<1>4. /\ LeaseOf(j) \in LeaseSet /\ LeaseOf(j).job_id = j
      /\ LeaseOf(j).attempt_count = jobs[j].attempt_count + 1
      /\ LeaseOf(j).stage = jobs[j].stage /\ LeaseOf(j).message_id = jobs[j].message_id
  <2>1. /\ jobs[j].stage \in Stages /\ jobs[j].message_id \in Ids /\ jobs[j].attempt_count \in Nat
        /\ j \in PosNat /\ runs[j] \in Seq(JobStates)
    <3>1. jobs[j] \in RowSet
      BY DEF TablesOK
    <3>2. j \in PosNat /\ j \in DOMAIN runs /\ runs \in Seq(Seq(JobStates))
      BY DEF TablesOK, PosNat
    <3>3. runs[j] \in Seq(JobStates)
      BY <3>2
    <3> QED BY <3>1, <3>2, <3>3 DEF RowSet
  <2>2. jobs[j].attempt_count + 1 \in PosNat /\ Len(runs[j]) + 1 \in PosNat
    BY <2>1 DEF PosNat
  <2> QED BY <2>1, <2>2 DEF LeaseOf, LeaseSet
<1>5. CallOf(StageOf[w], FirstCall[StageOf[w]]) /\ StateAt(FirstCall[StageOf[w]], "running")
  <2>1. StageOf[w] \in {"research", "analysis", "execution", "approval", "outcome"}
    BY WorkerAssumption
  <2> QED BY <2>1 DEF CallOf, SubmitCalls, StateAt, AfterCommit, FirstCall
<1>6. /\ lease'[w] = <<LeaseOf(j)>> /\ pc'[w] = FirstCall[StageOf[w]] /\ DOMAIN lease' = Workers
      /\ \A v \in Workers \ {w} : lease'[v] = lease[v]
  BY <1>1 DEF LeasesOK
<1>7. Held(w)' = LeaseOf(j)
  BY <1>6 DEF Held
<1>8. LeaseOK(w)'
  BY <1>1, <1>2, <1>4, <1>5, <1>6, <1>7 DEF LeaseOK, RowsKept
<1>9. \A v \in Workers \ {w} : pc[v] # "idle" => jobs'[Held(v).job_id] = jobs[Held(v).job_id]
  BY <1>2, <1>3, HeldFacts
<1>10. \A v \in Workers \ {w} : pc[v] # "idle" => lease'[w][1].job_id # Held(v).job_id
  BY <1>3, <1>4, <1>6
<1>11. LeasesOK'
  <2> DEFINE c == FirstCall[StageOf[w]]
             l == lease'[w]
  <2>1. pc' = [pc EXCEPT ![w] = c]
    BY <1>1
  <2>2. DOMAIN jobs \subseteq DOMAIN jobs'
    BY <1>2
  <2> HIDE DEF c
  <2> QED BY <1>6, <1>8, <1>9, <1>10, <2>1, <2>2, LeasesAfter
<1> QED BY <1>1, <1>2, <1>3, <1>11 DEF Sound

LEMMA FinishesSound ==
    ASSUME TablesOK, LeasesOK, now' \in Nat, NEW w \in Workers, Finishes(w)
    PROVE  Sound /\ DOMAIN jobs' = DOMAIN jobs /\ Ended(w, {"succeeded"})
<1>1. pc[w] # "idle" /\ CompleteJobSuccess(Held(w), <<>>) /\ LetsGo(w)
  BY DEF Finishes, BeforeCommit
<1>2. NextOK(<<>>)
  BY DEF NextOK
<1>3. TablesOK' /\ RowsKept /\ Ended(w, {"succeeded"}) /\ DOMAIN jobs' = DOMAIN jobs
  BY <1>1, <1>2, SuccessTables
<1>4. \A v \in Workers \ {w} : pc[v] # "idle" => jobs'[Held(v).job_id] = jobs[Held(v).job_id]
  BY <1>1, <1>3, OtherJobs DEF Ended
<1>5. LeasesOK'
  BY <1>1, <1>3, <1>4, LeasesWithout
<1> QED BY <1>3, <1>5 DEF Sound

\* The stage an output calls for.
LEMMA NextStageFacts ==
    ASSUME NEW m, StatusOK(m)
    PROVE  /\ NextStageOf(m) \in Stages \cup {NoStage} /\ NoStage \notin Stages
           /\ m.contract # "IngestedAlert" /\ NextStageOf(m) # "research"
           /\ NextStageOf(m) = "analysis" <=> m.contract = "ResearchReport" /\ m.status = "pass"
           /\ NextStageOf(m) = "execution" <=> m.contract = "AnalysisReport" /\ m.status = "pass"
           /\ NextStageOf(m) = "approval" <=> m.status = "awaiting_approval"
           /\ NextStageOf(m) = "outcome" <=>
                \/ m.status = "submitted"
                \/ m.contract = "OutcomeReport" /\ m.idempotency_key[3] > 0
           /\ m.status = "awaiting_approval" \/ m.status = "submitted" =>
                m.contract = "ExecutionDecision"
<1>1. Stages = {"research", "analysis", "execution", "approval", "outcome"}
  BY WorkerAssumption
<1>2. CASE m.contract = "ResearchReport"
  BY <1>1, <1>2 DEF StatusOK, ResearchVerdicts, NextStageOf, NoStage
<1>3. CASE m.contract = "AnalysisReport"
  BY <1>1, <1>3 DEF StatusOK, NextStageOf, NoStage
<1>4. CASE m.contract = "ExecutionDecision"
  BY <1>1, <1>4 DEF StatusOK, NextStageOf, NoStage
<1>5. CASE m.contract = "OutcomeReport"
  BY <1>1, <1>5 DEF StatusOK, NextStageOf, NoStage
<1>6. m.contract \in {"ResearchReport", "AnalysisReport", "ExecutionDecision", "OutcomeReport"}
  BY DEF StatusOK
<1> QED BY <1>2, <1>3, <1>4, <1>5, <1>6

\* The identifiers a run draws.
LEMMA RunFacts ==
    ASSUME TablesOK, LeasesOK, NEW w \in Workers, pc[w] # "idle"
    PROVE  /\ Run(w) \in PosNat \X PosNat /\ Run(w) \in Ids
           /\ Run(w)[1] = Held(w).job_id /\ Run(w)[2] = jobs[Held(w).job_id].attempt_count
<1>1. /\ Held(w).job_id \in PosNat /\ Held(w).attempt_count \in PosNat
      /\ Held(w).attempt_count = jobs[Held(w).job_id].attempt_count
  BY HeldFacts DEF LeaseSet
<1> QED BY <1>1 DEF Run, Ids

\* complete_job_success with an output: stored and handed over together.
Handed(out) ==
    /\ IsStored(out.idempotency_key) =>
         messages' = messages /\ DOMAIN jobs' = DOMAIN jobs
    /\ ~IsStored(out.idempotency_key) => messages' = messages \cup {out}
    /\ ~IsStored(out.idempotency_key) /\ NextStageOf(out) # NoStage =>
         IsQueued(jobs', NextStageOf(out), out.message_id)
    /\ \A k \in DOMAIN jobs' \ DOMAIN jobs :
         /\ ~IsStored(out.idempotency_key)
         /\ jobs'[k].stage = NextStageOf(out) /\ jobs'[k].message_id = out.message_id
         /\ jobs'[k].state = "queued"

LEMMA EmitsSound ==
    ASSUME TablesOK, LeasesOK, now' \in Nat, NEW w \in Workers, NEW out, NEW at, Emits(w, out, at)
    PROVE  Sound /\ Ended(w, {"succeeded"}) /\ Handed(out)
<1> DEFINE next == IF NextStageOf(out) = NoStage \/ IsStored(out.idempotency_key) THEN <<>>
                   ELSE <<[stage |-> NextStageOf(out), message_id |-> out.message_id,
                           available_at |-> at]>>
<1>1. /\ pc[w] # "idle" /\ pc[w] # "except" /\ pc[w] \notin AfterCommit /\ StatusOK(out)
      /\ out.message_id = Run(w) /\ at \in Nat /\ CompleteJobSuccess(Held(w), next)
      /\ messages' = IF IsStored(out.idempotency_key) THEN messages ELSE messages \cup {out}
  BY DEF Emits, BeforeCommit, OutputOf, UpsertMessage
<1>2. NextStageOf(out) \in Stages \cup {NoStage} /\ out.message_id \in Ids
  BY <1>1, NextStageFacts, RunFacts
<1>3. next # <<>> => /\ ~IsStored(out.idempotency_key) /\ NextStageOf(out) # NoStage
                     /\ next = <<next[1]>> /\ next[1].stage = NextStageOf(out)
                     /\ next[1].message_id = out.message_id /\ next[1].available_at = at
  OBVIOUS
<1>a. next = <<>> => NextStageOf(out) = NoStage \/ IsStored(out.idempotency_key)
  <2>1. \A x : <<x>> # <<>>
    OBVIOUS
  <2> QED BY <2>1
<1> HIDE DEF next
<1>4. NextOK(next)
  BY <1>1, <1>2, <1>3 DEF NextOK
<1>5. /\ TablesOK' /\ RowsKept /\ Ended(w, {"succeeded"})
      /\ next = <<>> => DOMAIN jobs' = DOMAIN jobs
      /\ next # <<>> => /\ IsQueued(jobs', next[1].stage, next[1].message_id)
                        /\ \A k \in DOMAIN jobs' \ DOMAIN jobs : jobs'[k] =
                              NewJob(next[1].stage, next[1].message_id, next[1].available_at)
  BY <1>1, <1>4, SuccessTables
<1>6. \A v \in Workers \ {w} : pc[v] # "idle" => jobs'[Held(v).job_id] = jobs[Held(v).job_id]
  BY <1>1, <1>5, OtherJobs DEF Ended
<1>7. LeasesOK'
  <2>1. DOMAIN jobs \subseteq DOMAIN jobs'
    BY <1>5 DEF RowsKept
  <2>2. CASE LetsGo(w)
    BY <1>6, <2>1, <2>2, LeasesWithout
  <2>3. CASE ~LetsGo(w)
    <3>1. PICK c \in AfterCommit : CallOf(StageOf[w], c) /\ pc' = [pc EXCEPT ![w] = c] /\ lease' = lease
      BY <2>3 DEF Emits
    <3>2. /\ pc'[w] = c /\ Held(w)' = Held(w) /\ DOMAIN lease' = Workers
          /\ \A v \in Workers : lease'[v] = lease[v]
      BY <3>1 DEF LeasesOK, Held
    <3>3. /\ lease[w] = <<Held(w)>> /\ Held(w) \in LeaseSet /\ Held(w).job_id \in DOMAIN jobs
          /\ Held(w).attempt_count = jobs[Held(w).job_id].attempt_count
          /\ Held(w).message_id = jobs[Held(w).job_id].message_id
          /\ Held(w).stage = jobs[Held(w).job_id].stage /\ Held(w).stage = StageOf[w]
      BY <1>1, HeldFacts
    <3>4. StateAt(c, "succeeded")
      BY DEF StateAt, AfterCommit
    <3>5. /\ Held(w).job_id \in DOMAIN jobs' /\ jobs'[Held(w).job_id].state = "succeeded"
          /\ Held(w).attempt_count = jobs'[Held(w).job_id].attempt_count
          /\ Held(w).message_id = jobs'[Held(w).job_id].message_id
          /\ Held(w).stage = jobs'[Held(w).job_id].stage
      BY <1>5, <3>3 DEF Ended, RowsKept
    <3>6. LeaseOK(w)'
      BY <3>1, <3>2, <3>3, <3>4, <3>5 DEF LeaseOK
    <3> DEFINE l == lease'[w]
    <3>7. \A v \in Workers \ {w} : pc[v] # "idle" => l[1].job_id # Held(v).job_id
      <4>1. \A v \in Workers \ {w} : pc[v] # "idle" => Held(v).job_id \in DOMAIN jobs \ {Held(w).job_id}
        BY <1>1, OtherJobs
      <4> QED BY <3>2, <4>1 DEF Held
    <3>8. /\ DOMAIN lease' = Workers /\ lease'[w] = l /\ pc' = [pc EXCEPT ![w] = c]
          /\ \A v \in Workers \ {w} : lease'[v] = lease[v]
      BY <3>1, <3>2
    <3> HIDE DEF l
    <3> QED BY <1>6, <2>1, <3>6, <3>7, <3>8, LeasesAfter
  <2> QED BY <2>2, <2>3
<1>8. Handed(out)
  <2>1. \A k \in DOMAIN jobs' \ DOMAIN jobs :
          /\ ~IsStored(out.idempotency_key)
          /\ jobs'[k].stage = NextStageOf(out) /\ jobs'[k].message_id = out.message_id
          /\ jobs'[k].state = "queued"
    <3>1. \A k \in DOMAIN jobs' \ DOMAIN jobs : next # <<>>
      BY <1>5
    <3> QED BY <1>3, <1>5, <3>1 DEF NewJob
  <2>2. IsStored(out.idempotency_key) => DOMAIN jobs' = DOMAIN jobs
    BY <1>3, <1>5
  <2>3. ~IsStored(out.idempotency_key) /\ NextStageOf(out) # NoStage =>
          IsQueued(jobs', NextStageOf(out), out.message_id)
    BY <1>3, <1>a, <1>5
  <2> QED BY <1>1, <2>1, <2>2, <2>3 DEF Handed
<1> QED BY <1>5, <1>7, <1>8 DEF Sound

-----------------------------------------------------------------------------
(* Messages, and the jobs that answer to them. *)

LEMMA IngestFacts ==
    ASSUME NEW a \in Alerts
    PROVE  /\ IngestMessage(a).message_id = <<0, a>> /\ IngestMessage(a).trace_id = a
           /\ IngestMessage(a).idempotency_key = <<"scout", a>>
           /\ IngestMessage(a).expiry_at = 0 /\ IngestMessage(a).candidate = None
           /\ IngestMessage(a).contract = "IngestedAlert" /\ IngestMessage(a).status = ""
           /\ NextStageOf(IngestMessage(a)) = "research"
BY DEF IngestMessage, Message, IngestKey, NextStageOf

\* The message of the job a worker holds.
LEMMA ParentFacts ==
    ASSUME TablesOK, LeasesOK, MessagesOK, HandoffExact, NEW w \in Workers, pc[w] # "idle"
    PROVE  /\ Parent(w) \in messages /\ Parent(w).message_id = Held(w).message_id
           /\ NextStageOf(Parent(w)) = StageOf[w] /\ Trace(w) \in Alerts
           /\ Trace(w) = Parent(w).trace_id /\ Parent(w).candidate \in Ids \cup {None}
<1>1. /\ Held(w).job_id \in DOMAIN jobs /\ jobs[Held(w).job_id].message_id = Held(w).message_id
      /\ jobs[Held(w).job_id].stage = StageOf[w]
  BY HeldFacts
<1>2. PICK m \in messages : m.message_id = Held(w).message_id /\ NextStageOf(m) = StageOf[w]
  BY <1>1 DEF HandoffExact
<1>3. Parent(w) \in messages /\ Parent(w).message_id = Held(w).message_id
  BY <1>2 DEF Parent, MessageOf
<1>4. Parent(w) = m
  BY <1>2, <1>3 DEF MessagesOK
<1> QED BY <1>2, <1>3, <1>4 DEF MessagesOK, Trace

LEMMA QueuedKept ==
    ASSUME RowsKept, NEW s, NEW id, IsQueued(jobs, s, id)
    PROVE  IsQueued(jobs', s, id)
BY DEF RowsKept, IsQueued

\* A message whose run is over stays one.
LEMMA FromRunKept ==
    ASSUME TablesOK, RowsKept, messages \subseteq messages', NEW m, FromRun(m)
    PROVE  FromRun(m)'
<1> DEFINE j == m.message_id[1]
           n == m.message_id[2]
<1>1. /\ j \in DOMAIN jobs /\ n \in Nat /\ n <= jobs[j].attempt_count
      /\ jobs[j].state = "running" => n # jobs[j].attempt_count
      /\ m.parent = jobs[j].message_id /\ jobs[j].attempt_count \in Nat
  <2>1. /\ m.message_id \in PosNat \X PosNat /\ j \in DOMAIN jobs
        /\ n <= jobs[j].attempt_count /\ m.parent = jobs[j].message_id
        /\ jobs[j].state = "running" => n # jobs[j].attempt_count
    BY DEF FromRun
  <2>2. n \in Nat
    BY <2>1 DEF PosNat
  <2>3. jobs[j].attempt_count \in Nat
    <3>1. jobs[j] \in RowSet
      BY <2>1 DEF TablesOK
    <3> QED BY <3>1 DEF RowSet
  <2> QED BY <2>1, <2>2, <2>3
<1>2. /\ j \in DOMAIN jobs' /\ m.parent = jobs'[j].message_id
      /\ \/ /\ jobs'[j].attempt_count = jobs[j].attempt_count
            /\ jobs'[j].state = "running" => jobs[j].state = "running"
         \/ jobs'[j].attempt_count = jobs[j].attempt_count + 1
  BY <1>1 DEF RowsKept
<1>3. n <= jobs'[j].attempt_count /\ (jobs'[j].state = "running" => n # jobs'[j].attempt_count)
  BY <1>1, <1>2
<1>4. \E p \in messages' : p.message_id = m.parent /\ p.trace_id = m.trace_id
  BY DEF FromRun
<1> QED BY <1>2, <1>3, <1>4 DEF FromRun

LEMMA MessagesGrow ==
    ASSUME TablesOK, MessagesOK, RowsKept, NEW out,
           messages' = messages \cup {out} /\ out.trace_id \in Alerts /\ out.expiry_at \in Nat
             /\ out.candidate \in Ids \cup {None},
           out = IngestMessage(out.trace_id) \/ FromRun(out)',
           \A m \in messages : m.message_id # out.message_id /\ m.idempotency_key # out.idempotency_key
    PROVE  MessagesOK'
<1>1. \A m \in messages : FromRun(m) => FromRun(m)'
  BY FromRunKept
<1>2. \A m \in messages' : /\ m.trace_id \in Alerts /\ m.expiry_at \in Nat
                           /\ m.candidate \in Ids \cup {None}
                           /\ m = IngestMessage(m.trace_id) \/ FromRun(m)'
  BY <1>1 DEF MessagesOK
<1>3. \A m, n \in messages' :
        m.message_id = n.message_id \/ m.idempotency_key = n.idempotency_key => m = n
  BY DEF MessagesOK
<1> QED BY <1>2, <1>3 DEF MessagesOK

LEMMA MessagesStay ==
    ASSUME TablesOK, MessagesOK, HandoffExact, RowsKept, messages' = messages
    PROVE  /\ MessagesOK'
           /\ DOMAIN jobs' = DOMAIN jobs => HandoffExact'
<1>1. \A m \in messages : FromRun(m) => FromRun(m)'
  BY FromRunKept
<1>2. MessagesOK'
  BY <1>1 DEF MessagesOK
<1>3. ASSUME DOMAIN jobs' = DOMAIN jobs PROVE HandoffExact'
  <2>1. \A m \in messages' : m.contract # "IngestedAlert" /\ NextStageOf(m) # NoStage =>
            IsQueued(jobs', NextStageOf(m), m.message_id)
    BY QueuedKept DEF HandoffExact
  <2>2. \A j \in DOMAIN jobs' : \E m \in messages' :
            m.message_id = jobs'[j].message_id /\ NextStageOf(m) = jobs'[j].stage
    BY <1>3 DEF HandoffExact, RowsKept
  <2> QED BY <2>1, <2>2 DEF HandoffExact
<1> QED BY <1>2, <1>3

\* Rows that came with a message, for the stage it calls for.
LEMMA HandoffGrow ==
    ASSUME HandoffExact, RowsKept, messages \subseteq messages',
           \A m \in messages' \ messages : m.contract # "IngestedAlert" /\ NextStageOf(m) # NoStage =>
               IsQueued(jobs', NextStageOf(m), m.message_id),
           \A j \in DOMAIN jobs' \ DOMAIN jobs : \E m \in messages' :
               m.message_id = jobs'[j].message_id /\ NextStageOf(m) = jobs'[j].stage
    PROVE  HandoffExact'
<1>1. \A m \in messages' : m.contract # "IngestedAlert" /\ NextStageOf(m) # NoStage =>
          IsQueued(jobs', NextStageOf(m), m.message_id)
  BY QueuedKept DEF HandoffExact
<1>2. \A j \in DOMAIN jobs' : \E m \in messages' :
          m.message_id = jobs'[j].message_id /\ NextStageOf(m) = jobs'[j].stage
  BY DEF HandoffExact, RowsKept
<1> QED BY <1>1, <1>2 DEF HandoffExact

QueueInv == TablesOK /\ LeasesOK /\ MessagesOK /\ HandoffExact

\* The output of a run is new: whatever is stored under the job's number is of
\* an earlier attempt.
LEMMA OutputNew ==
    ASSUME QueueInv, NEW w \in Workers, BeforeCommit(w), NEW m \in messages
    PROVE  m.message_id # Run(w)
<1>1. pc[w] # "idle" /\ StateAt(pc[w], jobs[Held(w).job_id].state)
  BY HeldFacts DEF BeforeCommit, QueueInv
<1>2. jobs[Held(w).job_id].state = "running"
  BY <1>1 DEF StateAt, BeforeCommit
<1>3. /\ Run(w) \in PosNat \X PosNat
      /\ Run(w)[1] = Held(w).job_id /\ Run(w)[2] = jobs[Held(w).job_id].attempt_count
  BY <1>1, RunFacts DEF QueueInv
<1>4. CASE m = IngestMessage(m.trace_id)
  <2>1. m.message_id = <<0, m.trace_id>>
    BY <1>4, IngestFacts DEF QueueInv, MessagesOK
  <2> QED BY <1>3, <2>1 DEF PosNat
<1>5. CASE FromRun(m)
  BY <1>2, <1>3, <1>5 DEF FromRun
<1> QED BY <1>4, <1>5 DEF QueueInv, MessagesOK

LEMMA EmitsInv ==
    ASSUME QueueInv, now' \in Nat, NEW w \in Workers, NEW out, NEW at, Emits(w, out, at)
    PROVE  QueueInv'
<1>1. TablesOK /\ LeasesOK /\ MessagesOK /\ HandoffExact
  BY DEF QueueInv
<1>2. TablesOK' /\ LeasesOK' /\ RowsKept /\ Ended(w, {"succeeded"}) /\ Handed(out)
  BY <1>1, EmitsSound DEF Sound
<1>3. /\ BeforeCommit(w) /\ pc[w] # "idle" /\ out.message_id = Run(w) /\ out.trace_id = Trace(w)
      /\ out.parent = Parent(w).message_id /\ out.expiry_at \in Nat
      /\ out.candidate \in Ids \cup {None} /\ StatusOK(out)
  BY DEF Emits, OutputOf, BeforeCommit
<1>4. CASE IsStored(out.idempotency_key)
  BY <1>1, <1>2, <1>4, MessagesStay DEF Handed, QueueInv
<1>5. CASE ~IsStored(out.idempotency_key)
  <2>1. messages' = messages \cup {out}
    BY <1>2, <1>5 DEF Handed
  <2>2. \A m \in messages : m.message_id # out.message_id /\ m.idempotency_key # out.idempotency_key
    BY <1>3, <1>5, OutputNew DEF IsStored
  <2>3. /\ Parent(w) \in messages /\ Parent(w).message_id = Held(w).message_id
        /\ Trace(w) \in Alerts /\ Trace(w) = Parent(w).trace_id
    BY <1>1, <1>3, ParentFacts
  <2>4. /\ Run(w) \in PosNat \X PosNat /\ Run(w)[1] = Held(w).job_id
        /\ Run(w)[2] = jobs[Held(w).job_id].attempt_count
    BY <1>1, <1>3, RunFacts
  <2>5. /\ Held(w).job_id \in DOMAIN jobs /\ jobs[Held(w).job_id].message_id = Held(w).message_id
        /\ jobs[Held(w).job_id].attempt_count \in Nat
    <3>1. Held(w).job_id \in DOMAIN jobs /\ jobs[Held(w).job_id].message_id = Held(w).message_id
      BY <1>1, <1>3, HeldFacts
    <3>2. jobs[Held(w).job_id] \in RowSet
      BY <1>1, <3>1 DEF TablesOK
    <3> QED BY <3>1, <3>2 DEF RowSet
  <2>6. /\ Held(w).job_id \in DOMAIN jobs' /\ jobs'[Held(w).job_id].state = "succeeded"
        /\ jobs'[Held(w).job_id].attempt_count = jobs[Held(w).job_id].attempt_count
        /\ jobs'[Held(w).job_id].message_id = Held(w).message_id
    BY <1>2, <2>5 DEF Ended, RowsKept
  <2>7. FromRun(out)'
    <3>1. \E p \in messages' : p.message_id = out.parent /\ p.trace_id = out.trace_id
      BY <1>3, <2>1, <2>3
    <3> QED BY <1>3, <2>3, <2>4, <2>5, <2>6, <3>1 DEF FromRun
  <2>8. MessagesOK'
    BY <1>1, <1>2, <1>3, <2>1, <2>2, <2>3, <2>7, MessagesGrow
  <2>9. HandoffExact'
    <3>1. \A m \in messages' \ messages : m = out
      BY <2>1
    <3>2. \A j \in DOMAIN jobs' \ DOMAIN jobs : \E m \in messages' :
               m.message_id = jobs'[j].message_id /\ NextStageOf(m) = jobs'[j].stage
      BY <1>2, <2>1 DEF Handed
    <3>3. messages \subseteq messages'
      BY <2>1
    <3>4. \A m \in messages' \ messages : m.contract # "IngestedAlert" /\ NextStageOf(m) # NoStage =>
               IsQueued(jobs', NextStageOf(m), m.message_id)
      BY <1>2, <1>5, <3>1 DEF Handed
    <3> QED BY <1>1, <1>2, <3>2, <3>3, <3>4, HandoffGrow
  <2> QED BY <1>2, <2>8, <2>9 DEF QueueInv
<1> QED BY <1>4, <1>5

LEMMA StoresInv ==
    ASSUME QueueInv, now' \in Nat, NEW a \in Alerts, StoresAlert(a)
    PROVE  QueueInv'
<1>1. TablesOK /\ LeasesOK /\ MessagesOK /\ HandoffExact
  BY DEF QueueInv
<1>2. /\ jobs' = jobs
      /\ messages' = IF IsStored(IngestMessage(a).idempotency_key) THEN messages
                     ELSE messages \cup {IngestMessage(a)}
  BY DEF StoresAlert, UpsertMessage
<1>3. TablesOK' /\ LeasesOK' /\ RowsKept
  BY <1>1, QuietSound DEF StoresAlert, Sound
<1>4. CASE IsStored(IngestMessage(a).idempotency_key)
  BY <1>1, <1>2, <1>3, <1>4, MessagesStay DEF QueueInv
<1>5. CASE ~IsStored(IngestMessage(a).idempotency_key)
  <2> DEFINE out == IngestMessage(a)
  <2>1. /\ out.trace_id = a /\ out.expiry_at = 0 /\ out.candidate = None /\ out.message_id = <<0, a>>
        /\ out.contract = "IngestedAlert" /\ out = IngestMessage(out.trace_id)
    BY IngestFacts
  <2>2. messages' = messages \cup {out} /\ \A m \in messages : m.idempotency_key # out.idempotency_key
    BY <1>2, <1>5 DEF IsStored
  <2>3. \A m \in messages : m.message_id # out.message_id
    <3> SUFFICES ASSUME NEW m \in messages, m.message_id = <<0, a>> PROVE FALSE
      BY <2>1
    <3>1. CASE m = IngestMessage(m.trace_id)
      <4>1. m.message_id = <<0, m.trace_id>>
        BY <1>1, <3>1, IngestFacts DEF MessagesOK
      <4>2. m.trace_id = a
        BY <4>1
      <4> QED BY <2>2, <3>1, <4>2
    <3>2. CASE FromRun(m)
      BY <3>2 DEF FromRun, PosNat
    <3> QED BY <1>1, <3>1, <3>2 DEF MessagesOK
  <2> HIDE DEF out
  <2>4. MessagesOK'
    BY <1>1, <1>3, <2>1, <2>2, <2>3, MessagesGrow
  <2>5. HandoffExact'
    BY <1>1, <1>2, <1>3, <2>1, <2>2, HandoffGrow
  <2> QED BY <1>3, <2>4, <2>5 DEF QueueInv
<1> QED BY <1>4, <1>5

LEMMA QueueStepInv ==
    ASSUME QueueInv, now' \in Nat, QueueStep
    PROVE  QueueInv'
<1>1. TablesOK /\ LeasesOK /\ MessagesOK /\ HandoffExact
  BY DEF QueueInv
<1>2. CASE Quiet
  BY <1>1, <1>2, QuietSound, MessagesStay DEF Quiet, Sound, QueueInv
<1>3. ASSUME NEW a \in Alerts, StoresAlert(a) PROVE QueueInv'
  BY <1>3, StoresInv
<1>4. ASSUME NEW a \in Alerts, QueuesAlert(a) PROVE QueueInv'
  <2>1. /\ TablesOK' /\ LeasesOK' /\ RowsKept
        /\ \A k \in DOMAIN jobs' \ DOMAIN jobs : jobs'[k] = NewJob("research", <<0, a>>, now)
    BY <1>1, <1>4, QueuesSound DEF Sound
  <2>2. messages' = messages /\ IngestMessage(a) \in messages
    BY <1>4 DEF QueuesAlert
  <2>3. MessagesOK'
    BY <1>1, <2>1, <2>2, MessagesStay
  <2>4. \A k \in DOMAIN jobs' \ DOMAIN jobs : \E m \in messages' :
            m.message_id = jobs'[k].message_id /\ NextStageOf(m) = jobs'[k].stage
    <3>1. IngestMessage(a).message_id = <<0, a>> /\ NextStageOf(IngestMessage(a)) = "research"
      BY IngestFacts
    <3>2. \A k \in DOMAIN jobs' \ DOMAIN jobs : jobs'[k].stage = "research" /\ jobs'[k].message_id = <<0, a>>
      BY <2>1 DEF NewJob
    <3> QED BY <2>2, <3>1, <3>2
  <2>5. HandoffExact'
    BY <1>1, <2>1, <2>2, <2>4, HandoffGrow
  <2> QED BY <2>1, <2>3, <2>5 DEF QueueInv
<1>5. ASSUME NEW w \in Workers, NEW c, Moves(w, c) PROVE QueueInv'
  <2>1. DOMAIN jobs' = DOMAIN jobs /\ messages' = messages
    BY <1>5 DEF Moves
  <2> QED BY <1>1, <1>5, <2>1, MovesSound, MessagesStay DEF Sound, QueueInv
<1>6. ASSUME NEW w \in Workers, Quits(w) PROVE QueueInv'
  <2>1. DOMAIN jobs' = DOMAIN jobs /\ messages' = messages
    BY <1>6 DEF Quits
  <2> QED BY <1>1, <1>6, <2>1, QuitsSound, MessagesStay DEF Sound, QueueInv
<1>7. ASSUME NEW w \in Workers, NEW j \in DOMAIN jobs, Takes(w, j) PROVE QueueInv'
  <2>1. messages' = messages
    BY <1>7 DEF Takes
  <2> QED BY <1>1, <1>7, <2>1, TakesSound, MessagesStay DEF Sound, QueueInv
<1>8. ASSUME NEW w \in Workers, Finishes(w) PROVE QueueInv'
  <2>1. messages' = messages
    BY <1>8 DEF Finishes
  <2> QED BY <1>1, <1>8, <2>1, FinishesSound, MessagesStay DEF Sound, QueueInv
<1>9. ASSUME NEW w \in Workers, NEW delay \in Nat, NEW limit \in Nat, Retries(w, delay, limit)
      PROVE  QueueInv'
  <2>1. messages' = messages
    BY <1>9 DEF Retries
  <2> QED BY <1>1, <1>9, <2>1, RetriesSound, MessagesStay DEF Sound, QueueInv
<1>10. ASSUME NEW w \in Workers, NEW out, NEW at, Emits(w, out, at) PROVE QueueInv'
  BY <1>10, EmitsInv
<1> QED BY <1>2, <1>3, <1>4, <1>5, <1>6, <1>7, <1>8, <1>9, <1>10 DEF QueueStep
=============================================================================
