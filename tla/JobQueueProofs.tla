--------------------------- MODULE JobQueueProofs ---------------------------
(***************************************************************************)
(* Proofs about JobQueue for every set of workers, stages and messages,    *)
(* every retry limit, delay and lease length, with crashes anywhere.       *)
(***************************************************************************)
EXTENDS JobQueue, TLAPS

-----------------------------------------------------------------------------
\* The invariant as it reads of a single job row and its runs, of the two
\* tables, and of the dead letters, so that lemmas can speak of updated tables.
RowOK(row, hist) ==
    /\ Len(hist) = row.attempt_count
    /\ row.state = "queued" <=> hist = <<>>
    /\ \A r \in DOMAIN hist : hist[r] = IF r < Len(hist) THEN "retry_wait" ELSE row.state
    /\ \E n \in AttemptLimits :
         /\ row.attempt_count <= n
         /\ row.state \in {"queued", "retry_wait"} => row.attempt_count < n

Unique(T) == \A j, k \in DOMAIN T :
                T[j].stage = T[k].stage /\ T[j].message_id = T[k].message_id => j = k

WellFormed(T, R) ==
    /\ T \in Seq(JobRows)
    /\ R \in Seq(Seq(JobStates))
    /\ Len(R) = Len(T)
    /\ \A j \in DOMAIN T : RowOK(T[j], R[j])
    /\ Unique(T)

DeadOK(T, D) ==
    /\ D \in Seq(Nat \ {0})
    /\ \A i \in DOMAIN D : D[i] \in DOMAIN T
    /\ \A j \in DOMAIN T : T[j].state = "dead_letter" <=> \E i \in DOMAIN D : D[i] = j
    /\ \A i, k \in DOMAIN D : D[i] = D[k] => i = k

-----------------------------------------------------------------------------
\* What _enqueue_job_conn does to a job table: existing rows stay, at most one
\* row is added, and it is the new queued job of a pair that was not there.
LEMMA EnqueuedFacts ==
    ASSUME NEW T \in Seq(JobRows), NEW s \in Stages, NEW m \in MessageIds, NEW at \in Nat
    PROVE  LET E == Enqueued(T, s, m, at) IN
           /\ E \in Seq(JobRows)
           /\ \/ E = T
              \/ /\ ~IsQueued(T, s, m)
                 /\ Len(E) = Len(T) + 1
                 /\ E[Len(E)] = NewJob(s, m, at)
                 /\ \A j \in DOMAIN T : E[j] = T[j]
<1>1. NewJob(s, m, at) \in JobRows
  BY DEF NewJob, JobRows, JobStates, NULL
<1>2. CASE IsQueued(T, s, m)
  BY <1>2 DEF Enqueued
<1>3. CASE ~IsQueued(T, s, m)
  <2>1. Enqueued(T, s, m, at) = Append(T, NewJob(s, m, at))
    BY <1>3 DEF Enqueued
  <2> QED BY <1>1, <1>3, <2>1
<1> QED BY <1>2, <1>3
\* Enqueueing keeps the tables well formed and is no business of the dead letters.
LEMMA EnqueueWellFormed ==
    ASSUME NEW T, NEW R, WellFormed(T, R),
           NEW s \in Stages, NEW m \in MessageIds, NEW at \in Nat
    PROVE  LET E == Enqueued(T, s, m, at) IN
           /\ WellFormed(E, RunsFor(R, E))
           /\ DOMAIN T \subseteq DOMAIN E
           /\ \A j \in DOMAIN T : E[j] = T[j] /\ RunsFor(R, E)[j] = R[j]
           /\ \A D : DeadOK(T, D) => DeadOK(E, D)
<1> DEFINE E == Enqueued(T, s, m, at)
           Q == RunsFor(R, E)
<1>0. T \in Seq(JobRows) /\ R \in Seq(Seq(JobStates)) /\ Len(R) = Len(T)
  BY DEF WellFormed
<1>1. /\ E \in Seq(JobRows)
      /\ \/ E = T
         \/ /\ ~IsQueued(T, s, m)
            /\ Len(E) = Len(T) + 1
            /\ E[Len(E)] = NewJob(s, m, at)
            /\ \A j \in DOMAIN T : E[j] = T[j]
  BY <1>0, EnqueuedFacts
<1> HIDE DEF E
<1>2. /\ Q \in Seq(Seq(JobStates)) /\ Len(Q) = Len(E)
      /\ \A j \in DOMAIN E : Q[j] = IF j \in DOMAIN T THEN R[j] ELSE <<>>
  <2>1. \A j \in DOMAIN E : (IF j \in DOMAIN R THEN R[j] ELSE <<>>) \in Seq(JobStates)
    BY <1>0
  <2>2. DOMAIN E = 1 .. Len(E) /\ Len(E) \in Nat
    BY <1>1
  <2> QED BY <1>0, <2>1, <2>2 DEF RunsFor
<1> HIDE DEF Q
<1>3. CASE E = T
  <2>1. \A j \in DOMAIN T : Q[j] = R[j]
    BY <1>2, <1>3
  <2>2. \A j \in DOMAIN E : RowOK(E[j], Q[j])
    BY <1>3, <2>1 DEF WellFormed
  <2>3. WellFormed(E, Q)
    BY <1>1, <1>2, <1>3, <2>2 DEF WellFormed
  <2> QED BY <1>3, <2>1, <2>3 DEF E, Q
<1>4. CASE E # T
  <2>1. /\ ~IsQueued(T, s, m) /\ Len(E) = Len(T) + 1
        /\ E[Len(E)] = NewJob(s, m, at) /\ \A j \in DOMAIN T : E[j] = T[j]
    BY <1>1, <1>4
  <2>2. /\ DOMAIN E = DOMAIN T \cup {Len(E)} /\ Len(E) \notin DOMAIN T
    BY <1>0, <1>1, <2>1
  <2>3. RowOK(NewJob(s, m, at), <<>>)
    <3>0. PICK n : n \in AttemptLimits
      BY LimitsAssumption, Zenon
    <3>1. n \in Nat /\ 0 < n
      BY <3>0, LimitsAssumption
    <3>2. Len(<<>>) = 0 /\ DOMAIN <<>> = {}
      OBVIOUS
    <3> QED BY <3>0, <3>1, <3>2 DEF RowOK, NewJob
  <2>4. \A j \in DOMAIN E : RowOK(E[j], Q[j])
    BY <1>2, <2>1, <2>2, <2>3 DEF WellFormed
  <2>5. Unique(E)
    <3>1. \A j \in DOMAIN T : ~(E[j].stage = s /\ E[j].message_id = m)
      BY <2>1 DEF IsQueued
    <3>2. E[Len(E)].stage = s /\ E[Len(E)].message_id = m
      BY <2>1 DEF NewJob
    <3> QED BY <2>1, <2>2, <3>1, <3>2 DEF Unique, WellFormed
  <2>6. \A D : DeadOK(T, D) => DeadOK(E, D)
    <3> SUFFICES ASSUME NEW D, DeadOK(T, D) PROVE DeadOK(E, D)
      OBVIOUS
    <3>1. E[Len(E)].state # "dead_letter"
      BY <2>1 DEF NewJob
    <3> QED BY <2>1, <2>2, <3>1 DEF DeadOK
  <2>7. /\ DOMAIN T \subseteq DOMAIN E
        /\ \A j \in DOMAIN T : E[j] = T[j] /\ Q[j] = R[j]
    BY <1>2, <2>1, <2>2
  <2>8. WellFormed(E, Q)
    BY <1>1, <1>2, <2>4, <2>5 DEF WellFormed
  <2> QED BY <2>6, <2>7, <2>8 DEF E, Q
<1> QED BY <1>3, <1>4

\* Replacing a row by one that keeps stage and message and fits its runs.
LEMMA UpdateWellFormed ==
    ASSUME NEW T, NEW R, WellFormed(T, R), NEW j \in DOMAIN T,
           NEW row \in JobRows, NEW hist \in Seq(JobStates),
           row.stage = T[j].stage, row.message_id = T[j].message_id,
           RowOK(row, hist)
    PROVE  WellFormed([T EXCEPT ![j] = row], [R EXCEPT ![j] = hist])
<1> DEFINE E == [T EXCEPT ![j] = row]
           Q == [R EXCEPT ![j] = hist]
<1>0. T \in Seq(JobRows) /\ R \in Seq(Seq(JobStates)) /\ Len(R) = Len(T)
  BY DEF WellFormed
<1>1. E \in Seq(JobRows) /\ Len(E) = Len(T) /\ DOMAIN E = DOMAIN T
  BY <1>0
<1>2. Q \in Seq(Seq(JobStates)) /\ Len(Q) = Len(R) /\ DOMAIN Q = DOMAIN T
  BY <1>0
<1>3. \A k \in DOMAIN T : /\ E[k] = IF k = j THEN row ELSE T[k]
                          /\ Q[k] = IF k = j THEN hist ELSE R[k]
  BY <1>0
<1> HIDE DEF E, Q
<1>4. \A k \in DOMAIN E : RowOK(E[k], Q[k])
  BY <1>1, <1>3 DEF WellFormed
<1>5. Unique(E)
  BY <1>1, <1>3 DEF WellFormed, Unique
<1> QED BY <1>0, <1>1, <1>2, <1>4, <1>5 DEF WellFormed, E, Q
\* The end of a run: the job's last run and its row take the same new state.
LEMMA FinishWellFormed ==
    ASSUME NEW T, NEW R, WellFormed(T, R), NEW j \in DOMAIN T,
           T[j].state \in {"running", "succeeded"},
           NEW st \in {"succeeded", "retry_wait", "dead_letter"}, NEW at \in Nat,
           st = "retry_wait" => \E n \in AttemptLimits : T[j].attempt_count < n
    PROVE  /\ Len(R[j]) \in DOMAIN R[j]
           /\ WellFormed([T EXCEPT ![j] = [T[j] EXCEPT !.state = st, !.leased_until = NULL,
                                                      !.available_at = at]],
                         [R EXCEPT ![j] = [R[j] EXCEPT ![Len(R[j])] = st]])
<1> DEFINE row == [T[j] EXCEPT !.state = st, !.leased_until = NULL, !.available_at = at]
           hist == [R[j] EXCEPT ![Len(R[j])] = st]
<1>1. T[j] \in JobRows /\ R[j] \in Seq(JobStates) /\ RowOK(T[j], R[j])
  BY DEF WellFormed
<1>2. R[j] # <<>> /\ Len(R[j]) = T[j].attempt_count
  BY <1>1 DEF RowOK
<1>3. Len(R[j]) \in DOMAIN R[j]
  BY <1>1, <1>2
<1>4. /\ row \in JobRows
      /\ row.stage = T[j].stage /\ row.message_id = T[j].message_id
      /\ row.state = st /\ row.attempt_count = T[j].attempt_count
  BY <1>1 DEF JobRows, JobStates, NULL
<1>5. /\ hist \in Seq(JobStates) /\ Len(hist) = Len(R[j])
      /\ \A r \in DOMAIN hist : hist[r] = IF r = Len(R[j]) THEN st ELSE R[j][r]
  BY <1>1, <1>3 DEF JobStates
<1> HIDE DEF row, hist
<1>6. RowOK(row, hist)
  <2>1. row.state = "queued" <=> hist = <<>>
    BY <1>3, <1>4, <1>5
  <2>2. \A r \in DOMAIN hist : hist[r] = IF r < Len(hist) THEN "retry_wait" ELSE row.state
    BY <1>1, <1>4, <1>5 DEF RowOK
  <2>3. \E n \in AttemptLimits :
          /\ row.attempt_count <= n
          /\ row.state \in {"queued", "retry_wait"} => row.attempt_count < n
    <3>1. CASE st = "retry_wait"
      <4>1. PICK n \in AttemptLimits : T[j].attempt_count < n
        BY <3>1
      <4>2. T[j].attempt_count \in Nat /\ n \in Nat
        BY <1>1, <4>1, LimitsAssumption DEF JobRows
      <4> QED BY <1>4, <4>1, <4>2
    <3>2. CASE st # "retry_wait"
      BY <1>1, <1>4, <3>2 DEF RowOK
    <3> QED BY <3>1, <3>2
  <2> QED BY <1>2, <1>4, <1>5, <2>1, <2>2, <2>3 DEF RowOK
<1> QED BY <1>3, <1>4, <1>5, <1>6, UpdateWellFormed DEF row, hist

\* Leasing a job that waits: one more attempt and one more run, both running.
LEMMA LeaseWellFormed ==
    ASSUME NEW T, NEW R, WellFormed(T, R), NEW j \in DOMAIN T,
           T[j].state \in {"queued", "retry_wait"}, NEW until \in Nat
    PROVE  WellFormed([T EXCEPT ![j] = [T[j] EXCEPT !.state = "running",
                                                   !.attempt_count = T[j].attempt_count + 1,
                                                   !.leased_until = until]],
                      [R EXCEPT ![j] = Append(R[j], "running")])
<1> DEFINE row == [T[j] EXCEPT !.state = "running", !.attempt_count = T[j].attempt_count + 1,
                               !.leased_until = until]
           hist == Append(R[j], "running")
<1>1. T[j] \in JobRows /\ R[j] \in Seq(JobStates) /\ RowOK(T[j], R[j])
  BY DEF WellFormed
<1>2. /\ row \in JobRows
      /\ row.stage = T[j].stage /\ row.message_id = T[j].message_id
      /\ row.state = "running" /\ row.attempt_count = T[j].attempt_count + 1
  <2>1. T[j].attempt_count + 1 \in Nat /\ "running" \in JobStates
    BY <1>1 DEF JobRows, JobStates
  <2> QED BY <1>1, <2>1 DEF JobRows
<1>3. /\ hist \in Seq(JobStates) /\ Len(hist) = Len(R[j]) + 1
      /\ DOMAIN hist = 1 .. (Len(R[j]) + 1)
      /\ \A r \in DOMAIN hist : hist[r] = IF r = Len(hist) THEN "running" ELSE R[j][r]
  BY <1>1 DEF JobStates
<1> HIDE DEF row, hist
<1>4. \A r \in DOMAIN R[j] : R[j][r] = "retry_wait"
  <2>1. CASE T[j].state = "queued"
    <3>1. R[j] = <<>>
      BY <1>1, <2>1 DEF RowOK
    <3> QED BY <3>1
  <2>2. CASE T[j].state = "retry_wait"
    BY <1>1, <2>2 DEF RowOK
  <2> QED BY <2>1, <2>2
<1>5. RowOK(row, hist)
  <2>1. Len(hist) = row.attempt_count
    BY <1>1, <1>2, <1>3 DEF RowOK
  <2>2. row.state # "queued" /\ hist # <<>>
    BY <1>1, <1>2, <1>3
  <2>3. \A r \in DOMAIN hist : hist[r] = IF r < Len(hist) THEN "retry_wait" ELSE row.state
    <3> SUFFICES ASSUME NEW r \in DOMAIN hist
                 PROVE  hist[r] = IF r < Len(hist) THEN "retry_wait" ELSE row.state
      OBVIOUS
    <3>1. Len(R[j]) \in Nat /\ DOMAIN R[j] = 1 .. Len(R[j])
      BY <1>1
    <3>2. r \in 1 .. Len(R[j]) \/ r = Len(hist)
      BY <1>3, <3>1
    <3> QED BY <1>2, <1>3, <1>4, <3>1, <3>2
  <2>4. \E n \in AttemptLimits : row.attempt_count <= n
    <3>1. PICK n \in AttemptLimits : T[j].attempt_count < n
      BY <1>1 DEF RowOK
    <3>2. T[j].attempt_count \in Nat /\ n \in Nat
      BY <1>1, <3>1, LimitsAssumption DEF JobRows
    <3> QED BY <1>2, <3>1, <3>2
  <2> QED BY <1>2, <2>1, <2>2, <2>3, <2>4 DEF RowOK
<1> QED BY <1>2, <1>3, <1>5, UpdateWellFormed DEF row, hist
-----------------------------------------------------------------------------
LeaseTypes == /\ lease \in [Workers -> Seq(JobLeases)]
              /\ \A w \in Workers : Len(lease[w]) <= 1
              /\ phase \in [Workers -> Phases]

\* The inductive invariant.
IndInv == /\ now \in Nat
          /\ WellFormed(jobs, runs)
          /\ DeadOK(jobs, dead_letters)
          /\ LeaseTypes
          /\ LeaseExclusive
          /\ LeaseCurrent

\* What a worker that is not idle knows about its job.
LEMMA HeldFacts ==
    ASSUME IndInv, NEW w \in Workers, phase[w] # "idle"
    PROVE  /\ Holds(w)
           /\ Held(w) \in JobLeases
           /\ Held(w).job_id \in DOMAIN jobs
           /\ Held(w).run_id = Len(runs[Held(w).job_id])
           /\ Held(w).attempt_count = jobs[Held(w).job_id].attempt_count
           /\ jobs[Held(w).job_id].state = IF phase[w] = "working" THEN "running" ELSE "succeeded"
<1>1. Holds(w)
  BY DEF IndInv, LeaseCurrent
<1>2. Held(w) \in JobLeases
  BY <1>1 DEF IndInv, LeaseTypes, Holds, Held
<1> QED BY <1>1, <1>2 DEF IndInv, LeaseCurrent

\* A worker lets go of its lease and every other worker's rows are as before.
LEMMA ReleaseKeepsLeases ==
    ASSUME IndInv, NEW w \in Workers, Release(w),
           \A v \in Workers \ {w} : Holds(v) =>
               /\ Held(v).job_id \in DOMAIN jobs'
               /\ jobs'[Held(v).job_id] = jobs[Held(v).job_id]
               /\ runs'[Held(v).job_id] = runs[Held(v).job_id]
    PROVE  LeaseTypes' /\ LeaseExclusive' /\ LeaseCurrent'
<1>1. /\ lease' \in [Workers -> Seq(JobLeases)] /\ phase' \in [Workers -> Phases]
      /\ lease'[w] = <<>> /\ phase'[w] = "idle"
      /\ \A v \in Workers \ {w} : lease'[v] = lease[v] /\ phase'[v] = phase[v]
  BY DEF Release, IndInv, LeaseTypes, Phases
<1>2. LeaseTypes'
  <2>1. \A v \in Workers : Len(lease'[v]) <= 1
    BY <1>1 DEF IndInv, LeaseTypes
  <2> QED BY <1>1, <2>1 DEF LeaseTypes
<1>a. \A v \in Workers : Holds(v)' => v # w /\ Holds(v) /\ Held(v)' = Held(v)
  BY <1>1 DEF Holds, Held
<1>3. LeaseExclusive'
  BY <1>a DEF IndInv, LeaseExclusive
<1>4. LeaseCurrent'
  <2> SUFFICES ASSUME NEW v \in Workers
               PROVE  /\ Holds(v)' <=> phase'[v] # "idle"
                      /\ Holds(v)' => LET l == Held(v)' IN
                            /\ l.job_id \in DOMAIN jobs'
                            /\ l.run_id = Len(runs'[l.job_id])
                            /\ l.attempt_count = jobs'[l.job_id].attempt_count
                            /\ l.message_id = jobs'[l.job_id].message_id
                            /\ l.stage = jobs'[l.job_id].stage
                            /\ jobs'[l.job_id].state =
                                 IF phase'[v] = "working" THEN "running" ELSE "succeeded"
    BY DEF LeaseCurrent
  <2>1. CASE v = w
    BY <1>1, <2>1 DEF Holds
  <2>2. CASE v # w
    <3>1. Holds(v)' <=> phase'[v] # "idle"
      BY <1>1, <2>2 DEF IndInv, LeaseCurrent, Holds
    <3>2. phase'[v] = phase[v]
      BY <1>1, <2>2
    <3> QED BY <1>a, <2>2, <3>1, <3>2 DEF IndInv, LeaseCurrent
  <2> QED BY <2>1, <2>2
<1> QED BY <1>2, <1>3, <1>4

\* Every worker keeps its lease and phase, and every leased row is as before.
LEMMA UnchangedLeases ==
    ASSUME IndInv, UNCHANGED <<lease, phase>>,
           DOMAIN jobs \subseteq DOMAIN jobs',
           \A j \in DOMAIN jobs : jobs'[j] = jobs[j] /\ runs'[j] = runs[j]
    PROVE  LeaseTypes' /\ LeaseExclusive' /\ LeaseCurrent'
<1>1. LeaseTypes' /\ LeaseExclusive'
  BY DEF IndInv, LeaseTypes, LeaseExclusive, Holds, Held
<1>2. LeaseCurrent'
  BY DEF IndInv, LeaseCurrent, Holds, Held
<1> QED BY <1>1, <1>2

\* Enqueue.
LEMMA EnqueueStep == ASSUME IndInv, NEW m \in MessageIds, Enqueue(m) PROVE IndInv'
<1> DEFINE E == Enqueued(jobs, IngressStage, m, now)
<1>1. /\ WellFormed(jobs, runs) /\ DeadOK(jobs, dead_letters)
      /\ IngressStage \in Stages /\ now \in Nat
  BY WorkersAssumption DEF IndInv
<1>2. /\ jobs' = E /\ runs' = RunsFor(runs, E)
      /\ dead_letters' = dead_letters /\ now' = now /\ UNCHANGED <<lease, phase>>
  BY DEF Enqueue, EnqueueJob
<1> HIDE DEF E
<1>3. /\ WellFormed(E, RunsFor(runs, E))
      /\ DOMAIN jobs \subseteq DOMAIN E
      /\ \A j \in DOMAIN jobs : E[j] = jobs[j] /\ RunsFor(runs, E)[j] = runs[j]
      /\ DeadOK(E, dead_letters)
  BY <1>1, EnqueueWellFormed DEF E
<1>4. WellFormed(jobs', runs') /\ DeadOK(jobs', dead_letters')
  BY <1>2, <1>3
<1>5. LeaseTypes' /\ LeaseExclusive' /\ LeaseCurrent'
  BY <1>2, <1>3, UnchangedLeases
<1> QED BY <1>1, <1>2, <1>4, <1>5 DEF IndInv
\* The dead letters after job j's row changed: a row more exactly when j died.
LEMMA DeadAfterUpdate ==
    ASSUME NEW T, NEW U, NEW D, DeadOK(T, D), T \in Seq(JobRows), NEW j \in DOMAIN T,
           T[j].state # "dead_letter", DOMAIN U = DOMAIN T,
           \A k \in DOMAIN T \ {j} : U[k] = T[k]
    PROVE  /\ U[j].state # "dead_letter" => DeadOK(U, D)
           /\ U[j].state = "dead_letter" => DeadOK(U, Append(D, j))
<1>1. ASSUME U[j].state # "dead_letter" PROVE DeadOK(U, D)
  BY <1>1 DEF DeadOK
<1>2. ASSUME U[j].state = "dead_letter" PROVE DeadOK(U, Append(D, j))
  <2> DEFINE A == Append(D, j)
  <2>1. D \in Seq(Nat \ {0}) /\ j \in Nat \ {0}
    BY DEF DeadOK
  <2>2. /\ A \in Seq(Nat \ {0}) /\ DOMAIN A = DOMAIN D \cup {Len(D) + 1}
        /\ Len(D) + 1 \notin DOMAIN D /\ A[Len(D) + 1] = j
        /\ \A i \in DOMAIN D : A[i] = D[i]
    BY <2>1
  <2> HIDE DEF A
  <2>3. \A i \in DOMAIN D : D[i] # j
    BY DEF DeadOK
  <2>4. \A i \in DOMAIN A : A[i] \in DOMAIN U
    BY <2>2 DEF DeadOK
  <2>5. \A k \in DOMAIN U : U[k].state = "dead_letter" <=> \E i \in DOMAIN A : A[i] = k
    <3> SUFFICES ASSUME NEW k \in DOMAIN U
                 PROVE  U[k].state = "dead_letter" <=> \E i \in DOMAIN A : A[i] = k
      OBVIOUS
    <3>1. CASE k = j
      BY <1>2, <2>2, <3>1
    <3>2. CASE k # j
      BY <2>2, <3>2 DEF DeadOK
    <3> QED BY <3>1, <3>2
  <2>6. \A i, k \in DOMAIN A : A[i] = A[k] => i = k
    BY <2>2, <2>3 DEF DeadOK
  <2>7. DeadOK(U, A)
    BY <2>2, <2>4, <2>5, <2>6 DEF DeadOK
  <2> QED BY <2>7 DEF A
<1> QED BY <1>1, <1>2

\* A holder w ends its job's run in state st: the tables it leaves behind.
EndRun(w, st, at) ==
    LET j == Held(w).job_id IN
    /\ jobs' = [jobs EXCEPT ![j] = [jobs[j] EXCEPT !.state = st, !.leased_until = NULL,
                                                  !.available_at = at]]
    /\ runs' = [runs EXCEPT ![j] = [runs[j] EXCEPT ![Len(runs[j])] = st]]
    /\ dead_letters' = IF st = "dead_letter" THEN Append(dead_letters, j) ELSE dead_letters

LEMMA EndRunTables ==
    ASSUME IndInv, NEW w \in Workers, phase[w] # "idle",
           NEW st \in {"succeeded", "retry_wait", "dead_letter"}, NEW at \in Nat,
           st = "retry_wait" =>
               \E n \in AttemptLimits : jobs[Held(w).job_id].attempt_count < n,
           EndRun(w, st, at)
    PROVE  /\ WellFormed(jobs', runs') /\ DeadOK(jobs', dead_letters')
           /\ DOMAIN jobs' = DOMAIN jobs
           /\ jobs'[Held(w).job_id].state = st
           /\ \A v \in Workers \ {w} : Holds(v) =>
                 /\ Held(v).job_id \in DOMAIN jobs'
                 /\ jobs'[Held(v).job_id] = jobs[Held(v).job_id]
                 /\ runs'[Held(v).job_id] = runs[Held(v).job_id]
<1> DEFINE j == Held(w).job_id
<1>1. j \in DOMAIN jobs /\ jobs[j].state \in {"running", "succeeded"}
  BY HeldFacts
<1>2. /\ WellFormed(jobs, runs) /\ DeadOK(jobs, dead_letters)
      /\ jobs \in Seq(JobRows) /\ runs \in Seq(Seq(JobStates)) /\ Len(runs) = Len(jobs)
  BY DEF IndInv, WellFormed
<1> HIDE DEF j
<1>3. WellFormed(jobs', runs')
  BY <1>1, <1>2, FinishWellFormed DEF EndRun, j
<1>4. /\ DOMAIN jobs' = DOMAIN jobs /\ jobs'[j].state = st
      /\ \A k \in DOMAIN jobs \ {j} : jobs'[k] = jobs[k] /\ runs'[k] = runs[k]
  <2>1. jobs[j] \in JobRows /\ DOMAIN runs = DOMAIN jobs
    BY <1>1, <1>2
  <2>2. [jobs[j] EXCEPT !.state = st, !.leased_until = NULL, !.available_at = at].state = st
    BY <2>1 DEF JobRows
  <2> QED BY <1>1, <1>2, <2>1, <2>2 DEF EndRun, j
<1>5. DeadOK(jobs', dead_letters')
  BY <1>1, <1>2, <1>4, DeadAfterUpdate DEF EndRun, j
<1>6. \A v \in Workers \ {w} : Holds(v) => Held(v).job_id \in DOMAIN jobs \ {j}
  BY HeldFacts DEF IndInv, LeaseExclusive, LeaseCurrent, j
<1> QED BY <1>3, <1>4, <1>5, <1>6 DEF j

LEMMA EndRunStep ==
    ASSUME IndInv, NEW w \in Workers, phase[w] # "idle",
           NEW st \in {"succeeded", "retry_wait", "dead_letter"}, NEW at \in Nat,
           st = "retry_wait" =>
               \E n \in AttemptLimits : jobs[Held(w).job_id].attempt_count < n,
           EndRun(w, st, at), Release(w), now' = now
    PROVE  IndInv'
<1>1. WellFormed(jobs', runs') /\ DeadOK(jobs', dead_letters')
  BY EndRunTables
<1>2. LeaseTypes' /\ LeaseExclusive' /\ LeaseCurrent'
  BY EndRunTables, ReleaseKeepsLeases
<1> QED BY <1>1, <1>2 DEF IndInv
\* The transactions that end a run are instances of EndRun.
LEMMA DeadLetterEndsRun ==
    ASSUME IndInv, NEW w \in Workers, phase[w] # "idle", DeadLetterJob(Held(w))
    PROVE  /\ jobs[Held(w).job_id].available_at \in Nat
           /\ EndRun(w, "dead_letter", jobs[Held(w).job_id].available_at)
<1> DEFINE j == Held(w).job_id
<1>1. /\ j \in DOMAIN jobs /\ jobs[j] \in JobRows /\ Held(w).run_id = Len(runs[j])
      /\ j \in DOMAIN runs
  BY HeldFacts DEF IndInv, WellFormed
<1>2. jobs[j].available_at \in Nat
  BY <1>1 DEF JobRows
<1> HIDE DEF j
<1>3. jobs' = [jobs EXCEPT ![j] = [jobs[j] EXCEPT !.state = "dead_letter",
                    !.leased_until = NULL, !.available_at = jobs[j].available_at]]
  BY <1>1 DEF DeadLetterJob, JobRows, j
<1>4. runs' = [runs EXCEPT ![j] = [runs[j] EXCEPT ![Len(runs[j])] = "dead_letter"]]
  BY <1>1 DEF DeadLetterJob, j
<1>5. dead_letters' = Append(dead_letters, j)
  BY DEF DeadLetterJob, j
<1> QED BY <1>2, <1>3, <1>4, <1>5 DEF EndRun, j

LEMMA RetryStep ==
    ASSUME IndInv, NEW w \in Workers, NEW d \in Delays, NEW n \in AttemptLimits, Retry(w, d, n)
    PROVE  IndInv'
<1> DEFINE j == Held(w).job_id
<1>1. /\ phase[w] # "idle" /\ Release(w) /\ now' = now
      /\ CompleteJobRetry(Held(w), d, n)
  BY DEF Retry, Held
<1>2. /\ j \in DOMAIN jobs /\ jobs[j] \in JobRows /\ Held(w).run_id = Len(runs[j])
      /\ j \in DOMAIN runs /\ Held(w).attempt_count = jobs[j].attempt_count
  BY <1>1, HeldFacts DEF IndInv, WellFormed
<1>3. jobs[j].attempt_count \in Nat /\ n \in Nat /\ now + d \in Nat
  BY <1>2, LimitsAssumption DEF JobRows, IndInv
<1> HIDE DEF j
<1>4. CASE jobs[j].attempt_count >= n
  <2>1. DeadLetterJob(Held(w))
    BY <1>1, <1>2, <1>4 DEF CompleteJobRetry
  <2> QED BY <1>1, <2>1, DeadLetterEndsRun, EndRunStep
<1>5. CASE ~(jobs[j].attempt_count >= n)
  <2>1. RetryLater(Held(w), d)
    BY <1>1, <1>2, <1>5 DEF CompleteJobRetry
  <2>2. jobs' = [jobs EXCEPT ![j] = [jobs[j] EXCEPT !.state = "retry_wait",
                      !.leased_until = NULL, !.available_at = now + d]]
    BY <1>2, <2>1 DEF RetryLater, JobRows, j
  <2>3. runs' = [runs EXCEPT ![j] = [runs[j] EXCEPT ![Len(runs[j])] = "retry_wait"]]
    BY <1>2, <2>1 DEF RetryLater, j
  <2>4. EndRun(w, "retry_wait", now + d)
    BY <2>1, <2>2, <2>3 DEF EndRun, RetryLater, j
  <2>5. jobs[j].attempt_count < n
    BY <1>3, <1>5
  <2> QED BY <1>1, <1>3, <2>4, <2>5, EndRunStep DEF j
<1> QED BY <1>4, <1>5

LEMMA GiveUpStep == ASSUME IndInv, NEW w \in Workers, GiveUp(w) PROVE IndInv'
<1>1. phase[w] # "idle" /\ DeadLetterJob(Held(w)) /\ Release(w) /\ now' = now
  BY DEF GiveUp, Held
<1> QED BY <1>1, DeadLetterEndsRun, EndRunStep

\* Return and Crash only drop the lease.
LEMMA DropStep ==
    ASSUME IndInv, NEW w \in Workers, Return(w) \/ Crash(w)
    PROVE  IndInv'
<1>1. Release(w) /\ UNCHANGED <<now, jobs, runs, dead_letters>>
  BY DEF Return, Crash, tables
<1>2. LeaseTypes' /\ LeaseExclusive' /\ LeaseCurrent'
  <2>1. \A v \in Workers : Holds(v) => Held(v).job_id \in DOMAIN jobs
    BY DEF IndInv, LeaseCurrent
  <2> QED BY <1>1, <2>1, ReleaseKeepsLeases
<1> QED BY <1>1, <1>2 DEF IndInv

LEMMA TickStep == ASSUME IndInv, Tick PROVE IndInv'
<1>1. /\ now' \in Nat /\ UNCHANGED <<jobs, runs, dead_letters, lease, phase>>
  BY DEF Tick, tables, IndInv
<1>2. LeaseTypes' /\ LeaseExclusive' /\ LeaseCurrent'
  BY <1>1, UnchangedLeases
<1> QED BY <1>1, <1>2 DEF IndInv
\* complete_job_success: the run ends, and the next job may be enqueued.
LEMMA SuccessTables ==
    ASSUME IndInv, NEW w \in Workers, phase[w] # "idle", NEW next \in NextJob,
           CompleteJobSuccess(Held(w), next)
    PROVE  LET j == Held(w).job_id IN
           /\ WellFormed(jobs', runs') /\ DeadOK(jobs', dead_letters')
           /\ DOMAIN jobs \subseteq DOMAIN jobs'
           /\ \A k \in DOMAIN jobs \ {j} : jobs'[k] = jobs[k] /\ runs'[k] = runs[k]
           /\ jobs'[j].state = "succeeded"
           /\ jobs'[j].attempt_count = jobs[j].attempt_count
           /\ jobs'[j].stage = jobs[j].stage /\ jobs'[j].message_id = jobs[j].message_id
           /\ Len(runs'[j]) = Len(runs[j])
<1> DEFINE j == Held(w).job_id
           done == [jobs EXCEPT ![j].state = "succeeded", ![j].leased_until = NULL]
           hist == [runs EXCEPT ![j][Held(w).run_id] = "succeeded"]
<1>1. /\ j \in DOMAIN jobs /\ jobs[j] \in JobRows /\ Held(w).run_id = Len(runs[j])
      /\ jobs[j].state \in {"running", "succeeded"} /\ j \in DOMAIN runs
      /\ runs[j] \in Seq(JobStates)
      /\ jobs \in Seq(JobRows) /\ runs \in Seq(Seq(JobStates)) /\ Len(runs) = Len(jobs)
      /\ WellFormed(jobs, runs) /\ DeadOK(jobs, dead_letters)
  BY HeldFacts DEF IndInv, WellFormed
<1> DEFINE row == [jobs[j] EXCEPT !.state = "succeeded", !.leased_until = NULL,
                                  !.available_at = jobs[j].available_at]
           last == [runs[j] EXCEPT ![Len(runs[j])] = "succeeded"]
<1>2. done = [jobs EXCEPT ![j] = row] /\ hist = [runs EXCEPT ![j] = last]
  BY <1>1 DEF JobRows
<1>3. /\ row.state = "succeeded" /\ row.attempt_count = jobs[j].attempt_count
      /\ row.stage = jobs[j].stage /\ row.message_id = jobs[j].message_id
      /\ Len(last) = Len(runs[j]) /\ jobs[j].available_at \in Nat
  BY <1>1 DEF JobRows
<1>4. /\ jobs' = IF next = <<>> THEN done
                  ELSE Enqueued(done, next[1].stage, next[1].message_id, next[1].available_at)
      /\ runs' = RunsFor(hist, jobs') /\ dead_letters' = dead_letters
  BY DEF CompleteJobSuccess
<1> HIDE DEF j, done, hist
<1>5. WellFormed(done, hist)
  <2>1. WellFormed([jobs EXCEPT ![j] = row], [runs EXCEPT ![j] = last])
    BY <1>1, <1>3, FinishWellFormed
  <2> QED BY <1>2, <2>1
<1> HIDE DEF row, last
<1>6. /\ DOMAIN done = DOMAIN jobs /\ done[j] = row /\ hist[j] = last
      /\ \A k \in DOMAIN jobs \ {j} : done[k] = jobs[k] /\ hist[k] = runs[k]
  BY <1>1, <1>2
<1>7. DeadOK(done, dead_letters)
  BY <1>1, <1>3, <1>6, DeadAfterUpdate
<1>8. /\ WellFormed(jobs', runs') /\ DeadOK(jobs', dead_letters')
      /\ DOMAIN done \subseteq DOMAIN jobs'
      /\ \A k \in DOMAIN done : jobs'[k] = done[k] /\ runs'[k] = hist[k]
  <2>1. CASE next = <<>>
    <3>1. DOMAIN hist = DOMAIN done /\ hist \in Seq(Seq(JobStates))
      BY <1>5 DEF WellFormed
    <3>2. RunsFor(hist, done) = hist
      BY <3>1 DEF RunsFor
    <3> QED BY <1>4, <1>5, <1>7, <2>1, <3>2
  <2>2. CASE next # <<>>
    <3>1. PICK s \in Stages, m \in MessageIds, at \in (0 .. now) \cup {now + d : d \in Delays} :
            next = <<[stage |-> s, message_id |-> m, available_at |-> at]>>
      BY <2>2 DEF NextJob
    <3>2. at \in Nat
      BY <3>1, LimitsAssumption DEF IndInv
    <3>3. jobs' = Enqueued(done, s, m, at)
      BY <1>4, <2>2, <3>1
    <3> QED BY <1>4, <1>5, <1>7, <3>2, <3>3, EnqueueWellFormed
  <2> QED BY <2>1, <2>2
<1> QED BY <1>1, <1>3, <1>6, <1>8 DEF j

LEMMA SucceedStep ==
    ASSUME IndInv, NEW w \in Workers, NEW more \in BOOLEAN, Succeed(w, more)
    PROVE  IndInv'
<1> DEFINE j == Held(w).job_id
<1> PICK next \in NextJob : CompleteJobSuccess(Held(w), next)
  BY DEF Succeed, Held
<1>1. /\ phase[w] # "idle" /\ CompleteJobSuccess(Held(w), next) /\ now' = now
      /\ IF more THEN phase' = [phase EXCEPT ![w] = "finishing"] /\ UNCHANGED lease
                 ELSE Release(w)
  BY DEF Succeed, Held
<1>2. /\ WellFormed(jobs', runs') /\ DeadOK(jobs', dead_letters')
      /\ DOMAIN jobs \subseteq DOMAIN jobs'
      /\ \A k \in DOMAIN jobs \ {j} : jobs'[k] = jobs[k] /\ runs'[k] = runs[k]
      /\ jobs'[j].state = "succeeded"
      /\ jobs'[j].attempt_count = jobs[j].attempt_count
      /\ jobs'[j].stage = jobs[j].stage /\ jobs'[j].message_id = jobs[j].message_id
      /\ Len(runs'[j]) = Len(runs[j])
  BY <1>1, SuccessTables
<1>3. \A v \in Workers : Holds(v) =>
        Held(v).job_id \in DOMAIN jobs /\ (v # w => Held(v).job_id # j)
  BY <1>1, HeldFacts DEF IndInv, LeaseExclusive, LeaseCurrent
<1> HIDE DEF j
<1>4. LeaseTypes' /\ LeaseExclusive' /\ LeaseCurrent'
  <2>1. CASE ~more
    BY <1>1, <1>2, <1>3, <2>1, ReleaseKeepsLeases
  <2>2. CASE more
    <3>1. /\ lease' = lease /\ phase' \in [Workers -> Phases] /\ phase'[w] = "finishing"
          /\ \A v \in Workers \ {w} : phase'[v] = phase[v]
      BY <1>1, <2>2 DEF IndInv, LeaseTypes, Phases
    <3>2. \A v \in Workers : (Holds(v)' <=> Holds(v)) /\ Held(v)' = Held(v)
      BY <3>1 DEF Holds, Held
    <3>3. LeaseTypes' /\ LeaseExclusive'
      BY <3>1, <3>2 DEF IndInv, LeaseTypes, LeaseExclusive
    <3>4. LeaseCurrent'
      <4> SUFFICES ASSUME NEW v \in Workers
                   PROVE  /\ Holds(v)' <=> phase'[v] # "idle"
                          /\ Holds(v)' => LET l == Held(v)' IN
                                /\ l.job_id \in DOMAIN jobs'
                                /\ l.run_id = Len(runs'[l.job_id])
                                /\ l.attempt_count = jobs'[l.job_id].attempt_count
                                /\ l.message_id = jobs'[l.job_id].message_id
                                /\ l.stage = jobs'[l.job_id].stage
                                /\ jobs'[l.job_id].state =
                                     IF phase'[v] = "working" THEN "running" ELSE "succeeded"
        BY DEF LeaseCurrent
      <4>1. CASE v = w
        BY <1>1, <1>2, <1>3, <3>1, <3>2, <4>1 DEF IndInv, LeaseCurrent, j
      <4>2. CASE v # w
        BY <1>2, <1>3, <3>1, <3>2, <4>2 DEF IndInv, LeaseCurrent
      <4> QED BY <4>1, <4>2
    <3> QED BY <3>3, <3>4
  <2> QED BY <2>1, <2>2
<1> QED BY <1>1, <1>2, <1>4 DEF IndInv

\* lease_next_job takes a waiting row, which no other worker can hold.
LEMMA LeaseStep == ASSUME IndInv, NEW w \in Workers, Lease(w) PROVE IndInv'
<1>1. PICK j \in DOMAIN jobs :
        /\ IsNextReady(StageOf[w], j) /\ LeaseNextJob(j)
        /\ lease' = [lease EXCEPT ![w] = <<LeaseOf(j)>>]
  BY DEF Lease
<1>2. /\ phase[w] = "idle" /\ phase' = [phase EXCEPT ![w] = "working"] /\ now' = now
  BY DEF Lease
<1>3. /\ jobs[j] \in JobRows /\ jobs[j].state \in {"queued", "retry_wait"}
      /\ jobs \in Seq(JobRows) /\ runs \in Seq(Seq(JobStates)) /\ Len(runs) = Len(jobs)
      /\ j \in DOMAIN runs /\ runs[j] \in Seq(JobStates) /\ now + LeaseSec \in Nat
      /\ j \in Nat \ {0}
  BY <1>1, LeaseSecAssumption DEF IsNextReady, Ready, IndInv, WellFormed
<1> DEFINE row == [jobs[j] EXCEPT !.state = "running",
                                  !.attempt_count = jobs[j].attempt_count + 1,
                                  !.leased_until = now + LeaseSec]
<1>4. /\ jobs' = [jobs EXCEPT ![j] = row]
      /\ runs' = [runs EXCEPT ![j] = Append(runs[j], "running")]
      /\ dead_letters' = dead_letters
  BY <1>1, <1>3 DEF LeaseNextJob, JobRows
<1>5. /\ row.state = "running" /\ row.attempt_count = jobs[j].attempt_count + 1
      /\ row.stage = jobs[j].stage /\ row.message_id = jobs[j].message_id
      /\ Len(Append(runs[j], "running")) = Len(runs[j]) + 1
  BY <1>3 DEF JobRows, JobStates
<1>6. WellFormed(jobs', runs')
  BY <1>3, <1>4, LeaseWellFormed DEF IndInv
<1> HIDE DEF row
<1>7. /\ DOMAIN jobs' = DOMAIN jobs /\ jobs'[j] = row /\ runs'[j] = Append(runs[j], "running")
      /\ \A k \in DOMAIN jobs \ {j} : jobs'[k] = jobs[k] /\ runs'[k] = runs[k]
  BY <1>3, <1>4
<1>8. DeadOK(jobs', dead_letters')
  BY <1>3, <1>4, <1>5, <1>7, DeadAfterUpdate DEF IndInv
<1>9. LeaseOf(j) \in JobLeases
  <2>1. jobs[j].attempt_count \in Nat
    BY <1>3 DEF JobRows
  <2>2. Len(runs[j]) \in Nat
    BY <1>3
  <2>3. Len(runs[j]) + 1 \in Nat \ {0} /\ jobs[j].attempt_count + 1 \in Nat
    BY <2>1, <2>2
  <2> QED BY <1>3, <2>3 DEF LeaseOf, JobLeases, JobRows
<1>10. /\ lease' \in [Workers -> Seq(JobLeases)] /\ phase' \in [Workers -> Phases]
       /\ lease'[w] = <<LeaseOf(j)>> /\ phase'[w] = "working"
       /\ \A v \in Workers \ {w} : lease'[v] = lease[v] /\ phase'[v] = phase[v]
  BY <1>1, <1>2, <1>9 DEF IndInv, LeaseTypes, Phases
<1>11. \A v \in Workers \ {w} : /\ Holds(v)' <=> Holds(v)
                                /\ Held(v)' = Held(v)
                                /\ Holds(v) => Held(v).job_id \in DOMAIN jobs \ {j}
  <2>1. \A v \in Workers : Holds(v) => /\ Held(v).job_id \in DOMAIN jobs
                                       /\ jobs[Held(v).job_id].state \in {"running", "succeeded"}
    BY DEF IndInv, LeaseCurrent
  <2> QED BY <1>3, <1>10, <2>1 DEF Holds, Held
<1>12. Holds(w)' /\ Held(w)' = LeaseOf(j)
  BY <1>10 DEF Holds, Held
<1>13. LeaseTypes'
  <2>1. Len(<<LeaseOf(j)>>) <= 1
    OBVIOUS
  <2>2. \A v \in Workers : Len(lease'[v]) <= 1
    BY <1>10, <2>1 DEF IndInv, LeaseTypes
  <2> QED BY <1>10, <2>2 DEF LeaseTypes
<1>14. LeaseExclusive'
  <2>1. LeaseOf(j).job_id = j
    BY DEF LeaseOf
  <2> QED BY <1>11, <1>12, <2>1 DEF IndInv, LeaseExclusive
<1>15. LeaseCurrent'
  <2> SUFFICES ASSUME NEW v \in Workers
               PROVE  /\ Holds(v)' <=> phase'[v] # "idle"
                      /\ Holds(v)' => LET l == Held(v)' IN
                            /\ l.job_id \in DOMAIN jobs'
                            /\ l.run_id = Len(runs'[l.job_id])
                            /\ l.attempt_count = jobs'[l.job_id].attempt_count
                            /\ l.message_id = jobs'[l.job_id].message_id
                            /\ l.stage = jobs'[l.job_id].stage
                            /\ jobs'[l.job_id].state =
                                 IF phase'[v] = "working" THEN "running" ELSE "succeeded"
    BY DEF LeaseCurrent
  <2>1. CASE v = w
    <3>1. /\ LeaseOf(j).job_id = j /\ LeaseOf(j).run_id = Len(runs[j]) + 1
          /\ LeaseOf(j).stage = jobs[j].stage /\ LeaseOf(j).message_id = jobs[j].message_id
          /\ LeaseOf(j).attempt_count = jobs[j].attempt_count + 1
      BY DEF LeaseOf
    <3>2. Len(runs'[j]) = Len(runs[j]) + 1 /\ jobs'[j] = row
      BY <1>5, <1>7
    <3> QED BY <1>5, <1>7, <1>10, <1>12, <2>1, <3>1, <3>2
  <2>2. CASE v # w
    <3>1. (Holds(v)' <=> Holds(v)) /\ Held(v)' = Held(v) /\ phase'[v] = phase[v]
      BY <1>10, <1>11, <2>2
    <3>2. Holds(v) => /\ Held(v).job_id \in DOMAIN jobs'
                      /\ jobs'[Held(v).job_id] = jobs[Held(v).job_id]
                      /\ runs'[Held(v).job_id] = runs[Held(v).job_id]
      BY <1>7, <1>11, <2>2
    <3> QED BY <3>1, <3>2 DEF IndInv, LeaseCurrent
  <2> QED BY <2>1, <2>2
<1> QED BY <1>2, <1>6, <1>8, <1>13, <1>14, <1>15 DEF IndInv
-----------------------------------------------------------------------------
LEMMA InitInv == Init => IndInv
<1> SUFFICES ASSUME Init PROVE IndInv
  OBVIOUS
<1>1. /\ now = 0 /\ jobs = <<>> /\ runs = <<>> /\ dead_letters = <<>>
      /\ lease = [w \in Workers |-> <<>>] /\ phase = [w \in Workers |-> "idle"]
  BY DEF Init, JobInit
<1>2. WellFormed(jobs, runs) /\ DeadOK(jobs, dead_letters)
  BY <1>1 DEF WellFormed, DeadOK, Unique
<1>3. LeaseTypes
  BY <1>1 DEF LeaseTypes, Phases
<1>4. LeaseExclusive /\ LeaseCurrent
  BY <1>1 DEF LeaseExclusive, LeaseCurrent, Holds
<1> QED BY <1>1, <1>2, <1>3, <1>4 DEF IndInv

LEMMA NextInv == IndInv /\ [Next]_vars => IndInv'
<1> SUFFICES ASSUME IndInv, [Next]_vars PROVE IndInv'
  OBVIOUS
<1>1. CASE \E m \in MessageIds : Enqueue(m)
  BY <1>1, EnqueueStep
<1>2. CASE \E w \in Workers : WorkerStep(w)
  <2> PICK w \in Workers : WorkerStep(w)
    BY <1>2
  <2>1. CASE Lease(w)
    BY <2>1, LeaseStep
  <2>2. CASE \E more \in BOOLEAN : Succeed(w, more)
    BY <2>2, SucceedStep
  <2>3. CASE Return(w)
    BY <2>3, DropStep
  <2>4. CASE \E d \in Delays, n \in AttemptLimits : Retry(w, d, n)
    BY <2>4, RetryStep
  <2>5. CASE GiveUp(w)
    BY <2>5, GiveUpStep
  <2> QED BY <2>1, <2>2, <2>3, <2>4, <2>5 DEF WorkerStep
<1>3. CASE Tick
  BY <1>3, TickStep
<1>4. CASE \E w \in Workers : Crash(w)
  BY <1>4, DropStep
<1>5. CASE UNCHANGED vars
  <2>1. UNCHANGED <<now, jobs, runs, dead_letters, lease, phase>>
    BY <1>5 DEF vars
  <2>2. LeaseTypes' /\ LeaseExclusive' /\ LeaseCurrent'
    BY <2>1, UnchangedLeases
  <2> QED BY <2>1, <2>2 DEF IndInv
<1> QED BY <1>1, <1>2, <1>3, <1>4, <1>5 DEF Next

LEMMA Invariance == Spec => []IndInv
BY InitInv, NextInv, PTL DEF Spec

\* The invariants TLC checks follow from the inductive one.
LEMMA IndInvImplies ==
    IndInv => /\ TypeOK /\ LeaseExclusive /\ LeaseCurrent /\ RunLedger
              /\ DeadLetterLedger /\ AttemptsBounded
<1> SUFFICES ASSUME IndInv
             PROVE  /\ TypeOK /\ LeaseExclusive /\ LeaseCurrent /\ RunLedger
                    /\ DeadLetterLedger /\ AttemptsBounded
  OBVIOUS
<1>1. TypeOK
  BY DEF IndInv, WellFormed, DeadOK, LeaseTypes, TypeOK
<1>2. RunLedger
  <2>1. DOMAIN runs = DOMAIN jobs
    BY DEF IndInv, WellFormed
  <2> QED BY <2>1 DEF IndInv, WellFormed, RowOK, RunLedger
<1>3. DeadLetterLedger
  BY DEF IndInv, DeadOK, DeadLetterLedger
<1>4. AttemptsBounded
  BY DEF IndInv, WellFormed, RowOK, AttemptsBounded
<1> QED BY <1>1, <1>2, <1>3, <1>4 DEF IndInv

\* Every reachable state of the job queue is well typed.
THEOREM QueueTypeCorrect == Spec => []TypeOK
BY Invariance, IndInvImplies, PTL

\* Two workers never process the same job, however often processes crash, jobs
\* are retried and messages are enqueued again.
THEOREM QueueLeaseExclusive == Spec => []LeaseExclusive
BY Invariance, IndInvImplies, PTL

\* The lease a worker acts on is the job's latest: its unguarded updates by
\* job_id and run_id hit the row and the run it leased.
THEOREM QueueLeaseCurrent == Spec => []LeaseCurrent
BY Invariance, IndInvImplies, PTL

\* stage_runs is the history of stage_jobs: one run per attempt, all but the
\* last retried, the last in the job's state.
THEOREM QueueRunLedger == Spec => []RunLedger
BY Invariance, IndInvImplies, PTL

\* dead_letters holds each dead job once and nothing else.
THEOREM QueueDeadLetterLedger == Spec => []DeadLetterLedger
BY Invariance, IndInvImplies, PTL

\* No job is attempted more often than the largest retry limit in use.
THEOREM QueueAttemptsBounded == Spec => []AttemptsBounded
BY Invariance, IndInvImplies, PTL
-----------------------------------------------------------------------------
\* A step that changes no row but k's, and k's in a way the history allows.
LEMMA RowHistory ==
    ASSUME IndInv, NEW k \in DOMAIN jobs, DOMAIN jobs \subseteq DOMAIN jobs',
           \A j \in DOMAIN jobs \ {k} : jobs'[j] = jobs[j],
           jobs'[k].stage = jobs[k].stage, jobs'[k].message_id = jobs[k].message_id,
           jobs'[k].attempt_count >= jobs[k].attempt_count,
           jobs[k].state # "dead_letter",
           jobs[k].state = "succeeded" =>
               /\ jobs'[k].state \in {"retry_wait", "dead_letter"}
               /\ \E w \in Workers : Holds(w) /\ Held(w).job_id = k
    PROVE  \A j \in DOMAIN jobs : HistoryKept(j)
<1> SUFFICES ASSUME NEW j \in DOMAIN jobs PROVE HistoryKept(j)
  OBVIOUS
<1>1. CASE j = k
  BY <1>1 DEF HistoryKept
<1>2. CASE j # k
  <2>1. jobs'[j] = jobs[j] /\ jobs[j] \in JobRows
    BY <1>2 DEF IndInv, WellFormed
  <2>2. jobs'[j].attempt_count >= jobs[j].attempt_count
    BY <2>1 DEF JobRows
  <2> QED BY <1>2, <2>1, <2>2 DEF HistoryKept
<1> QED BY <1>1, <1>2

\* A step that only adds rows.
LEMMA AddedRowsHistory ==
    ASSUME IndInv, DOMAIN jobs \subseteq DOMAIN jobs',
           \A j \in DOMAIN jobs : jobs'[j] = jobs[j]
    PROVE  \A j \in DOMAIN jobs : HistoryKept(j)
<1> SUFFICES ASSUME NEW j \in DOMAIN jobs PROVE HistoryKept(j)
  OBVIOUS
<1>1. jobs'[j] = jobs[j] /\ jobs[j] \in JobRows
  BY DEF IndInv, WellFormed
<1>2. jobs'[j].attempt_count >= jobs[j].attempt_count
  BY <1>1 DEF JobRows
<1> QED BY <1>1, <1>2 DEF HistoryKept

\* The end of a run, in retry_wait or dead_letter.
LEMMA EndRunHistory ==
    ASSUME IndInv, NEW w \in Workers, phase[w] # "idle",
           NEW st \in {"retry_wait", "dead_letter"}, NEW at \in Nat, EndRun(w, st, at)
    PROVE  \A j \in DOMAIN jobs : HistoryKept(j)
<1> DEFINE k == Held(w).job_id
           row == [jobs[k] EXCEPT !.state = st, !.leased_until = NULL, !.available_at = at]
<1>1. /\ k \in DOMAIN jobs /\ jobs[k].state \in {"running", "succeeded"} /\ Holds(w)
      /\ jobs[k] \in JobRows
  BY HeldFacts DEF IndInv, WellFormed
<1>2. jobs' = [jobs EXCEPT ![k] = row]
  BY DEF EndRun
<1>3. /\ row.stage = jobs[k].stage /\ row.message_id = jobs[k].message_id
      /\ row.attempt_count >= jobs[k].attempt_count /\ row.state = st
  BY <1>1 DEF JobRows
<1>4. Holds(w) /\ Held(w).job_id = k
  BY <1>1
<1> HIDE DEF row, k
<1>5. /\ DOMAIN jobs' = DOMAIN jobs /\ jobs'[k] = row
      /\ \A j \in DOMAIN jobs \ {k} : jobs'[j] = jobs[j]
  BY <1>1, <1>2
<1> QED BY <1>1, <1>3, <1>4, <1>5, RowHistory

LEMMA HistoryStep ==
    IndInv /\ [Next]_vars => [\A j \in DOMAIN jobs : HistoryKept(j)]_vars
<1> SUFFICES ASSUME IndInv, Next PROVE \A j \in DOMAIN jobs : HistoryKept(j)
  OBVIOUS
<1>0. WellFormed(jobs, runs) /\ jobs \in Seq(JobRows) /\ now \in Nat
  BY DEF IndInv, WellFormed
<1>1. CASE \E m \in MessageIds : Enqueue(m)
  <2> PICK m \in MessageIds : Enqueue(m)
    BY <1>1
  <2>1. jobs' = Enqueued(jobs, IngressStage, m, now) /\ IngressStage \in Stages
    BY WorkersAssumption DEF Enqueue, EnqueueJob
  <2>2. DOMAIN jobs \subseteq DOMAIN jobs' /\ \A j \in DOMAIN jobs : jobs'[j] = jobs[j]
    BY <1>0, <2>1, EnqueueWellFormed
  <2> QED BY <2>2, AddedRowsHistory
<1>2. ASSUME NEW w \in Workers, Lease(w) PROVE \A j \in DOMAIN jobs : HistoryKept(j)
  <2>1. PICK k \in DOMAIN jobs : k \in Ready(StageOf[w]) /\ LeaseNextJob(k)
    BY <1>2 DEF Lease, IsNextReady
  <2> DEFINE row == [jobs[k] EXCEPT !.state = "running",
                                    !.attempt_count = jobs[k].attempt_count + 1,
                                    !.leased_until = now + LeaseSec]
  <2>2. jobs[k] \in JobRows /\ jobs[k].state \in {"queued", "retry_wait"}
    BY <1>0, <2>1 DEF Ready
  <2>3. jobs' = [jobs EXCEPT ![k] = row]
    BY <2>1, <2>2 DEF LeaseNextJob, JobRows
  <2>4. /\ row.stage = jobs[k].stage /\ row.message_id = jobs[k].message_id
        /\ row.attempt_count >= jobs[k].attempt_count
    BY <2>2 DEF JobRows
  <2> HIDE DEF row
  <2>5. /\ DOMAIN jobs' = DOMAIN jobs /\ jobs'[k] = row
        /\ \A j \in DOMAIN jobs \ {k} : jobs'[j] = jobs[j]
    BY <2>3
  <2> QED BY <2>2, <2>4, <2>5, RowHistory
<1>3. ASSUME NEW w \in Workers, NEW more \in BOOLEAN, Succeed(w, more)
      PROVE  \A j \in DOMAIN jobs : HistoryKept(j)
  <2> DEFINE k == Held(w).job_id
  <2>1. PICK next \in NextJob : CompleteJobSuccess(Held(w), next)
    BY <1>3 DEF Succeed, Held
  <2>2. phase[w] = "working"
    BY <1>3 DEF Succeed
  <2>3. k \in DOMAIN jobs /\ jobs[k].state = "running" /\ jobs[k] \in JobRows
    BY <1>0, <2>2, HeldFacts
  <2>4. /\ DOMAIN jobs \subseteq DOMAIN jobs'
        /\ \A j \in DOMAIN jobs \ {k} : jobs'[j] = jobs[j]
        /\ jobs'[k].stage = jobs[k].stage /\ jobs'[k].message_id = jobs[k].message_id
        /\ jobs'[k].attempt_count = jobs[k].attempt_count
    BY <2>1, <2>2, SuccessTables
  <2>5. jobs'[k].attempt_count >= jobs[k].attempt_count
    BY <2>3, <2>4 DEF JobRows
  <2> HIDE DEF k
  <2> QED BY <2>3, <2>4, <2>5, RowHistory
<1>4. ASSUME NEW w \in Workers, NEW d \in Delays, NEW n \in AttemptLimits, Retry(w, d, n)
      PROVE  \A j \in DOMAIN jobs : HistoryKept(j)
  <2>1. phase[w] # "idle" /\ CompleteJobRetry(Held(w), d, n)
    BY <1>4 DEF Retry, Held
  <2>2. CASE DeadLetterJob(Held(w))
    BY <2>1, <2>2, DeadLetterEndsRun, EndRunHistory
  <2>3. CASE RetryLater(Held(w), d)
    <3> DEFINE k == Held(w).job_id
    <3>1. /\ k \in DOMAIN jobs /\ jobs[k] \in JobRows /\ Held(w).run_id = Len(runs[k])
          /\ k \in DOMAIN runs
      BY <2>1, HeldFacts DEF IndInv, WellFormed
    <3>2. now + d \in Nat
      BY <1>0, LimitsAssumption
    <3>3. EndRun(w, "retry_wait", now + d)
      BY <2>3, <3>1 DEF EndRun, RetryLater, JobRows
    <3> QED BY <2>1, <3>2, <3>3, EndRunHistory
  <2> QED BY <2>1, <2>2, <2>3 DEF CompleteJobRetry
<1>5. ASSUME NEW w \in Workers, GiveUp(w) PROVE \A j \in DOMAIN jobs : HistoryKept(j)
  <2>1. phase[w] # "idle" /\ DeadLetterJob(Held(w))
    BY <1>5 DEF GiveUp, Held
  <2> QED BY <2>1, DeadLetterEndsRun, EndRunHistory
<1>6. CASE Tick \/ \E w \in Workers : Return(w) \/ Crash(w)
  <2>1. jobs' = jobs
    BY <1>6 DEF Tick, Return, Crash, tables
  <2> QED BY <2>1, AddedRowsHistory
<1> QED BY <1>1, <1>2, <1>3, <1>4, <1>5, <1>6 DEF Next, WorkerStep

\* No step loses or renumbers a job, takes back an attempt or revives a dead
\* letter, and a succeeded job is reopened by its holder only.
THEOREM QueueJobHistory == Spec => JobHistory
BY Invariance, HistoryStep, PTL DEF Spec, JobHistory
=============================================================================
