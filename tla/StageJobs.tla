----------------------------- MODULE StageJobs -----------------------------
(***************************************************************************)
(* The job tables of src/pipeline/db.py (stage_jobs, stage_runs and        *)
(* dead_letters) and the transactions of class PipelineDB that change them.*)
(* Every transaction runs under BEGIN IMMEDIATE (SQLite) or row locks with *)
(* FOR UPDATE SKIP LOCKED (Postgres) and is one atomic operator here.      *)
(*                                                                         *)
(* A job_id is the row's position in jobs, so insertion order is the       *)
(* created_at order that lease_next_job sorts by; every caller uses the    *)
(* default priority 100, which is therefore left out.  runs[j] lists the   *)
(* result_state of job j's stage_runs rows, oldest first; a run_id is the  *)
(* position in that list.                                                  *)
(***************************************************************************)
EXTENDS Naturals, Sequences

CONSTANTS Stages,       \* the StageName values that jobs are queued for
          MessageIds,   \* identifiers of rows of stage_messages
          LeaseSec      \* queue.lease_sec, in clock ticks

ASSUME LeaseSecAssumption == LeaseSec \in Nat \ {0}

VARIABLES now,          \* the database clock, PipelineDB._now()
          jobs,         \* stage_jobs
          runs,         \* stage_runs, grouped by job
          dead_letters  \* dead_letters: the job_id of each row, oldest first

tables == <<jobs, runs, dead_letters>>

JobStates == {"queued", "running", "retry_wait", "succeeded", "dead_letter"}

\* SQL NULL in leased_until: a lease ends at now + LeaseSec, which is never 0.
NULL == 0

JobRows == [stage : Stages, message_id : MessageIds, state : JobStates,
            attempt_count : Nat, available_at : Nat, leased_until : Nat]

\* The JobLease dataclass a worker holds while it processes a job.
JobLeases == [job_id : Nat \ {0}, run_id : Nat \ {0}, stage : Stages,
              message_id : MessageIds, attempt_count : Nat]

JobInit == now = 0 /\ jobs = <<>> /\ runs = <<>> /\ dead_letters = <<>>

-----------------------------------------------------------------------------
\* _enqueue_job_conn: an existing row is returned as it is, whatever its state.
\* The schemas declare UNIQUE(stage, message_id) besides: as the lookup is in the
\* transaction of the insert, an insert that would violate it is never tried.
IsQueued(table, s, m) ==
    \E j \in DOMAIN table : table[j].stage = s /\ table[j].message_id = m

\* Mutant: the row starts in a state no query looks for.
NewJob_Pending(s, m, at) ==
    [stage |-> s, message_id |-> m, state |-> "pending", attempt_count |-> 0,
     available_at |-> at, leased_until |-> NULL]

NewJob(s, m, at) ==
    [stage |-> s, message_id |-> m, state |-> "queued", attempt_count |-> 0,
     available_at |-> at, leased_until |-> NULL]

\* Mutant: a conflict resets the row.
Enqueued_Reset(table, s, m, at) ==
    IF IsQueued(table, s, m)
    THEN [j \in DOMAIN table |-> IF table[j].stage = s /\ table[j].message_id = m
                                 THEN NewJob(s, m, at) ELSE table[j]]
    ELSE Append(table, NewJob(s, m, at))

Enqueued(table, s, m, at) ==
    IF IsQueued(table, s, m) THEN table ELSE Append(table, NewJob(s, m, at))

\* The stage_runs of a job table that may have grown by a row without runs.
RunsFor(ledger, table) ==
    [j \in DOMAIN table |-> IF j \in DOMAIN ledger THEN ledger[j] ELSE <<>>]

EnqueueJob(s, m) ==
    /\ jobs' = Enqueued(jobs, s, m, now)
    /\ runs' = RunsFor(runs, jobs')
    /\ UNCHANGED dead_letters

-----------------------------------------------------------------------------
\* Mutants: a running row is taken again when its lease ran out; a row that
\* waits for a retry is not.
Ready_Reclaim(s) == {j \in DOMAIN jobs : /\ jobs[j].stage = s
                                         /\ \/ /\ jobs[j].state \in {"queued", "retry_wait"}
                                               /\ jobs[j].available_at <= now
                                            \/ /\ jobs[j].state = "running"
                                               /\ jobs[j].leased_until <= now}
Ready_QueuedOnly(s) == {j \in DOMAIN jobs : /\ jobs[j].stage = s /\ jobs[j].state = "queued"
                                            /\ jobs[j].available_at <= now}

\* lease_next_job: the WHERE clause and ORDER BY priority, created_at LIMIT 1.
Ready(s) == {j \in DOMAIN jobs : /\ jobs[j].stage = s
                                 /\ jobs[j].state \in {"queued", "retry_wait"}
                                 /\ jobs[j].available_at <= now}

IsNextReady(s, j) == j \in Ready(s) /\ \A k \in Ready(s) : j <= k

\* Mutant: the count is read before the UPDATE.
LeaseOf_StaleCount(j) == [job_id |-> j, run_id |-> Len(runs[j]) + 1, stage |-> jobs[j].stage,
                          message_id |-> jobs[j].message_id,
                          attempt_count |-> jobs[j].attempt_count]

LeaseOf(j) == [job_id |-> j, run_id |-> Len(runs[j]) + 1, stage |-> jobs[j].stage,
               message_id |-> jobs[j].message_id,
               attempt_count |-> jobs[j].attempt_count + 1]

LeaseNextJob(j) ==
    /\ jobs' = [jobs EXCEPT ![j].state = "running",
                            ![j].attempt_count = @ + 1,
                            ![j].leased_until = now + LeaseSec]
    /\ runs' = [runs EXCEPT ![j] = Append(@, "running")]
    /\ UNCHANGED dead_letters

\* complete_job_success, the job and run updates.  next is empty or holds the
\* one job to enqueue with the output message; the row of the lease is updated
\* by job_id alone: neither its state nor its worker_id is looked at.
CompleteJobSuccess(l, next) ==
    LET done == [jobs EXCEPT ![l.job_id].state = "succeeded",
                             ![l.job_id].leased_until = NULL]
    IN /\ jobs' = IF next = <<>> THEN done
                  ELSE Enqueued(done, next[1].stage, next[1].message_id,
                                next[1].available_at)
       /\ runs' = RunsFor([runs EXCEPT ![l.job_id][l.run_id] = "succeeded"], jobs')
       /\ UNCHANGED dead_letters

\* Mutant: the dead_letters row is forgotten.
DeadLetterJob_NoRow(l) ==
    /\ jobs' = [jobs EXCEPT ![l.job_id].state = "dead_letter",
                            ![l.job_id].leased_until = NULL]
    /\ runs' = [runs EXCEPT ![l.job_id][l.run_id] = "dead_letter"]
    /\ UNCHANGED dead_letters

\* dead_letter_job: job, run and a new dead_letters row in one transaction.
DeadLetterJob(l) ==
    /\ jobs' = [jobs EXCEPT ![l.job_id].state = "dead_letter",
                            ![l.job_id].leased_until = NULL]
    /\ runs' = [runs EXCEPT ![l.job_id][l.run_id] = "dead_letter"]
    /\ dead_letters' = Append(dead_letters, l.job_id)

\* Mutant: the run is not closed.
RetryLater_RunOpen(l, delay) ==
    /\ jobs' = [jobs EXCEPT ![l.job_id].state = "retry_wait",
                            ![l.job_id].leased_until = NULL,
                            ![l.job_id].available_at = now + delay]
    /\ UNCHANGED <<runs, dead_letters>>

\* complete_job_retry: the attempt limit is compared with the lease's own
\* attempt_count, not with the row's.
RetryLater(l, delay) ==
    /\ jobs' = [jobs EXCEPT ![l.job_id].state = "retry_wait",
                            ![l.job_id].leased_until = NULL,
                            ![l.job_id].available_at = now + delay]
    /\ runs' = [runs EXCEPT ![l.job_id][l.run_id] = "retry_wait"]
    /\ UNCHANGED dead_letters

\* Mutants: the limit is off by one, either way.
CompleteJobRetry_OneMore(l, delay, max_attempts) ==
    IF l.attempt_count > max_attempts THEN DeadLetterJob(l) ELSE RetryLater(l, delay)
CompleteJobRetry_OneLess(l, delay, max_attempts) ==
    IF l.attempt_count + 1 >= max_attempts THEN DeadLetterJob(l) ELSE RetryLater(l, delay)

CompleteJobRetry(l, delay, max_attempts) ==
    IF l.attempt_count >= max_attempts THEN DeadLetterJob(l) ELSE RetryLater(l, delay)

-----------------------------------------------------------------------------
\* Time passes while some deadline of the tables lies ahead; later instants
\* are indistinguishable to the job tables.
JobDeadlineAhead ==
    \E j \in DOMAIN jobs : jobs[j].available_at > now \/ jobs[j].leased_until > now
=============================================================================
