------------------------------ MODULE JobQueue ------------------------------
(***************************************************************************)
(* The protocol every stage worker follows against the job tables: the     *)
(* process_next methods of ResearcherWorker, AnalystWorker, ExecutorWorker,*)
(* ApprovalWorker and OutcomeWorker with their stage-specific work left    *)
(* open.  A worker leases a job, and inside one try block does its work,   *)
(* commits complete_job_success and possibly makes further calls; any      *)
(* exception, before or after that commit, ends in complete_job_retry.     *)
(* A process may die anywhere: its lease is memory, the row stays running. *)
(***************************************************************************)
EXTENDS StageJobs, FiniteSets

CONSTANTS Workers,         \* worker processes
          StageOf,         \* the stage whose queue a worker polls
          IngressStage,    \* the stage handle_alert enqueues for
          AttemptLimits,   \* max_attempts arguments: queue.max_attempts and 10_000
          Delays,          \* delay_sec arguments, in clock ticks
          Clock            \* times at which the clock goes on even with no deadline ahead

ASSUME WorkersAssumption == /\ StageOf \in [Workers -> Stages]
                            /\ IngressStage \in Stages
ASSUME LimitsAssumption == /\ AttemptLimits \subseteq Nat \ {0} /\ AttemptLimits # {}
                           /\ Delays \subseteq Nat /\ Clock \subseteq Nat

VARIABLES lease,   \* the JobLease held by a worker: empty or one record
          phase    \* where a worker's process_next is

vars == <<now, jobs, runs, dead_letters, lease, phase>>

\* "working": leased, outcome not committed; "finishing": success committed,
\* the try block not left yet (evidence, candidates, observations are saved).
Phases == {"idle", "working", "finishing"}

TypeOK == /\ now \in Nat
          /\ jobs \in Seq(JobRows)
          /\ runs \in Seq(Seq(JobStates))
          /\ dead_letters \in Seq(Nat \ {0})
          /\ lease \in [Workers -> Seq(JobLeases)]
          /\ \A w \in Workers : Len(lease[w]) <= 1
          /\ phase \in [Workers -> Phases]

Init == /\ JobInit
        /\ lease = [w \in Workers |-> <<>>]
        /\ phase = [w \in Workers |-> "idle"]

Release(w) == /\ lease' = [lease EXCEPT ![w] = <<>>]
              /\ phase' = [phase EXCEPT ![w] = "idle"]

Enqueue(m) == EnqueueJob(IngressStage, m) /\ UNCHANGED <<now, lease, phase>>

Lease(w) ==
    /\ phase[w] = "idle"
    /\ \E j \in DOMAIN jobs :
         /\ IsNextReady(StageOf[w], j)
         /\ LeaseNextJob(j)
         /\ lease' = [lease EXCEPT ![w] = <<LeaseOf(j)>>]
    /\ phase' = [phase EXCEPT ![w] = "working"]
    /\ UNCHANGED now

\* The job a stage may enqueue with its success: none, or one that is due now,
\* after a delay, or (an outcome job whose window has opened by now) was due
\* before.
NextJob == {<<>>} \cup {<<[stage |-> s, message_id |-> m, available_at |-> at]>> :
                            s \in Stages, m \in MessageIds,
                            at \in (0 .. now) \cup {now + d : d \in Delays}}

\* more: calls of the try block follow the commit.
Succeed(w, more) ==
    /\ phase[w] = "working"
    /\ UNCHANGED now
    /\ IF more THEN phase' = [phase EXCEPT ![w] = "finishing"] /\ UNCHANGED lease
               ELSE Release(w)
    /\ \E next \in NextJob : CompleteJobSuccess(lease[w][1], next)

Return(w) == phase[w] = "finishing" /\ Release(w) /\ UNCHANGED <<now, tables>>

\* The except clause, or a deliberate wait: both end process_next.
Retry(w, delay, max_attempts) ==
    /\ phase[w] \in {"working", "finishing"}
    /\ CompleteJobRetry(lease[w][1], delay, max_attempts)
    /\ Release(w)
    /\ UNCHANGED now

\* ApprovalWorker dead-letters a job whose approval request is missing.
GiveUp(w) ==
    /\ phase[w] = "working"
    /\ DeadLetterJob(lease[w][1])
    /\ Release(w)
    /\ UNCHANGED now

\* The process dies or is restarted, or the except clause itself raises:
\* run_forever has no handler, so the loop ends.
Crash(w) == phase[w] # "idle" /\ Release(w) /\ UNCHANGED <<now, tables>>

Tick == /\ JobDeadlineAhead \/ now \in Clock
        /\ now' = now + 1
        /\ UNCHANGED <<tables, lease, phase>>

WorkerStep(w) ==
    \/ Lease(w)
    \/ Return(w)
    \/ \E d \in Delays, n \in AttemptLimits : Retry(w, d, n)
    \/ GiveUp(w)
    \/ \E more \in BOOLEAN : Succeed(w, more)

Next == \/ \E m \in MessageIds : Enqueue(m)
        \/ \E w \in Workers : WorkerStep(w) \/ Crash(w)
        \/ Tick

Spec == Init /\ [][Next]_vars

\* run_forever polls without end and a call into the database returns or
\* raises, so a worker that can take its next step eventually takes it.
Fairness == WF_vars(Tick) /\ \A w \in Workers : WF_vars(WorkerStep(w))

LiveSpec == Spec /\ Fairness
-----------------------------------------------------------------------------
Holds(w) == lease[w] # <<>>
Held(w) == lease[w][1]

\* No two workers ever process the same job: lease_next_job only takes queued
\* and retry_wait rows, and a row goes back to retry_wait only when its holder
\* lets go of it (complete_job_retry never checks who holds the lease).
LeaseExclusive ==
    \A v, w \in Workers : Holds(v) /\ Holds(w) /\ v # w => Held(v).job_id # Held(w).job_id

\* A lease in a worker's memory is never stale: it names the job's latest
\* attempt and run, and the row is in the state this worker put it in.  The
\* unguarded UPDATE ... WHERE job_id = ? statements are right only because of
\* this, and complete_job_retry's limit test reads the lease's own count.
LeaseCurrent ==
    \A w \in Workers :
        /\ Holds(w) <=> phase[w] # "idle"
        /\ Holds(w) => LET l == Held(w) IN
             /\ l.job_id \in DOMAIN jobs
             /\ l.run_id = Len(runs[l.job_id])
             /\ l.attempt_count = jobs[l.job_id].attempt_count
             /\ l.message_id = jobs[l.job_id].message_id
             /\ l.stage = jobs[l.job_id].stage
             /\ jobs[l.job_id].state = IF phase[w] = "working" THEN "running" ELSE "succeeded"

\* stage_runs tells the job's history: one run per attempt, every run but the
\* last one was retried, and the last one ended in the state the job is in.
RunLedger ==
    /\ DOMAIN runs = DOMAIN jobs
    /\ \A j \in DOMAIN jobs :
         /\ Len(runs[j]) = jobs[j].attempt_count
         /\ jobs[j].state = "queued" <=> runs[j] = <<>>
         /\ \A r \in DOMAIN runs[j] :
              runs[j][r] = IF r < Len(runs[j]) THEN "retry_wait" ELSE jobs[j].state

\* A job has one dead_letters row when it is in state dead_letter and none
\* otherwise, and every row is of a job: none is dead-lettered twice or revived.
DeadLetterLedger ==
    /\ \A i \in DOMAIN dead_letters : dead_letters[i] \in DOMAIN jobs
    /\ \A j \in DOMAIN jobs :
         jobs[j].state = "dead_letter" <=> \E i \in DOMAIN dead_letters : dead_letters[i] = j
    /\ \A i, k \in DOMAIN dead_letters : dead_letters[i] = dead_letters[k] => i = k

\* No job is attempted more often than the largest max_attempts in use, and a
\* job that waits to be leased has an attempt left.
AttemptsBounded ==
    \A j \in DOMAIN jobs : \E n \in AttemptLimits :
        /\ jobs[j].attempt_count <= n
        /\ jobs[j].state \in {"queued", "retry_wait"} => jobs[j].attempt_count < n

\* What a step leaves alone of job j.
HistoryKept(j) ==
    /\ j \in DOMAIN jobs'
    /\ jobs'[j].stage = jobs[j].stage /\ jobs'[j].message_id = jobs[j].message_id
    /\ jobs'[j].attempt_count >= jobs[j].attempt_count
    /\ jobs[j].state = "dead_letter" => jobs'[j] = jobs[j]
    /\ jobs[j].state = "succeeded" /\ jobs'[j] # jobs[j] =>
         /\ jobs'[j].state \in {"retry_wait", "dead_letter"}
         /\ \E w \in Workers : Holds(w) /\ Held(w).job_id = j

\* What no step does to an existing job: lose it, renumber it, take back an
\* attempt, revive a dead letter, or reopen a succeeded job that no worker
\* holds (its holder may, when a call after the commit raises).
JobHistory == [][\A j \in DOMAIN jobs : HistoryKept(j)]_vars

JobCount == 1 .. Cardinality(Stages \X MessageIds)
Settled(j) == jobs[j].state \in {"succeeded", "dead_letter"}
Orphaned(j) == /\ jobs[j].state = "running"
               /\ \A w \in Workers : Holds(w) => Held(w).job_id # j

\* Every job that is enqueued comes to rest in succeeded or dead_letter, or its
\* worker died with it: attempts are bounded, retries are taken up again, the
\* order of lease_next_job starves nobody, and a crash costs the one job only.
EveryJobSettles ==
    \A j \in JobCount :
        j \in DOMAIN jobs ~> [](j \in DOMAIN jobs /\ (Settled(j) \/ Orphaned(j)))

\* README.md:537: job leases ensure "at-least-once delivery and graceful worker
\* restarts".  Stated of the lease: a job whose lease ran out without a worker
\* holding it is eventually taken up again.
Abandoned(j) == j \in DOMAIN jobs /\ Orphaned(j) /\ jobs[j].leased_until <= now
ExpiredLeaseReclaimed == \A j \in JobCount : Abandoned(j) ~> ~Abandoned(j)
=============================================================================
