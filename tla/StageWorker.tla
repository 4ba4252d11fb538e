---------------------------- MODULE StageWorker ----------------------------
(***************************************************************************)
(* What the five worker classes share: process_next leases a job, then one *)
(* try block makes one database or external call per step, and every       *)
(* exception ends in the same except clause.  pc names the next call.      *)
(*                                                                         *)
(* A fault is an exception of a call that should work (database, market    *)
(* data, price source, broker): the transaction rolls back and the except  *)
(* clause runs.  A crash ends the process: its memory is gone, the rows    *)
(* stay.  Both have a budget.                                              *)
(***************************************************************************)
EXTENDS PipelineDB

CONSTANTS Workers,       \* worker processes
          StageOf,       \* the stage whose queue a worker polls
          MaxAttempts,   \* queue.max_attempts
          RetryBackoff,  \* queue.retry_backoff_sec, in ticks (5 s is less than one)
          WaitAttempts,  \* max_attempts of a deliberate wait: 10_000
          MaxFaults,     \* bound on exceptions of calls that should work
          MaxCrashes     \* bound on process deaths

\* The StageName values that have a worker, and the ranges of the queue settings.
ASSUME WorkerAssumption ==
    /\ Stages = {"research", "analysis", "execution", "approval", "outcome"}
    /\ StageOf \in [Workers -> Stages]
    /\ MaxAttempts \in Nat /\ RetryBackoff \in Nat /\ WaitAttempts \in Nat
    /\ MaxFaults \in Nat /\ MaxCrashes \in Nat

VARIABLES lease,     \* the JobLease of a worker, empty or one record
          pc,        \* the next call of a worker's process_next
          mem,       \* its local variables: status read, rows to do, time read
          faults,    \* faults so far
          crashes,   \* crashes so far
          req,       \* the alert request in the ingress handler, empty or one record
          sends,     \* how often the scout sent an alert
          accepted,  \* alerts answered with 202
          clicks,    \* decisions of human approvers, in order
          broker     \* orders the broker received, in order

env == <<req, sends, accepted, clicks, broker>>
budget == <<faults, crashes>>

NoLocals == [status |-> "", todo |-> {}, at |-> 0]

WorkerInit == /\ lease = [w \in Workers |-> <<>>]
              /\ pc = [w \in Workers |-> "idle"]
              /\ mem = [w \in Workers |-> NoLocals]
              /\ faults = 0 /\ crashes = 0

Held(w) == lease[w][1]
Run(w) == <<Held(w).job_id, Held(w).attempt_count>>
Parent(w) == MessageOf(Held(w).message_id)
Trace(w) == Parent(w).trace_id

\* Worker w is about to make call c.
At(w, c) == pc[w] = c

\* Go on to call c, or leave process_next; locals are set where c needs them.
Goto(w, c) == pc' = [pc EXCEPT ![w] = c] /\ UNCHANGED <<lease, mem, budget>>
GotoWith(w, c, locals) ==
    pc' = [pc EXCEPT ![w] = c] /\ mem' = [mem EXCEPT ![w] = locals] /\ UNCHANGED <<lease, budget>>
Leave(w) == /\ pc' = [pc EXCEPT ![w] = "idle"]
            /\ lease' = [lease EXCEPT ![w] = <<>>]
            /\ mem' = [mem EXCEPT ![w] = NoLocals]

\* The first call of the try block in each stage.
FirstCall == [research |-> "analyze", analysis |-> "snapshot", execution |-> "execute",
              approval |-> "read_request", outcome |-> "observe"]

Lease(w) ==
    /\ At(w, "idle")
    /\ \E j \in DOMAIN jobs :
         /\ IsNextReady(StageOf[w], j)
         /\ LeaseNextJob(j)
         /\ lease' = [lease EXCEPT ![w] = <<LeaseOf(j)>>]
    /\ pc' = [pc EXCEPT ![w] = FirstCall[StageOf[w]]]
    /\ UNCHANGED <<now, mem, budget, records, env>>

\* An exception without a fault: the call cannot succeed in this state.
Raises(w) == Goto(w, "except") /\ UNCHANGED <<now, tables, records, env>>

Fault(w) ==
    /\ pc[w] \notin {"idle", "except"} /\ faults < MaxFaults
    /\ faults' = faults + 1
    /\ pc' = [pc EXCEPT ![w] = "except"]
    /\ UNCHANGED <<now, tables, records, lease, mem, crashes, env>>

\* except Exception: complete_job_retry; return False
Except(w) ==
    /\ At(w, "except")
    /\ CompleteJobRetry(Held(w), RetryBackoff, MaxAttempts)
    /\ Leave(w)
    /\ UNCHANGED <<now, budget, records, env>>

\* The process dies, or the except clause raises: run_forever has no handler.
Crash(w) ==
    /\ ~At(w, "idle") /\ crashes < MaxCrashes
    /\ crashes' = crashes + 1
    /\ Leave(w)
    /\ UNCHANGED <<now, tables, records, faults, env>>
=============================================================================
