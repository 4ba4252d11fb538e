# A TLA+ model of Polymarket Sentinel

The repository turns moves on prediction markets into (paper) stock orders. A
*scout* (`src/sentinel`) watches Polymarket and posts alerts; a *pipeline*
(`src/pipeline`, `src/researcher`, `src/analyst`, `src/executor`, `src/outcome`,
`src/contracts`) researches an alert, picks a trade candidate, asks for approval,
submits an order and observes what became of it. The scout is one process: tasks of
one event loop around an SQLite store. The pipeline's stages are separate processes
that meet only in one database, by way of a job queue. This project models both.

Paths below are relative to the repository root. `PROJECT.json` maps every
definition to the lines it models.

## 1. Inventory

| Component | Source | State | Operations | What makes it correct |
|---|---|---|---|---|
| Job queue | `src/pipeline/db.py`, `queue.py` | `stage_jobs`, `stage_runs`, `dead_letters` | `enqueue_job`, `lease_next_job`, `complete_job_success`, `complete_job_retry`, `dead_letter_job` | leases are exclusive and never stale, the run ledger tells the truth, attempts are bounded, every job comes to rest |
| Pipeline database | `src/pipeline/db.py`, `migrations/`, `idempotency.py` | traces, messages, evidence, snapshots, candidates, approval requests, orders, observations | one method per table, mostly one transaction each | a message is stored once per idempotency key and hands over exactly once |
| Ingress | `src/researcher/server.py` | none of its own | `handle_alert`: three transactions | an accepted alert is researched, once |
| Researcher, analyst, executor | `src/*/worker.py` | lease and locals in memory | `process_next` | retries duplicate nothing, no order without approval, one client order id per trace |
| Approval worker and API | `src/executor/worker.py`, `server.py`, `src/pipeline/approvals.py` | approval requests | `process_next`, approve, reject | only a human's approval of that request opens the gate |
| Outcome worker | `src/outcome/worker.py`, `src/pipeline/outcomes.py` | outcome observations | `process_next` | each horizon is scheduled once and work ends |
| Risk engine, analyst filters, technicals, `classify_outcome` | `src/executor/risk`, `src/analyst`, `src/pipeline/outcomes.py` | none | pure functions | limits at their boundaries |
| Research agent and tools | `src/researcher/agent.py`, `tools/` | none | calls to services | outside: its verdict is a choice |
| Scout: application | `src/sentinel/app.py` | queues, tasks | start-up run, tasks, `on_market_resolved`, restart | a restart or a failed poll cuts off no more than it must |
| Scout: gatekeeper, websocket client | `src/sentinel/ingestion` | `run_once`'s difference, command queue, `_active_asset_ids`, the connection | `run_once`, `_command_loop`, connect, `market_resolved` | the store and the subscriptions never drift apart, the cap on markets holds |
| Scout: detector | `src/sentinel/processing/detector.py` | bars and latest tick per market, cooldowns | `ingest_tick`, `scan_once`, `remove_asset` | no alert of a dropped market, no alert mixed from two moments, one alert per cooldown |
| Scout: dispatcher | `src/sentinel/notifications` | event cooldowns | `dispatch_many` | one alert per event and period, none passed over for anything but one of its event |
| Scout: store, archiver, retention | `src/sentinel/storage` | `tracked_markets`, `price_ticks`, parquet and snapshot files | upsert, activate, insert, archive, delete, prune | archived before deleted, and deleted in the end |
| Scripts | `scripts/` | none | replay, reports, health | - |

How they interact: the scout posts an alert over HTTP and posts it again on a
failure; ingress stores a trace and a message and enqueues a research job; each stage
leases a job, works, and in one transaction stores its output message and enqueues
the next stage's job; humans decide approval requests over HTTP at any time; the
executor and the approval worker call the broker.

What is hard: several processes poll one queue; every `process_next` makes several
transactions in one `try` block, and an exception *after* the commit reopens a job
that has succeeded; processes die; alerts are delivered twice; approvals race their
expiry; an order can be placed and not recorded. In the scout every `await` lets the
other tasks run: a poll applies a difference that may be out of date, a scan goes on
with a deque that was dropped meanwhile, a connection goes down with a command half
carried out, an archive run dies between two files. The `hazards` of `PROJECT.json` give
the line of each, and the properties aimed at it.

## 2. Modules

```
StageJobs         job tables and their transactions (db.py)
 |-- JobQueue     the lease protocol, stage work left open     <- MCJobQueue, JobQueueProofs
 `-- PipelineDB   the other tables, idempotency keys
      `-- StageWorker   what the workers share: lease, except clause, faults, crashes
           |-- Ingress, Researcher, Analyst, Outcome
           `-- Executor -- Approval
                 Pipeline = all of them around one database     <- MCPipeline
                 Pipeline implements JobQueue (FollowsJobQueue)
                  `-- PipelineQueueProofs -- PipelineProofs -- OrderProofs -- TraceProofs

MarketStore       tracked_markets (sqlite_store.py)
 |-- Gatekeeper, WsClient -- Feed      which markets are streamed   <- MCFeed, FeedProofs
 |-- Detector, Dispatcher -- Alerts    from ticks to notifications  <- MCAlerts, AlertsProofs
 `-- TickArchive                       the life of a stored tick    <- TickArchiveProofs
```

The two halves meet in one place: an alert the dispatcher hands to the HTTP webhook is
what `Ingress!Post` posts, retries included.

* **StageJobs**: a job id is the row's position, so insertion order is the
  `created_at` order of `lease_next_job`. Every transaction is one operator.
  `priority` is left out: every caller uses the default.
* **JobQueue** is the abstract specification of a stage worker. `Lease`, `Succeed`,
  `Return`, `Retry`, `GiveUp` and `Crash` are what any `process_next` may do;
  `Retry` is allowed in phase `finishing` too, because the `except` clause also
  catches what is raised after `complete_job_success` committed.
* **PipelineDB**: a `uuid4()` is named after what drew it. One run draws at most one
  message, candidate and snapshot id, so `<<job_id, attempt>>` stands for all three;
  `<<0, a>>` is the ingest message of alert `a`. A message keeps the payload fields
  later stages branch on, and `contract`, the Pydantic model its payload satisfies.
* **StageWorker** and the stage modules: one action per database or external call;
  `pc` names the next call, `mem` holds the locals that outlive a call. `Fault` is an
  exception of a call that should work (the transaction rolls back, the `except`
  clause runs); `Raises` is an exception the state itself forces; `Crash` loses the
  process with its memory.
* **Ingress**: the three transactions of `handle_alert` are three steps, one request
  at a time, since the endpoint runs them without awaiting. Refused requests change
  nothing.
* **Pipeline**: the composition, the cross-component properties and the refinement
  mapping onto JobQueue.

* **MarketStore**: the rows of `tracked_markets` and their cache are one variable, as
  each method commits and updates the cache before it yields again. The columns kept
  are `active` and `subscribed_at_ms`.
* **Gatekeeper**: `run_once` is `Fetch` (the answer, the filter, the difference, which is
  kept in `gk`), then one step per store call; the commands are queued in the step of
  the last call, because `put` on an unbounded queue does not wait. A store call that
  raises drops the run with its commands.
* **WsClient**: taking a command and changing the set is one step, sending the set
  another; a lost connection may fall in between. The server streams the ids of the
  last message of the connection.
* **Feed** composes them with `SentinelApp.run`: nothing connects before the first
  `run_once` is through. The history variable `missed` holds the markets that are
  active without a subscribe command the client will ever see: those of a failed run,
  and those that were active before a restart.
* **Detector**: `scan_once` waits only in `insert_shift_event`, so one step of the scan
  runs from one alert to the next (`ScanToAlert`) or to its end (`ScanToEnd`), over
  markets in any order. `orphans` are the deques the scan holds that `remove_asset` has
  dropped.
* **Dispatcher**: `DispatchMany` is `select_for_dispatch` with the cooldowns it sets, and
  the look at `min_severity` after it; `Deliver` is the fan-out of one alert, which some
  notifier gets or none.
* **Alerts** composes them with the tasks that change markets meanwhile. `fired`, `sent`,
  `lost` (selected alerts that nobody got) and the `at` of an entry are history.
* **TickArchive**: `archive_once` is one step per store call and file; `CutShort` ends a
  run anywhere and may leave a torn file behind.

Variables correspond to tables by name. Outside the program: the clock (`Tick`), the
scout's posts and the approvers' clicks (`Post`, `HumanDecides`, bounded), the broker
(`broker` is the list of orders it received; `PaperBrokerClient` deduplicates nothing).

### Abstractions

* Time is counted in ticks. `RetryBackoff = 0`: the backoff of 5 seconds is far below
  the approval timeout and the horizons, which are one or two ticks.
* Research verdicts are `pass` and `defer`: all other statuses end the trace the same
  way. Of the risk checks, `candidate_not_expired` depends on time and is kept; the
  others are a choice, so `RejectRisk` is always possible. One candidate stands for
  all: the executor takes the best one.
* `FreshSnapshots = FALSE` is one process in `run_forever` with its
  `StaticPortfolioProvider`, which returns the same snapshot each time: the analyst is
  never started again. `TRUE` is a new process per job (`python -m analyst --once`, or
  an analyst restarted in between) or a live provider.
* `Lookups` says how the executor's look-up of a report's snapshot may end. `{"found"}` is
  an executor whose provider knows the analyst's snapshots, as in the tests; as
  deployed it is `{"missing"}` (section 6).
* Lookups before an insert (`IsQueued`, `IsStored`) are modelled, and the constraints
  behind them are not: `UNIQUE(stage, message_id)` and `idempotency_key UNIQUE` of both
  schemas would turn a duplicate insert into an exception, but no insert gets that far.
* `ForeignKeys = TRUE` is Postgres; SQLite is opened without `PRAGMA foreign_keys`.
* A transaction commits or raises. A commit whose acknowledgement is lost is covered
  for the broker call (place, then fault) but not for database commits.
* Scout: prices, spreads and times are small integers; `max_markets`, windows,
  thresholds and cooldowns are constants. Every market has high liquidity, so that
  `_build_confidence` and `_is_allowed` depend on the tick. A tick reaches the detector
  in the second of its timestamp (in TickArchive it may be late). An API answer is a
  sequence of markets with the fields the filter looks at; an asset occurs once in it.
  A failed request to the API changes nothing and is no step.
* The branch of `ApprovalWorker` for a missing request is no action of Pipeline;
  `ApprovalJobHasRequest` shows that it is never reached.

## 3. Runs

| Run | Checks | Instance |
|---|---|---|
| `jobqueue` | TypeOK, LeaseExclusive, LeaseCurrent, RunLedger, DeadLetterLedger, AttemptsBounded, JobHistory, EveryJobSettles | two workers of one stage, two messages, limits 2 and 3, delays 0 and 1, crashes without bound |
| `pipeline_manual` | TypeOK, HandoffExact, NoDuplicateStageJobs, OrderNeedsApproval, OrderTrail, OneOrderPerTrace, ApprovalJobHasRequest, OneObservationPerHorizon, SideRecordsComplete | `manual_all`, SQLite, alert posted twice, one click, one fault, two horizons, one portfolio snapshot throughout (the analyst is not restarted) |
| `pipeline_crash` | HandoffExact, OrderTrail, AtMostOneSubmission | `paper_auto_only`, Postgres, alert posted twice, two crashes, two horizons, a new snapshot per analysis (a dead analyst is started again), an executor that finds the snapshot or not |
| `pipeline_live` | LastDecisionCounts, AllJobsSettle, PlacedOrderRecorded, FollowsJobQueue | `manual_all`, three attempts, one fault, two clicks, one portfolio snapshot throughout |
| `feed` | TypeOK, SubscriptionAccount, ActiveStreamed, MarketsCapped, EventuallyStreamed | two markets, a cap of one, all volume orders, one failing store call, two lost connections, two resolutions, one restart |
| `archive` | TypeOK, ArchivedBeforeDeleted, RewriteKeepsHotRows, HotTableDrains | two markets, two ticks up to two units late, hours of two units, three hours, one run cut short |
| `alerts` | TypeOK, AlertCoherent, CooldownKept, EventSilenced, InactiveSilent, EveryAlertHandedOn | two markets of one event, two levels, four ticks (quotes and trades), one switch or resolution, notifiers that fail or not, one restart, three seconds, a market cooldown of two and an event silence of one |

Five further runs end in a counterexample: each states what a document of the
repository promises and shows the code doing otherwise.

| Run | Property | What happens |
|---|---|---|
| `lease_never_reclaimed` | ExpiredLeaseReclaimed | `lease_next_job` takes queued and retry_wait rows only and nothing reads `leased_until`: the job of a worker that died stays running for ever (README.md:537, PLAN.md:752) |
| `accepted_alert_lost` | AcceptedAlertQueued | a failure between `upsert_message` and `enqueue_job`; the redelivery is answered 202 as a duplicate and nothing is enqueued (PLAN.md:1193) |
| `stale_order_placed` | NoStaleOrder | the approval job sleeps until the request expires and then submits it, if it was approved meanwhile (PLAN.md:1069); `int()` cuts fractions of a second off the delay, which may wake it up to a second before |
| `outcome_not_rescheduled` | OutcomeReschedulable | the job for the remaining horizons carries an `OutcomeReport`, which `ExecutionDecision.model_validate` refuses (README.md:122) |
| `archive_overwritten` | ArchivedRowsKept | the hot cutoff falls inside an hour; the next run writes that hour's file again from the rows that are left, and the others are gone (README.md:327, README.md:504) |

`OneOrderPerTrace` and `NoDuplicateStageJobs` hold in `pipeline_manual` by accident: with
the static provider of a running analyst a second analysis is refused by the snapshot's
primary key, or has the key of the first. `python -m analyst` makes a new snapshot at
every start, so an analyst that is restarted between two attempts is
`FreshSnapshots = TRUE`, where both fail (see section 6).

### Bounds, and why they are enough

* *Two workers on a stage, two messages* (`jobqueue`): every conflict of the
  lease protocol is between two workers over one job or over two jobs in order. The
  theorems of section 5 remove the bound for the properties they cover.
* *One alert* in the Pipeline runs: traces share nothing but the queues' order and, with
  a static provider, the snapshot row. A run with two traces is planned.
* *MaxFaults = 1, MaxCrashes = 2, MaxSends = 2, MaxClicks = 2*: each hazard listed needs
  one failure at an unlucky place, one redelivery, or at most two decisions that
  contradict each other. A fault may hit any call, so the one fault is every single
  fault; a second crash can end the worker of the following stage. Faults and crashes
  are not mixed in one run, nor are redelivery (`pipeline_manual`, with one click) and
  a second click (`pipeline_live`, where an alert is posted once): a click finds a
  request by its id and an alert that is redelivered makes no second one.
* *MaxAttempts = 2 or 3* stands for the configured 5: one or two retries below the
  limit, then the limit. `WaitAttempts = 10000` is the code's own number.
* *Horizons of 1 and 2 ticks*: one that is due first and one left over. *CandidateTTL*
  of 1 or 2 lets a candidate expire before and after the executor looks at it.
* `MCMessageIds` is checked by TypeOK to be large enough. `QueueDelays` and
  `QueueClock` are the delays and the clock values of the JobQueue that Pipeline is
  shown to implement: the check takes 0 and 1, and 0 to 100, the proof all numbers.

* `feed`: two markets under a cap of one make every poll that changes its mind activate
  one market and deactivate another, the longest run there is. One fault may hit any
  store call; two drops allow a reconnect that is lost again. `QueueBound` only keeps
  polls from running ahead of a client that is offline.
* `archive`: two ticks suffice for a row that is archived and one that comes late to
  the same hour; six clock units are three hours, with a hot retention of one and an
  archive retention of two, so that archiving, deleting and pruning all happen.
* `alerts`: an alert needs two bars, thus four ticks are two alerting markets; three
  seconds let an event's silence begin and end. Markets are symmetric: they belong to
  one event and the scan takes them in any order. Every allowed level is severe enough
  in the run, as configured; what else can happen is section 6 and the proof.

Deadlock checking is on in `jobqueue`, `feed`, `archive` and `alerts`. It is off in the
Pipeline runs, because a pipeline whose alerts are all dealt with has nothing to do:
budgets for posts, clicks, faults and crashes are finite, and workers with an empty
queue take no step (an empty poll changes nothing).

### Fairness

Weak fairness of each worker's step, of the ingress handler once it has a request, and
of the clock. `run_forever` polls without end and a database or service call returns
or raises, so a worker that can act does; the event loop serves a request it has
begun; time passes. Nothing obliges the scout to post, a human to click, a call to
fail or a process to die. A lease and the steps after it are under one fairness
condition per worker, since a worker is one loop.

Scout: weak fairness of the store calls of a run under way, of connecting, of taking a
command and of sending (`feed`), and of the archiver's steps and the clock
(`archive`): each is a task of the event loop whose `run_forever` loops without end.
Polls, resolutions, failures and restarts need not happen. `alerts` checks safety only.

## 4. What the passing runs show

* **Leases**: no two workers process one job, and a lease held in memory always names
  the row's latest attempt and run. The `UPDATE ... WHERE job_id = ?` statements check
  neither state nor worker and are right only because of this, and it holds only
  because expired leases are *not* reclaimed: the mutant of `Ready` that reclaims them
  breaks `LeaseExclusive`. A repair of `lease_never_reclaimed` has to guard those
  updates.
* **Ledgers**: `stage_runs` has one run per attempt, all but the last retried;
  `dead_letters` has one row per dead job.
* **Hand-over**: whatever fails or dies, a stored output that calls for a next stage
  has its job, and no other job exists. No redelivery, retry or reopened job adds a
  second research, analysis, execution or approval job to a trace.
* **Orders**: with `manual_all` an order reaches the broker only after a human approved
  that request, and the worker goes on only while that is the latest decision, whatever
  was decided before. What is recorded as an order was placed; a submitted decision has its
  order; without crashes a placed order gets recorded, unless its approval is taken back
  between a failed save and the retry (section 6); a crash does not submit twice.
* **Side records**: evidence and candidates are saved after the commit; without crashes
  a finished job has them exactly once. (A crash between the commit and the save
  leaves a succeeded job without them.)
* **Liveness**: without crashes all work ends. With crashes each job ends or is the one
  its worker died with.
* **Refinement**: every step of every stage is a step of JobQueue, so what is proved of
  JobQueue holds of the pipeline's use of it. This is proved too (section 5).
* **Subscriptions**: at every moment the commands queued and those of the run under way
  take the client to a set that contains every active market, except those cut off by
  a failed poll or a restart, and otherwise only resolved ones. It takes the set that
  outlives connections and is sent whole to get this: with a set per connection, or
  without the message at connect, the properties fail.
* **Archive**: a tick is deleted only when its hour's file holds it and the snapshot
  lists its market. This needs the rewriting of hours already archived (late ticks,
  markets tracked since), which is also what loses rows in `archive_overwritten`. It
  also needs `hot_retention_hours >= 1` and ticks less late than that
  (`ArchiveAssumption`).
* **Alerts**: a market dropped or resolved is silent although the server goes on
  sending its ticks; for a market without quotes this rests on `subscribed_at_ms` being
  reset to 0. A cooldown per market and level, and one per event, hold across scans of
  any length; an eligible alert is passed over only for another of its event that is
  selected now or was selected within the period, so that a failed send costs an event
  the alerts of `event_dedup_sec` and no others.

## 5. Proofs

TLAPS checks the theorems below for every value of the constants: any sets of stages,
workers, alerts, markets and horizons, any limits, delays and budgets of faults and
crashes. Each group has one inductive invariant, a conjunction of named parts, with one
lemma per action (or kind of action); a theorem then says that a property follows from
it. The invariants are stronger than the properties because no property is inductive
alone.

The assumptions are those the modules name, and TLC evaluates them on the runs:
`LeaseSecAssumption` (a lease is positive, so 0 can stand for NULL),
`WorkersAssumption` and `WorkerAssumption` (each worker polls one stage; attempts,
backoff and budgets are numbers), `LimitsAssumption`, `AnalystAssumption`,
`ExecutorAssumption` (there is a horizon to observe, a look-up finds or misses),
`QueueAssumption`, `GatekeeperAssumption` (API answers are lists of markets),
`ArchiveAssumption` (the hot
retention is at least an hour and ticks are no later than it), `DetectorAssumption` and
`DedupAssumption` (levels are a list, periods are numbers), `ClockAssumption` (wall-clock times
are further from 0 than the warm-up is long) and `TickAssumption` (prices are not
negative).

### The job queue: `JobQueueProofs`

| Theorem | States |
|---|---|
| QueueTypeCorrect | `Spec => []TypeOK` |
| QueueLeaseExclusive | `Spec => []LeaseExclusive` |
| QueueLeaseCurrent | `Spec => []LeaseCurrent` |
| QueueRunLedger | `Spec => []RunLedger` |
| QueueDeadLetterLedger | `Spec => []DeadLetterLedger` |
| QueueJobHistory | `Spec => JobHistory` |
| QueueAttemptsBounded | `Spec => []AttemptsBounded` |

That two workers do not hold one job needs to know that the row of a held job is
`running` or `succeeded`, thus not ready for another lease (LeaseCurrent); that a lease
stays current when *another* worker updates its row needs LeaseExclusive; that closing a
run changes the last run only needs `run_id = Len(runs)`; that a dead letter is written
once needs that the holder's row is not dead yet. `IndInv` is therefore their
conjunction: well-formed tables (types, RunLedger, one job per message, bounded
attempts), `DeadOK`, lease types, LeaseExclusive, LeaseCurrent. The transactions alone
keep the tables well formed (lemmas about `Enqueued`, `RunsFor`, `LeaseNextJob`,
`RetryLater`, `DeadLetterJob`, `CompleteJobSuccess`); each action then has a lemma that
joins these facts with the leases.

### The pipeline: `PipelineQueueProofs`, `PipelineProofs`

| Theorem | States | Under |
|---|---|---|
| PipelineInvariant | `Spec => []PipelineInv` | |
| PipelineTypeCorrect | `Spec => []TypeOK` | `Ids \subseteq MessageIds` |
| HandoversExact | `Spec => []HandoffExact` | |
| ApprovalJobsHaveRequests | `Spec => []ApprovalJobHasRequest` | |
| ImplementsJobQueue | `Spec => FollowsJobQueue` | `Ids \subseteq MessageIds`, `QueueDelays = QueueClock = Nat` |

The hypotheses say that the ids never run out and that the abstract queue may wait for
any time. The many actions of the five stages fall into nine kinds (`Quiet`,
`StoresAlert`, `QueuesAlert`, `Moves`, `Quits`, `Takes`, `Finishes`, `Retries`, `Emits`),
told apart by what they do to the job tables, leases and messages: `NextKinds` shows that
every step is of such a kind, and the invariants are then proved kind by kind.
`QueueInv` relates the tables to the leases (`LeasesOK`: a worker's row is `running`
before its commit and `succeeded` after it), every stored message to the run that drew
its id (`MessagesOK`, which is what makes the ids of new outputs new), and messages to
jobs (HandoffExact). The refinement maps a worker's `pc` to a phase of JobQueue
(`PhaseOf`); every kind but Moves and Quiet is one action of JobQueue, a fault after the
commit included, and the others are stutters.

### Orders: `OrderProofs`

| Theorem | States |
|---|---|
| NoOrderUnapproved | `Spec => []OrderNeedsApproval` |
| LastDecisionsCount | `Spec => LastDecisionCounts` |
| OrdersTrue | `Spec => []OrderTrail` |
| CrashesResendNothing | `Spec => []AtMostOneSubmission` |

`OrderInv` adds to PipelineInv which stage submits in the mode (`ModeOK`), what a
candidate id says of the message that carries it (`CandidatesOK`), that a worker beyond
the gate was let through by a click on its own request (`ApprovedOK`; the request read is
the one the job's message names, and a row that says `approved` says what was clicked
last), that a message has at most one request (`RequestIdsOK`: a run draws the id once and
makes its request at once, so the latest click on an id is the latest on its row), what a
worker knows between placing and recording (`TrailOK`), and that while no call has failed
the job of a placed order is past `place_order` and is not taken up again (`OrdersSpent`). The last is where a crash differs
from an exception: the job of a dead worker stays `running` for ever, so nobody places
its order again. A repair of `lease_never_reclaimed` would end this.

### Traces: `TraceProofs`

| Theorem | States | Under |
|---|---|---|
| StageJobsUnique | `Spec => []NoDuplicateStageJobs` | `~FreshSnapshots \/ MaxFaults = 0` |
| OneOrderId | `Spec => []OneOrderPerTrace` | the same |
| ObservationsUnique | `Spec => []OneObservationPerHorizon` | the same |
| SideRecordsSaved | `Spec => []SideRecordsComplete` | the same and `MaxCrashes = 0` |

The hypotheses are the exact limits of the code: an analysis repeated after its commit
with a new snapshot, be it of a live provider or of an analyst restarted in between,
stores a second report (section 6), and a crash between the commit
and the save loses the side records. `TraceInv` says what each message is stored under
(`KeysOK`), that a research report is analysed once (`AnalysedOnce`), and then how the
observations and side records follow the reports (`ScheduledOK`, `SideOK`).

### Subscriptions: `FeedProofs`

| Theorem | States |
|---|---|
| FeedTypeCorrect | `Spec => []TypeOK` |
| StoreAndClientAgree | `Spec => []SubscriptionAccount` |
| ActiveMarketsStreamed | `Spec => []ActiveStreamed` |
| MarketCapHolds | `Spec => []MarketsCapped` |

SubscriptionAccount counts the commands a run under way is going to send; it is not
inductive, because a run that fails never sends them. `FeedInv` states it for the
commands already queued (`QueueAccount`), and ties the run's locals to the store
(`RunOK`: deactivating comes last, so the markets to be removed are untouched until then)
and to the cap (`CapOK`).

### Archive: `TickArchiveProofs`

| Theorem | States |
|---|---|
| ArchiveTypeCorrect | `Spec => []TypeOK` |
| NothingDeletedUnarchived | `Spec => ArchivedBeforeDeleted` |
| RewriteLosesNothingHot | `Spec => RewriteKeepsHotRows` |

`ArchiveInv` follows the rows the run under way is going to delete: the hour of such a row
is still to be archived, or in hand with no step having missed the row, or the row is in
its files (`DoomedRowsCovered`). A tick that comes in after the listing is no such row,
because it is no later than the hot retention allows and the cutoff was fixed when the
run began. `UnfetchedIsNew` says that a row missing from the fetched ones is in no file
that the rewriting could lose it from.

### Alerts: `AlertsProofs`

| Theorem | States |
|---|---|
| AlertsTypeCorrect | `Spec => []TypeOK` |
| AlertsCoherent | `Spec => []AlertCoherent` |
| CooldownsKept | `Spec => []CooldownKept` |
| EventsSilenced | `Spec => []EventSilenced` |
| InactiveMarketsSilent | `Spec => InactiveSilent` |
| AlertsHandedOn | `Spec => EveryAlertHandedOn` |

`AlertsInv` carries what one alert's making relies on from earlier steps. The last bar of
a market and its latest tick are of one moment (`BuffersOK`), which makes alerts coherent
when they are made; a scan has a deque for each market left to it, in the buffers or as
an orphan (`ScanForm`). A cooldown reaches as far as every remembered alert demands
(`CooldownsOK`), and so does the silence of an event; the alerts of the scan under way are
no older than all that were selected before (`SilencesOK`), without which a selection could
shorten a silence, and every silence was set for an alert that was selected
(`SilencesCaused`). A market that is not active has no time of subscription (`StoreOK`), which
closes the warm-up exception of `_should_skip`. Below that stand lemmas about the
operators: what `_prune_bars` and `_upsert_bar` leave of the last bar, that the tick count
of a window is a number, and that `_rank_key` is a strict order, so that every group of
eligible alerts has a best one (`BestExists`) and each event not silent gets exactly one
alert (`SelectionFacts`).

### Only model-checked

Liveness (EveryJobSettles, AllJobsSettle, PlacedOrderRecorded, EventuallyStreamed,
HotTableDrains) needs fairness and ENABLED, which are beyond the prover. Every
invariant and every safety property of a step that a passing run checks is proved.

## 6. Known divergences without a run

The model reaches these too; they concern what a document says less directly, or share
their cause with one of the five runs.

* `decide_approval` overwrites any decision: rejected after approved, or the worker's
  `expired` after a human's `approved` (`src/pipeline/db.py:637`; PLAN.md:916-935).
* The outcome job is visible before its observations: an outcome worker that polls in
  between completes it and nothing is observed (`src/executor/worker.py:229`;
  PLAN.md:1307).
* A failure between two `save_outcome_observation` calls loses the later horizons, as
  the retry finds observations and schedules none (`src/executor/worker.py:229-231`).
* An order is out, saving it fails, and the approver rejects the request before the retry:
  the retry reads the status again and closes the job as cancelled, with the order at the
  broker and no `broker_orders` row (`src/executor/worker.py:180-181`, `:278`).
  PlacedOrderRecorded exempts this.
* `python -m executor worker` builds a snapshot of its own with a random `snapshot_id` and
  looks up the report's, which the analyst process drew: `get_portfolio_snapshot` raises
  KeyError and every execution job with a candidate is retried and dead-lettered
  (`src/executor/worker.py:83`, `src/executor/__main__.py:25-33`). `SnapshotMissing` is
  this step; no property forbids it.
* With the static provider the second snapshot is refused by its primary key, so an
  analyst process completes one analysis in its life and dead-letters the others
  (`src/analyst/worker.py:57`).
* On Postgres the approval request refers to a message that is stored only afterwards;
  the foreign key refuses it and `manual_all` jobs are dead-lettered
  (`src/executor/worker.py:130`, `src/pipeline/migrations/001_postgres.sql:105`).
* A redelivered alert sets its trace back to `ingest`/`persisted`
  (`src/pipeline/db.py:107`).
* Deliberate waits count as attempts: a transient fault after some waits meets
  `queue.max_attempts` at once and can dead-letter a job whose order is placed and not
  yet recorded. With `MaxAttempts = 2`, `PlacedOrderRecorded` fails for this reason.
* An analysis repeated after its commit with a new snapshot (`FreshSnapshots = TRUE`: a
  live provider, `python -m analyst --once`, or an analyst that was restarted) has a new
  key and candidate id, hence a second execution job and order of one trace
  (`src/analyst/worker.py:124`; README.md:539, PLAN.md:1067).
* After a restart the store still holds the active markets, `run_once` finds nothing new
  and the websocket client starts with an empty set: these markets are not streamed
  until they leave the list and come back. The same happens to the markets a failed
  poll had activated (`src/sentinel/ingestion/gatekeeper.py:51-61`; README.md:3). This
  is the set `missed` the Feed properties exempt.
* A resolved market is never taken out of `_active_asset_ids`: the poll finds it
  inactive and sends no unsubscribe command (`src/sentinel/app.py:64-70`). If the API
  still lists it, the next poll activates it again.
* A scan that waits while its market is resolved may go on with the dropped deque. As
  soon as a tick of that market arrives, it can alert from the old bars and the new
  tick, and set a cooldown for it (`src/sentinel/processing/detector.py:70`);
  AlertCoherent exempts this.
* The event cooldown is set when an alert is selected, so one that every notifier failed
  to send, or that `min_severity` holds back, silences its event unheard
  (`src/sentinel/notifications/base.py:74-84`). `min_severity` uses `LEVEL_ORDER`, where
  `trend` is above `confirmation`, and `_rank_key` the opposite order: with
  `min_severity: "trend"` and both levels allowed, a confirmation alert is preferred to a
  trend alert of its event and then sent to nobody. The configured value is
  `confirmation`, with which every allowed level is sent.
* Alerts that were stored but not dispatched when the process died are not sent after
  the restart: nothing reads `shift_events` back (`src/sentinel/processing/detector.py:47-54`).
* Both cooldowns are counted from the time of the alert, so two alerts of an event can
  go out closer together than `event_dedup_sec` when a scan takes long.
* Archive files are pruned when the beginning of their hour is past the retention,
  their last rows up to an hour early (`src/sentinel/storage/retention.py:92`).
* `scripts/replay_stage.py` prints dead letters and replays nothing (PLAN.md:1282).

## 7. Not modelled, and why

* `shift_events` and JSON alert files: written once, deleted by age, read by nobody in
  the process. The texts notifiers send, enrichment, parsing of websocket messages:
  formatting.
* Late ticks in the detector: bars would be out of order; only TickArchive has them.
* Risk limits, filters, technicals, `classify_outcome`: pure arithmetic over one
  snapshot without state; their outcome is a choice of the stage modules.
* The research agent and its tools, prompts, market data: external services.
* Configuration, logging, metrics, health checks, reporting scripts: no state that a
  property could be about.

## 8. Plan

1. Done: StageJobs, JobQueue with its proofs; PipelineDB, the stage modules, Pipeline;
   the scout as Feed, Alerts and TickArchive.
2. Done: the proofs of section 5.
3. `RiskEngine.evaluate` and `classify_outcome` as operators over small integers, in
   place of the choice in `RejectRisk`.
4. Two traces in Pipeline, with symmetry over alerts.
