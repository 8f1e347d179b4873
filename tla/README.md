# OpenEnterprise Twin: a TLA+ model

TLA+ modules for OpenEnterprise Twin: the Python service under `src/backend`
and the part of the React client under `src/frontend` that runs an experiment.
Modelled are the parts whose correctness depends on the order of events (the
durable job queue with its workers, leases and handlers, idempotent submission,
the governed decision ledger, caches and stores shared by requests, the
in-process runner, the client's polling) and the deterministic core that is
hard to test by example (the daily engine, the evidence gate, the policy search,
adaptive policies, outcome monitoring). TLC checks them on small instances;
TLAPS proves every safety property those runs check, and both refinements, for
every value of the constants.

## The system

| Component | State | Operations | Hard behaviour | What makes it correct |
| --- | --- | --- | --- | --- |
| Job queue: `infrastructure/jobs.py`, `application/jobs.py` | `jobs` table: status, attempts, lease owner and expiry, progress, cancellation request, next attempt, result | submit, request_cancellation, claim_next, heartbeat, report_progress, succeed, fail, cancel, recover_expired_leases | several processes on one table, `now` sampled before the transaction that uses it, skip-locked queries | legal lifecycle, attempt budget, exclusive attempts, fencing of replaced workers, every job ends |
| Workers: `infrastructure/runner.py` | what a thread carries between transactions: `current`, the job, `lease_lost`, the outcome; the heartbeat thread; the tenant offset | run_once, heartbeat, checkpoint, settle, start and shutdown of the pool | crash anywhere, late heartbeats, lease lost while executing, tenants coming and going between polls | a punctual worker keeps its job; its thread never ends by an unexpected exception; a tenant is served in turn |
| Job handlers: `_AnalyticalJobHandlers` in `runner.py`, `application/decision_loop.py`, repositories | `experiments`, `calibrations`, `optimizations` rows, artifact digests | experiment: claim, replay, complete, fail, reset; the others: look up, compute, store, answer | transactions that never look at the job's lease, a lookup and an insert of different transactions, unique constraints as last guard | outcomes are final; a succeeded job has its own result; one result per optimization job |
| Decision ledger: `application/ledger.py`, `domain/ledger.py`, `SqlDecisionLedgerRepository` | `decisions` (versioned snapshot), `decision_events` (trail) | create, update_content, transition, export_packet | read and write in different transactions; optimistic versions; a load of two SELECTs | trail and snapshot agree; approved evidence never changes; separation of duties |
| Submission: routes, `submit`, `submit_in_session`, backfill | idempotency keys | create, replay, conflict, link, backfill | two creators with one key; backfill in two processes; deadlock with a replayed create | one job per experiment and per key; answers fit what was asked |
| In-process runner: `BoundedExperimentRunner` | slots, scheduled ids, futures | submit, callback, recover_pending, shutdown | a semaphore outside the lock, callbacks that submit | slots never leak, nothing queued is forgotten (nothing constructs the class any more) |
| Artifact store: `infrastructure/artifacts.py` | files by digest | put, get | deaths and power failures between write, rename and fsync | a digest that a row names is whole |
| Identity: `infrastructure/identity.py` | JWKS cache shared by request threads | get_key, refresh | racing refreshes, two assignments | a withdrawn key is refused after the time to live |
| Evidence snapshots: `scenario_routes`, `portfolio`, repositories | comparison and brief stored on the candidate's row | get or build, overwrite | readers that all build at once | what is shown settles |
| Simulation engine: `simulation/` | inventories, orders, cash, debt by day | the phases of a day | partial shipments and cancellations, netting of inventories and cash over many days | units, orders and cents reconcile; the engine's own validation never fails |
| Evidence gate and frontier: `simulation/experiment.py`, `scenarios/`, `reporting/brief.py`, `analytics/portfolio.py` | none between calls | summarize, compare, assess, build_policy_frontier | thresholds, ties, few replications | an adoption is earned, a breach is followed up, the frontier is efficient |
| Policy optimizer and adaptive policies: `analytics/` | evaluation cache, population; streaks and cooldowns | optimize; validate, evaluate | a budget that ends inside a generation, ties, windows | the answer is the best seen; activations are due |
| Outcome monitoring: `analytics/monitoring.py`, `decision_loop.py` | reports, active alerts | monitor_outcomes, reconcile_alerts | escalation during a cooldown | an alarm is heard |
| Client: `useScenarioExperiment`, `useJob` | the hook's state and refs, the query cache | submit, poll, advance, retry, leave and return | asynchronous functions between renders, effects that run only on changed dependencies | a run arrives |
| Calibration, credibility, plugins, CLI, settings, middleware, other pages | configuration, stateless computation | | | not modelled, see the end |

How they interact. A route writes an experiment and its job in one transaction.
A worker rotates over the tenants, claims a job in a transaction of its own and
runs a handler outside any transaction; the handler opens transactions of its
own on the row of the resource and puts an artifact into the store; the worker
then writes the job's outcome, guarded by owner and expiry of the lease. Workers
never talk to each other: everything they know of one another is in the rows.
The client posts, polls the job and posts again. Comparison and brief are built
by whichever request first reads them. The decision ledger is called by requests
only and shares nothing with the queue but the database.

## Modules

| Module | Models |
| --- | --- |
| `JobStore` | the job row and each repository operation as an operator from row to row; no variables |
| `JobQueue` | the table, the worker threads and the clock: one action per transaction of `run_once`, `_execute_claimed`, the heartbeat thread, and of the API's submit and cancel. The handler is left open |
| `JobLifecycle` | the abstract promise of the queue: the state diagram with budget and cancellation. `JobQueue!Lifecycle` maps the rows to it |
| `JobQueueProofs` | theorems of `JobQueue`: invariants; action properties, the refinement, punctual workers |
| `ExperimentJobs` | `JobQueue` composed with the `experiments` table and the experiment handler |
| `JobHandlers` | `ExperimentJobs` composed with the calibration, optimization and adaptive-comparison handlers and their rows |
| `JobHandlersProofs` | theorems of `JobHandlers` |
| `TenantRotation` | which tenant a poll serves while tenants come and go |
| `DecisionLedger` | the ledger's requests, each a read with its checks and later a conditional write; the export of a packet as its two SELECTs |
| `GovernedDecision` | the abstract ledger that serves a request at a time. `DecisionLedger!Governance` maps the tables to it |
| `DecisionLedgerProofs` | theorems of `DecisionLedger` |
| `Submission` | the route that creates an experiment with its job, the repository's `submit()`, the backfill of starting processes: one action per statement of their transactions that reads, waits or takes a lock, and one per commit, with the database's locks and rollbacks |
| `SubmissionProofs` | theorems of `Submission` |
| `JwksCache` | `get_key` and `_refresh` in several threads |
| `ArtifactStore` | `put_json` of several writers of one digest, call by call, with deaths and power failures |
| `BoundedRunner` | the in-process runner between its critical sections |
| `DecisionEvidence` | comparison and brief of one candidate, built on demand by racing requests |
| `DailyEngine` | `simulate_trace`: one action per phase of a day, production planning, procurement, financing, and the validation of plan, period and trace |
| `EvidenceGate` | distributions, paired comparison, grade, decision status, triggers, brief and frontier |
| `Optimizer` | the NSGA-II search: budget, ranks, crowding, selection, convergence, result |
| `AdaptivePolicy` | validation of a policy and its evaluation over a stream |
| `OutcomeMonitoring` | the levels of a report, the reports' store, reconciliation of alerts |
| `ExperimentRun` | the client's run of an experiment: hook, effect, polling, cache |
| `ServicesProofs` | theorems of `ArtifactStore`, `JwksCache`, `DecisionEvidence`, `BoundedRunner`, `ExperimentRun`, `OutcomeMonitoring` and `TenantRotation` |
| `DailyEngineProofs` | theorems of `DailyEngine` |
| `AnalyticsProofs` | theorems of `EvidenceGate`, `AdaptivePolicy` and `Optimizer` |
| `FiniteSetLemmas` | lemmas about finite sets: induction, largest and smallest elements, sums, products, and orders |
| `MCJobQueue`, `MCExperimentJobs`, `MCJobHandlers`, `MCDecisionLedger`, `MCSubmission`, `MCLiveness`, `MCServices`, `MCAnalytics` | instances for TLC: stages, roles, symmetry, a small company, small policies |

`MCServices`, `MCAnalytics` and `MCLiveness` each hold several components that
share no state. A variable `part`, chosen initially, says which one runs; the
others stay at their initial states. An action of one part leaves the variables
of the others alone, so nothing is asked of a product of state spaces, and a
behaviour of the run is a behaviour of one component.

### How the models' state corresponds to the code

*The queue.* `jobs[j]` is a row of `JobRecord`. Columns no property needs beyond NULL or not
NULL are Booleans, the payload is left out, a result is the number of the
attempt that produced it. `worker[w]` is what a worker thread holds: `now` is
the `current` that `run_once` samples once and passes to both
`recover_expired_leases` and `claim_next`; `job` and `attempt` the claimed job;
`lost` and `beating` the `lease_lost` event and whether the heartbeat thread
still runs; `outcome` how the handler ended. Worker ids are used by one process
lifetime (`build_worker_id` takes a random part), so a restart is another
worker.

`clock` is the real time. Every leased operation sees a `now` at most `Lag`
behind the clock at its commit. Nothing bounds the age of `current` in
`run_once`. `Tick` has three modes: *free* (time passes whenever it likes),
*timely* (no operation of a running worker is overdue by more than `Lag`),
*lazy* (time passes only when nothing else is due, which keeps the liveness run
small without removing a fair behaviour in which leases expire).

A refused operation (404, conflict, invalid state) changes nothing and is
simply a step that is not taken, except where the refusal changes what the
caller does next: a lost lease, a failing except clause, a cancellation found by
a checkpoint.

*Handlers.* `task[w]` is where the handler of worker `w` is: lookup, second
look, insert and artifact are steps of their own, because each is a transaction
or a call of its own. An optimization row is unique per source job, a
calibration row per identifier that clients choose. A row is named by who stored
it and by the attempt that computed it, and an artifact by its row, so a job
whose digest names another row than the stored one can be told apart.

*Rotation.* `offset` is advanced on every poll that finds a tenant, modulo the
number of active tenants at that moment. `passed` counts, for a tenant that could
be served, the polls in a row that served others.

*The ledger.* `request[c]` is the state of one request: `create` and `append`
carry what the service read and checked to the repository's transaction, `load`
carries the row to the second SELECT, `packet` is the answer. Contents are
identified with their digests.

*Submission.* A row says who is writing it: `inserted` by an open transaction,
or committed and locked by its `writer`; `draft` is the `source_job_id` that
transaction will commit. An INSERT whose key another open transaction has
inserted waits; an UPDATE of a locked row waits; a transaction that is rolled
back (`RollBack`) leaves nothing. `session[t]` is a request or a starting
process: where it is, what it was asked, what its SELECTs showed, and for a
request the answer it gave. A create that replays flushes its link (`Link`) and
holds the row's lock until it commits (`CommitRequest`), may be lost in between,
and a backfill that selects meanwhile skips the row; `passed` is the model's own
history of the rows a start skipped for that reason. Two writes share an action
where nobody can tell them apart: the INSERT of `submit()` and the commit that
follows it at once, and a backfill's INSERT of a job with the UPDATE of the row it
has locked. A deadlock is possible, because a replayed create
holds its new job and wants the experiment, while a backfill holds the
experiment and wants the job's key: `DeadlockVictim` is the database's way out.

*The key cache.* `keys` and `expiresAt` are the loader's two fields, assigned
one after the other; `request[t]` carries the time a thread sampled before it
waited for the response. `Slowest` bounds a request's age (the HTTP client has a
timeout); without it a thread could store an answer of any age.

*The artifact store.* `entry` is what processes find under the digest's name,
`onDisk` what the disk has there; the two differ until the directory is synced.
A death forgets a writer, a power failure also what was not synced. `rows` says
that a row with the digest was committed, by a writer that placed the file or by
one that found it.

*The in-process runner.* `actor[t]` is the place of a client, a pool thread or
the startup thread between the critical sections of `submit` and of the
callback; `slots`, `scheduled`, `executor` and `future` are the semaphore, the
set of ids, the pool's queue and its futures.

*Evidence.* Two builds of a comparison over the same artifacts differ (creation
time, duration), so a comparison is the number of its build, and a brief the
number of the comparison it cites.

*The client.* A job is named by its idempotency key, because a POST under a key
with a job is answered with that job as it is now. `cache` is react-query's
entry for a job; `deps` the dependencies of the effect's last run: the effect
runs only in a render that changes one of them. `task` is the asynchronous
function in progress, one action per await.

*The engine.* `DailyEngine` is a sequential program; its nondeterminism is the
shock tape, which may hold any entry of `Shocks` on any day, and the
cancellation draw. An order of the code is a group of orders of one product,
segment and day; the loops that hand out finished goods and cancellations in a
fixed order are written in closed form (`Allocated`, `CancelledCount`: what those
served before leave), the allocation of machines and materials as a fold over
the products. `today` is the `PeriodResult` being filled, `totals` what
`validate_trace` and the metrics sum over periods. `step` ends in `done`, in
`breach` (the exception without rescue funding), or in `invalid` (an
InvariantViolation of the engine's own validation). Interest is per cent per
day, so that it is not always zero on small debts; a cost in the ledger's cents,
yields and thousandths keep the code's rounding.

*Algorithms.* In `EvidenceGate` a mean is a total and a probability a count over
the replications, so that each comparison of the code is one of integers; a
Wilson interval is the count it was computed from. In `Optimizer` a genome is a
member of a small set and `Evaluation` what the simulator answers for it; the
random draws are any of the given populations and children; an individual is
sorted by counting those ahead of it, and one whose key ties in a later front by
its position (the code: by when its front was completed). In `AdaptivePolicy`
the position of an observation stands for its period. In `OutcomeMonitoring` a
standardized deviation is kept as its fraction.

## Runs

| Run | Question | Bounds |
| --- | --- | --- |
| `race` | safety of the queue under any interleaving | 1 job, 2 workers, one of which may die and lose its heartbeat, 2 attempts, lease 2, delay 1, clock up to 4, skip-locked queries; about 660,000 states |
| `experiment` | the four handlers under stale and dying workers | 1 job of any kind, 2 workers, both may die, 3 attempts, lease 2, clock up to 2; about 690,000 states |
| `stale_commit` | *violation*: a stale worker commits an experiment outcome | 2 attempts, clock up to 3 |
| `calibration` | *violation*: a calibration job refuses its own result | 2 attempts, clock up to 2 |
| `liveness` | does every job end? does backfill reach every old experiment? | queue: 2 workers, one may die, 3 attempts, clock up to 9. Submission: 1 request, 2 starting processes, 2 old experiments, 3 jobs. About 109,000 states |
| `ledger` | the ledger under two racing requests | 1 decision, 2 requests, 2 contents, an analyst and a chief who may draft and approve, versions up to 5; about 1,100,000 states |
| `ledger_sod` | *violation*: the submitter approves | as `ledger` |
| `submission` | keys, jobs and answers under racing requests and starting processes | 2 requests, 2 starting processes, 1 key, 2 payloads, 2 experiments one of which is older than jobs, 3 jobs; about 588,000 states |
| `services` | what threads, requests and the client share, part by part | workers: lease 5, heartbeat 1, lag 1, two stages, clock up to 7. JWKS: 2 threads, 2 keys, time to live 1, slowest request 1, time up to 4. Rotation: 3 tenants. Artifacts: 3 writers. In-process runner: 3 experiments, 1 pool thread, queue of 1. Evidence: 3 requests, 3 builds. Monitoring: 4 days, 3 reports, 2 KPIs. Client: 1 seed, 2 drafts. Together about 2,400,000 states |
| `analytics` | what the program computes, part by part | engine: 2 products that share a machine and a material, 1 segment with orders of 2 units, 8 days (1 warm-up, 5 evaluation, 2 run-off, a weekend among them), 3 entries a tape may hold. Gate: 2 or 3 replications, portfolios of up to 3. Optimizer: 7 genomes, population 4, 2 generations, 5 evaluations. Adaptive: 6 periods |
| `breach_interval` | *violation*: a probability and its interval are of different counts | as `analytics` |
| `studio_retry` | *violation*: a retry is not watched | 2 seeds, 1 draft |

Why the bounds are enough. A race over a job needs the first worker, a
replacement, one expiry and one retry: two workers, two attempts and a clock
that passes one lease. Rows do not interact except by the claim order, so one
job shows every row behaviour (the theorems cover any number). With three
attempts in `liveness` a job is lost to a crash, retried, and ends. In
`experiment` three attempts let a stale execution and two later ones meet over
one row. Decisions do not interact at all. Five versions take a decision through
creation, revision, readiness, review, approval or back to draft; two requests
are enough for a lost update. What lies beyond version 5 (implementation to
supersession) is the same two actions over the same table of transitions. Keys do
not interact, so one key (and requests without one) shows every race over a key:
two creators, a creator and a replay, a request and a backfill, two backfills.
Ids of rolled-back rows are used again, as if the sequence never ran out.

In `services`, three tenants are the smallest number for which passing over a
tenant twice is possible; three writers of a digest are one that places the
file, one that finds it, and one that dies; one pool thread with a queue of one
makes the third submission find the runner full; a withdrawn key needs a refresh
that is older than another, and time for both to expire. The workers' clock
passes the lease of five. One seed and two drafts let the client run a candidate,
change it, and run again on a baseline that is cached.

The company of `analytics` is tight on purpose: within eight days orders ship in
parts and late, lose some of their orders while partly shipped, materials
arrive late, the facility runs out, rescue money is paid, debt is repaid, and
traces end in each of `done` and `breach`; each of these was confirmed to be
reachable. The gate's replications vary in the value, service and rescue of the
first one, with a threshold exactly met, and in their provenance; baselines in
their size and service. The optimizer's five evaluations may run out inside the
first generation or not, so searches end by budget and by convergence.

The bounds `MaxClock`, `MaxVersion`, `MaxJwksTime`, `MaxBuilds`, `MaxDays`,
`MaxReports`, `MaxPortfolio` and `MaxPeriods` are in the guards of the actions that
advance what they bound. `FreeJobs` bounds the job ids of requests, which leave
enough of them for the experiments to backfill. The runs of the queue, `services`
and `analytics` say `CHECK_DEADLOCK FALSE`: at the end of the clock, of the trace
or of the search, with every job ended, the model has nothing to do.

Each property of a passing run has a mutant in `PROJECT.json`: a *wrong
variant* in the module, named for its bug, that makes TLC violate the property
when it replaces the definition it varies.

### Properties

- Queue: `JobRowsSound` (no interleaving commits a row the CHECK constraint
  forbids, a queued row has an attempt left, a cancelled job is not queued
  again), `AttemptsAreFenced` (no two workers hold one attempt; a result is of
  the last attempt), `ReliableWorkerSurvives`, `PunctualWorkerKeepsJob`; the action
  properties `ProgressMonotone`, `LiveLeaseIsRespected`; the refinement
  `LifecycleSpec`; the liveness property `EveryJobEnds`. `TenantServedInTurn`
  bounds the polls that pass a tenant over while the active tenants stay the same.
- Handlers: `JobLeadsToItsResult`, `ExperimentOutcomeIsFinal`,
  `NoSecondSimulation`, `OptimizationIsIdempotent`.
- Submission: `OneJobPerExperiment`, `AnswersAgree`; the liveness property
  `EveryExperimentGetsAJob`.
- Ledger: `TrailMatchesSnapshot`, `ApprovalBindsContent`,
  `PacketTrailCoversSnapshot`, and the refinement `GovernedSpec`.
- Shared state: `WithdrawnKeyIsRefused`, `CommittedArtifactSurvives`,
  `SlotsAccounted`, `NoQueuedExperimentForgotten`, `SnapshotSettles`,
  `AlarmsAreHeard`, and of the client `RunsArrive`.
- Engine: `NeverRejected`, `OrdersReconcile`, `EveryCentIsSettledOnce`,
  `SupplyStaysInPolicy`, `LiquidityHeld`.
- Algorithms: `AdoptionIsEarned`, `BreachesAreFollowedUp`, `FrontierIsEfficient`,
  `SearchIsSound`, `ActivationsAreDue`, `OpposingRulesKeepApart`. Each compares what
  the code computes with a definition over its inputs alone: raw replications,
  all evaluated genomes, the stream of observations.

### What the runs found

- A worker whose lease was taken over still fails, resets or completes the
  experiment row, although docs/operations.md says the stale process cannot
  commit. Only the job row is fenced (`stale_commit`).
- A calibration job that is executed twice, after a recovery or by a stale
  worker, may be refused because of the row its own other execution stored, and
  fails as an invalid request; docs/jobs.md says handlers are idempotent against
  the source job (`calibration`). Optimizations are (`OptimizationIsIdempotent`).
- Separation of duties compares the approver with the owner of the decision, not
  with whoever submitted it, as docs/identity-and-access.md says (`ledger_sod`).
- The closing-cash breach probability counts rescued replications, its Wilson
  interval does not (`breach_interval`).
- A retry of an experiment whose baseline step failed is answered with the same
  job under its fixed key, so no dependency of the client's effect changes and the
  page stays in its running phase (`studio_retry`). The same can happen without a
  retry, when the page is left while a job is active and entered again while the
  cache still holds the old status; `RunsArrive` excludes both.

Observed while modelling; no run of its own speaks of these:

- `backfill_active_experiment_jobs` skips locked rows, and a replayed create locks
  the row of an old experiment from the flush of its link to its commit. If a
  process starts in between and the request is then lost, the experiment is left
  without a job although every process serves and nobody asks any more; it waits
  for another start or another replay. Without its last clause
  `EveryExperimentGetsAJob` is violated by exactly that behaviour: one process
  serves, another restarts and skips the row, the request's connection dies.
- A snapshot or packet of the ledger is read by two SELECTs without a common
  snapshot and may show one state with the trail of a later one. It never misses
  the event of the state it shows (`PacketTrailCoversSnapshot`).
- Two creates with one key and different input that overlap: the loser's INSERT
  raises an IntegrityError that the route does not catch, so the answer is not
  the 409 of docs/jobs.md. `submit()` does catch it.
- Racing builds overwrite a stored comparison, so a stored brief may cite a
  comparison that is no longer stored; docs/architecture.md calls the snapshots
  immutable. `SnapshotSettles` is what holds.
- A job cancelled while queued leaves its experiment queued, because no handler
  ever runs for it.
- `heartbeat_interval < lease_duration`, which the worker's constructor checks,
  is not enough for a punctual worker: with a lag of one clock unit, a heartbeat
  of 1 and a lease of 4 a healthy worker loses its job. `PunctualWorkerKeepsJob`
  holds when `HeartbeatEvery + 3 * Lag < Lease`.
- A writer that finds an artifact in place answers before the directory is
  synced by whoever placed it: after a power failure its row may name a file that
  is gone. `CommittedArtifactSurvives` speaks of the writer that placed the file.
- `NothingGoodIsLost`, a part of `SearchIsSound`, needs a population of twice the
  number of objectives; the configuration admits six objectives with four
  individuals.
- Validation keeps opposing adaptive rules apart by their thresholds; with
  windows of different length two of them can fire in one period.
  `OpposingRulesKeepApart` speaks of windows of one length.
- docs/model.md charges changed commercial investment "on operating days in
  warm-up and evaluation" and interest on the opening debt; the engine charges
  the first in the evaluation only (`CommitmentChanges`), although the demand
  lift also applies in the warm-up, and the second on the debt after the day's
  obligations (`DailyInterest`). The model follows the code.
- The diagram of docs/jobs.md has an edge from queued to failed that no
  operation takes; `JobLifecycle` has none.
- Nothing under `src` constructs `BoundedExperimentRunner` or calls
  `reconcile_alerts`; both are modelled as they are written.

### Fairness

`EveryJobEnds` assumes weak fairness of the clock and, for each worker, of
starting, of its loop, of its handler and of the recording of an outcome. The
code justifies it: threads of a pool that is not shut down keep polling, each
transaction ends, and the handlers' loops are bounded by validated budgets.
Nothing is assumed of clients, of heartbeats or of crashes; a crash is never
forced and never prevented. A worker in `Faulty` may be dead for good.

`EveryExperimentGetsAJob` assumes weak fairness of each statement of a backfill
and of the database's search for deadlocks: a supervisor starts a process again
and a start runs the backfill to its end. Nothing is assumed of requests;
instead the property is conditional. It speaks of behaviours in which, from
some moment on, no process dies and no request is open. Without the first, a
process may die during every backfill; without the second, a request may hold
the key for which a backfill waits. And it excepts an experiment that a process
which now serves skipped, when it started, because a request held the row
(`passed`): the request may have been rolled back since, and nothing in the code
looks again. TLC finds the property violated without any of the three.

In `liveness` each of the two is assumed only of the behaviours in which its part
runs.

## Proofs

### The queue

`JobQueueProofs` proves, for all values of the constants that satisfy the named
assumptions of `JobStore` and `JobQueue` (`0 < HeartbeatEvery < Lease`,
`MaxAttempts` in 1..10, any sets of jobs and workers, any stages):

| Theorem | States |
| --- | --- |
| `QueueInvariant` | `Spec => []IInv` |
| `TypeCorrect` | `[]TypeOK` |
| `RowsAreSound` | `[]JobRowsSound`, from its parts `LifecycleIsConsistent`, `QueuedJobsHaveBudget`, `CancelledJobsAreNotRetried` |
| `FencingHolds` | `[]AttemptsAreFenced`, from its parts `StaleWorkersAreFenced`, `AttemptsAreExclusive` |
| `ReliableWorkersSurvive` | `[]ReliableWorkerSurvives` |

The inductive invariant `IInv`. None of the properties is inductive alone. A
leased write is guarded by owner and expiry, never by the attempt, so to know
that the result is the last attempt's one must know that a worker still named as
owner holds the row's current attempt: `Claims`. That survives a claim by
another worker because the owner changes, and a claim by the same worker because
a worker claims only when it holds nothing. `Claims` also says that a handler
that stopped as cancelled either lost its lease or its row records the request,
which is what keeps `cancel` from raising. `Sound` says which flags may go with
which place of the worker loop, and `RowInv` collects what each row satisfies.
The proof has one lemma per row operation, one per action of `Next`, and a frame
lemma for actions that write one row and one worker.

About what the steps do, the same module proves, under the same assumptions:

| Theorem | States |
| --- | --- |
| `StepInvariant` | `Spec => []SInv` |
| `ProgressNeverFalls` | `Spec => ProgressMonotone` |
| `LiveLeasesAreRespected` | `Spec => LiveLeaseIsRespected` |
| `QueueImplementsLifecycle` | `Spec => LifecycleSpec` |
| `PunctualWorkersKeepTheirJob` | `PunctualDurations => (Spec => []PunctualWorkerKeepsJob)` |

`SInv` adds to `IInv` that no thread carries a time ahead of the clock: without
it a recovery with a `current` from the future could take a lease that has not
run out. One lemma per group of actions (`StepMoves`) says that a step changes
each row by at most one repository operation whose guard held, and on whose
behalf; the action properties and the refinement then follow row by row, without
a look at the threads again. For the refinement, a claim is preceded in the same
step by nothing, a recovery is an abstract requeue or failure, and what changes
only progress or leases is a stutter.

`PunctualDurations` is the hypothesis of the last theorem: time passes in the
`timely` mode and `HeartbeatEvery + 3 * Lag < Lease`. It holds in the configuration
that `services` runs, and it is the bound the run found to be necessary. The
invariant `TInv` says how far the lease of a row reaches beyond the next heartbeat
(`2 * Lag`, while the handler runs) and beyond the thread's `now` (`Lag`, while
it records the outcome); since recovery compares with times that are not ahead of
the clock, nobody else can write the row.

### The handlers

`JobHandlersProofs` proves, under the same assumptions and `Len(Stages) = 3`:

| Theorem | States |
| --- | --- |
| `HandlersInvariant` | `HandlersSpec => []HInv` |
| `SucceededJobsLeadToResults` | `[]JobLeadsToItsResult` |
| `FinalExperimentsStay` | `ExperimentOutcomeIsFinal` |
| `CompletedExperimentsAreReused` | `NoSecondSimulation` |
| `StoredOptimizationsAreAdopted` | `OptimizationIsIdempotent` |

The handlers never look at a lease, so an argument by fencing is not available.
`HInv` instead says what a handler that ended as *done* leaves behind (its
experiment is completed and has a digest; its task holds the one stored row, or
the comparison of its own attempt), and that this cannot be taken back: the
tables only grow, because a flush that would change a final experiment meets the
CHECK constraint and an insert meets the unique key. Since settling reads the
row's attempt under the lease, `IInv` connects the result of the handler with
the job that is marked as succeeded.

### Submission

`SubmissionProofs` proves, for any sets of requests, starting processes, keys and
payloads (`SubmissionAssumption`: ids are numbers, the sets do not overlap):

| Theorem | States |
| --- | --- |
| `SubmissionInvariant` | `SubmissionSpec => []SubInv` |
| `ExperimentsHaveOneJob` | `[]OneJobPerExperiment` |
| `AnswersAgreeAlways` | `[]AnswersAgree` |

`SubInv` says of every row who may be writing it and what that transaction holds,
and of every open transaction which rows stand behind what its SELECTs showed. A
committed experiment is written by a backfill that has locked it or by a request
between its flush and its commit, which has drafted the job it holds. The crucial
part is `OneWriter`: two open transactions never insert jobs for one experiment. A
second one would need the same key, for which the database makes it wait, or reach
an experiment without a key, which only the request that inserts it or the backfill
that has locked it can. A rollback removes what only its transaction could see.

### The ledger

`DecisionLedgerProofs` proves, for any sets of decisions, subjects, contents and
requests, any roles, and with separation of duties on or off:

| Theorem | States |
| --- | --- |
| `LedgerInvariant` | `LedgerSpec => []LedgerInv` |
| `LedgerTypeCorrect` | `[]LedgerTypeOK` |
| `TrailNeverDiverges` | `[]TrailMatchesSnapshot` |
| `ApprovedContentIsFrozen` | `[]ApprovalBindsContent` |
| `PacketsExplainThemselves` | `[]PacketTrailCoversSnapshot` |
| `LedgerImplementsGovernance` | `LedgerSpec => GovernedSpec` |

The service checks a row it read earlier, so the checks say nothing by
themselves of the row the UPDATE finds. `LedgerInv` adds to the agreement of row
and trail what each request in flight knows: the version it expects was the
row's, and *if it still is* then everything that was checked (the state, the
transition, the approval of this content by somebody else than the owner) holds
of the row as it is now. That is kept by the writes of others because every
write makes a greater version and trails only grow. An approval is given on the
way out of review only, no state after approval leads back to an editable one,
and only editable states change the content: so the signed content stays. For
the refinement, a successful UPDATE is one abstract move, and every other step
a stutter.

### Services

`ServicesProofs` proves, for any number of threads, requests, writers, keys,
tenants and experiments:

| Theorem | States | Inductive invariant |
| --- | --- | --- |
| `CommittedArtifactsSurvive` | `[]CommittedArtifactSurvives` | a file has its name only after its bytes were synced; a writer that answers after placing the file has the directory on disk |
| `WithdrawnKeysAreRefused` | `[]WithdrawnKeyIsRefused` | a withdrawn key in a thread's document or in the cache bounds the sample of that thread and the expiry of the cache by the time of its withdrawal |
| `SnapshotsSettle` | `SnapshotSettles` | who is about to build or store a comparison read the row before there was one |
| `RunnerInvariant`, `SlotsAreAccounted`, `QueuedExperimentsAreFound` | `[]RunnerInv`, `[]SlotsAccounted`, `[]NoQueuedExperimentForgotten` | exactly one thread or future is in charge of a scheduled id; slots and ids in charge are as many as the capacity; while a row is queued, something is scheduled or some thread will look |
| `RunsAlwaysArrive` | `[]RunsArrive` | a run that waits shows a job of its own whose end its effect has not handled yet; an asynchronous function in progress works for the run that is shown |
| `AlarmsAlwaysHeard` | `[]AlarmsAreHeard` | no active alert is later than today, alerts of one key are more than the cooldown apart, and each alert of a report has one of its key within the cooldown before it |
| `TenantsAreServedInTurn` | `[]TenantServedInTurn` | a tenant with an eligible job, passed over `n` times, is at most (tenants - `n`) places ahead of the offset |

The slots of the runner are counted with the library's theorems on finite sets,
so its sets of clients, threads and experiments are finite (`RunnerAssumption`);
so is the set of tenants (`TenantsAssumption`), whose rotation is an argument about
ranks modulo the number of tenants.

### The engine

`DailyEngineProofs` proves, for every company, scenario and policy the models
accept, any numbers of days and any tape (`EngineAssumption`: the sets of products,
segments, materials and resources are finite, their data pass the validators of
`domain/company.py` and `domain/scenario.py`, the tape's entries are within the
bounds of the shock models):

| Theorem | States |
| --- | --- |
| `EngineInvariant` | `EngineSpec => []EngineInv` |
| `EngineNeverRejects` | `[]NeverRejected` |
| `EngineReconcilesOrders` | `[]OrdersReconcile` |
| `EngineSettlesEveryCent` | `[]EveryCentIsSettledOnce` |
| `EngineKeepsSupplyInPolicy` | `[]SupplyStaysInPolicy` |
| `EngineHoldsLiquidity` | `[]LiquidityHeld` |
| `FinancingHoldsLiquidity` | what `ApplyFinancing` returns |

The engine's own validation compares a period only when the day is over, so the
invariant has to say at each phase what the phases before it wrote and what those
after it have not touched. `EngineInv` is the conjunction of:

- `FlowsInv`: the identities of `PeriodReconciles` hold at every moment of the day,
  between what the period records so far and the inventories, the backlog and the
  work in progress as they are; cash and debt balance from the settlement to the
  close.
- `BlankInv`: what a phase still to come will record is zero. Without it a phase
  that assigns (instead of adding) could overwrite a flow.
- `OrdersInv`: units, shipped, fulfilled and cancelled orders of a group agree, on
  time and late alike; groups differ in product, segment or day, so that a set of
  them loses none; orders created are those resolved plus those open.
- `SuppliesInv`, `WorkInv`: supplier orders differ in material or day, work orders of
  one product were started on different operating days. The model keeps both in
  sets, so two equal ones would be one: that they never are needs
  `NextOperatingDay` to be strictly increasing over operating days.
- `EveryCentIsSettledOnce`, `LiquidityHeld`, and `TypeInv`, which says that nothing
  goes negative, that schedules are finite and that no step is `invalid`.

One lemma per action shows that it keeps them. They rest on lemmas of their own:
rationing serves exactly the least of what there is and what is wanted
(`RationsAddUp`, `FeasibleFits`, `AllocationFits`); the fold of `ProductionPlan` over the
products exists, and keeps the use of each resource and material within what is
available while it grows (`PlanRecursion`, `ProductionPlanBalances`); schedules gain
and lose exactly what is scheduled and popped (`ScheduledBalances`, `PoppedBalances`);
a shipment or cancellation changes the sums of units and counts over the orders by
what it ships or cancels (`ChangedUnits`, `ChangedOpenOrders`). `NeverRejected` is then
a consequence, and no restatement: `invalid` is reached through `PlanReconciles`,
`PeriodReconciles` and `TraceReconciles`, which recompute what the code's validation does.

*Financing.* For every policy the company model accepts, every balance and every
debt within the facility, `ApplyFinancing` returns cash at the floor or above and
a debt within the facility, satisfies the cash and debt identities the engine's
validation recomputes, pays rescue money only once the facility is used up,
repays nothing on a day that draws, and, when it may repay, leaves cash above the
target only without debt.

### Analytics

`AnalyticsProofs` proves:

| Theorem | States |
| --- | --- |
| `AdoptionsAlwaysEarned`, `BreachesAlwaysFollowedUp`, `FrontiersAlwaysEfficient` | `[]AdoptionIsEarned`, `[]BreachesAreFollowedUp`, `[]FrontierIsEfficient`, for any number of replications with any integer values (`GateAssumption`) |
| `ActivationsAlwaysDue`, `OpposingRulesAlwaysApart` | `[]ActivationsAreDue`, `[]OpposingRulesKeepApart`, for any rules the validation admits and any stream (`AdaptiveAssumption`) |
| `SearchInvariant` | `OptimizerSpec => []SearchInv` |
| `SearchAnswersWithinBudget` | `[](OverrunIsBounded /\ AnswersAreSound)`, for any evaluations, draws, population and budget (`OptimizerAssumption`) |
| `SearchAlwaysSound` | `RoomForExtremes => []SearchIsSound` |

*The gate.* Every summary of the portfolio is the one of a candidate and the
baseline. What it claims is traced to the replications through sums and counts:
a gain is the difference of two totals, a breach of the distribution is one of
some replication, and a strict majority of improvements cannot be one in both
directions. That the frontier is complete is an induction over the finite set of
candidates: above each dominated one there is an undominated one.

*Adaptive policies.* `AdaptiveInv` relates the controller's counters to the stream
and the trail: `consecutive` counts the last periods in which the condition held,
`last_fired` is the last period in the trail, and the activations recorded in a
period are an enumeration of the rules that fire (by rank in their order of
priority), so none is missed or recorded twice. Two opposing rules that fire in
one period judge the same window sum, so their regions meet at it.

*The search.* `SearchInv` says that ranks are those of the population as it is, that
a generation starts within the budget or with the initial population, that once
a feasible policy was evaluated the population or the offspring have one
(`FeasibleKept`) and, where there is room, that they have one as good as the best
for every objective (`ExtremesKept`). It is kept because

- ranks count along domination, a strict order on finitely many genomes, so their
  recursion has a solution (`RankFollowsDominators`), and rank zero is being
  undominated;
- the key of the selection is a total order, so `Sorted` enumerates it and what is
  selected is a prefix (`SurvivorsArePrefix`). A dominator has a lower rank and so
  stands before those it dominates: ranks do not change when the rest is dropped
  (`SelectionKeepsRanks`), and a feasible policy survives whatever the room
  (`SelectionKeepsFeasible`);
- a front has at most two ends per objective and they come first in it
  (`EndsSurvive`), which is why twice the number of objectives is room enough.

`RoomForExtremes` is that bound on the population size. The run's configuration has
it; the program does not ask for it, and only `NothingGoodIsLost` depends on it: the
budget and the answer are sound without.

### Lemmas about data

`FiniteSetLemmas` holds what these proofs need of sets. An induction theorem
whose hypothesis is an operator cannot be instantiated by the provers;
`FiniteInduction` has a *set* as its hypothesis, the set of good subsets, which
can. A sum of the community modules is a CHOSEN function that follows a
recursion; `SumRecursion` shows that the function exists and is unique on finite
sets, and the other lemmas on sums (type, removal of an element, addition,
comparison, splitting, reindexing) follow by induction; products likewise. `RankExists` and
`SortedExists` say that a finite total order has an element of every rank, and
an enumeration in order.

### What is assumed

The assumptions are the named ones of the modules, as weak as the validation of
the code: `Nobody` is no subject and `Blank` no content; ids that are compared
are numbers; sets that are counted are finite. The bounds of the model
(`MaxVersion`, `MaxClock`, `MaxPeriods`, ...) are any numbers and limit no theorem.

### Only model-checked

- The liveness properties `EveryJobEnds` and `EveryExperimentGetsAJob`: liveness
  under fairness and ENABLED are beyond the prover.
- The runs that expect a violation, which are single behaviours.

## Not modelled

- Submission over SQLite, where a transaction locks the whole database and
  FOR UPDATE is ignored: fewer interleavings than the row locks that are modelled.
- The orderly shutdown of the worker pool, which stops polling between jobs, and
  `job_queue_snapshot`, which only reads.
- The formula of demand, retention and prices, the draws of the tape, the
  accounting cost of goods and scrap, the digests of a trace: they are the
  inputs of `DailyEngine`, or nothing of it reads them.
- Floating-point statistics and pseudo-random streams (demand, shocks, quantiles
  and CVaR, calibration, credibility, backtesting): outside TLC's arithmetic.
  Where a modelled decision reads one, it is a table or a choice.
- The scenario that an adaptive policy's activations lead to (`_merge_levers`), the
  decoding of genomes into levers.
- Token signatures and claims: the JWT library's. API keys: stateless comparisons.
- Plugins, settings, CLI, reporting text, schema migrations, middleware: no state
  that persists or is shared.
- The client's other pages, which show the last answer of the API.

## Plan

The components that keep state are modelled, and every invariant and action
property of the runs is proved. What could be added to the proofs: that the
four handlers implement an abstract store with one result per job, and that the
stepwise submission implements one atomic `get or create` per key. What could be
added to the model: the derivation of an adapted scenario from its activations, and
the orderly shutdown of the worker pool.
