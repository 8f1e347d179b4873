------------------------------ MODULE JobQueue ------------------------------
(***************************************************************************)
(* The durable job queue of one tenant: the rows of the jobs table, the    *)
(* worker loops that claim and execute them (DurableJobWorker.run_once,    *)
(* _execute_claimed and its heartbeat thread), and the API's submission    *)
(* and cancellation.                                                       *)
(*                                                                         *)
(* Every SQL transaction of the code is one action; everything a worker    *)
(* carries from one transaction to the next (the `current` it sampled, the *)
(* claimed job, the lease_lost flag, the outcome of the handler) is kept   *)
(* in worker[w], so any other process may act in between.  The handler is  *)
(* left open here: it passes its checkpoints and then ends in any of the   *)
(* ways _execute_claimed distinguishes.  ExperimentJobs puts a handler in. *)
(*                                                                         *)
(* Time is an integer clock.  An operation that evaluates operation_clock()*)
(* and then runs its transaction sees a `now` at most Lag behind the clock *)
(* at which the transaction commits; run_once samples `current` once, and  *)
(* nothing bounds how old it is when recovery and claim use it.            *)
(***************************************************************************)
EXTENDS JobStore, Sequences

CONSTANTS
  Jobs,            \* job ids; <= on them is the tie-break of the claim order
  Stages,          \* the progress values of the handler's checkpoints
  HeartbeatEvery,  \* heartbeat_interval
  Lag,             \* how far an operation's `now` may be behind its commit
  Faulty,          \* the workers whose process may die and whose heartbeat
                   \* may meet a database error
  SkipLocked,      \* PostgreSQL: rows locked by another transaction are
                   \* skipped; FALSE is the single-statement claim
  ClockMode,       \* "free", "timely" or "lazy": see Tick
  MaxClock         \* bound of the model on the clock

ASSUME JobsAssumption == Jobs \subseteq Nat \ {0}
ASSUME StagesAssumption == Stages \in Seq(0..99)
ASSUME HeartbeatAssumption ==           \* validated by the constructor
  HeartbeatEvery \in Nat /\ 0 < HeartbeatEvery /\ HeartbeatEvery < Lease
ASSUME LagAssumption == Lag \in Nat
ASSUME FaultyAssumption == Faulty \subseteq Workers
ASSUME ModeAssumption ==
  /\ SkipLocked \in BOOLEAN
  /\ ClockMode \in {"free", "timely", "lazy"}
ASSUME ClockAssumption == MaxClock \in Nat

VARIABLES
  jobs,     \* the jobs table: job id -> row
  worker,   \* worker id -> what its thread holds between transactions
  clock     \* the real time

vars == <<jobs, worker, clock>>

NoJob == 0
Outcomes == {"none", "done", "cancelled", "retryable", "fatal"}

\* stopped     not started yet
\* idle        between two calls of run_once
\* recovering  run_once has sampled `current` and seen active work
\* claiming    recovery committed, claim_next not yet
\* executing   inside the handler, between checkpoints
\* reporting   inside checkpoint(): the cancellation probe was negative
\* ended       the handler has returned or raised, heartbeat not joined yet
\* settling    heartbeat joined, lease_lost was not set
\* committing  _succeed has read the row and saw no cancellation request
\* dead        the thread or its process is gone for good
Places == {"stopped", "idle", "recovering", "claiming", "executing",
           "reporting", "ended", "settling", "committing", "dead"}
WorkerState ==
  [pc : Places,
   now : Nat,                   \* the `current` / `now` it carries
   job : Jobs \cup {NoJob},
   attempt : 0..MaxAttempts,    \* job.attempt_count of the claimed snapshot
   stage : 0..Len(Stages),      \* checkpoints passed
   beating : BOOLEAN,           \* the heartbeat thread is alive
   due : Nat,                   \* when its wait(heartbeat_interval) ends
   lost : BOOLEAN,              \* lease_lost
   outcome : Outcomes]

Resting(pc) ==
  [pc |-> pc, now |-> 0, job |-> NoJob, attempt |-> 0, stage |-> 0,
   beating |-> FALSE, due |-> 0, lost |-> FALSE, outcome |-> "none"]

Beating(w) == worker[w].beating /\ clock >= worker[w].due
Holding(w) ==
  worker[w].pc \in {"executing", "reporting", "ended", "settling", "committing"}
RowOf(w) == jobs[worker[w].job]
OperationTimes == {t \in 0..clock : t + Lag >= clock}

Init ==
  /\ jobs = [j \in Jobs |-> Absent]
  /\ worker = [w \in Workers |-> Resting("stopped")]
  /\ clock = 0
-----------------------------------------------------------------------------
(* The API *)

\* submit / submit_in_session, for a request without idempotency key.
Submit(j) ==
  /\ jobs[j].status = "absent"
  /\ jobs' = [jobs EXCEPT ![j] = NewRecord(clock)]
  /\ UNCHANGED <<worker, clock>>

RequestCancellation(j) ==
  /\ jobs[j].status # "absent"
  /\ jobs' = [jobs EXCEPT ![j] = RequestCancellationRow(@)]
  /\ UNCHANGED <<worker, clock>>
-----------------------------------------------------------------------------
(* run_once *)

Start(w) ==
  /\ worker[w].pc = "stopped"
  /\ worker' = [worker EXCEPT ![w] = Resting("idle")]
  /\ UNCHANGED <<jobs, clock>>

\* Samples `current`, then _active_tenants: no queued or running job of the
\* tenant means nothing to recover or claim.
Poll(w) ==
  /\ worker[w].pc = "idle"
  /\ \E j \in Jobs : jobs[j].status \in {"queued", "running"}
  /\ worker' = [worker EXCEPT ![w].pc = "recovering", ![w].now = clock]
  /\ UNCHANGED <<jobs, clock>>

\* The rows another transaction has locked, as seen by a skip-locked query.
LockedAmong(rows) == IF SkipLocked THEN SUBSET rows ELSE {{}}

RecoverExpiredLeases(w) ==
  /\ worker[w].pc = "recovering"
  /\ LET now == worker[w].now
         expired == {j \in Jobs : Expired(jobs[j], now)}
     IN \E locked \in LockedAmong(expired) :
          jobs' = [j \in Jobs |-> IF j \in expired \ locked
                                  THEN RecoverRow(jobs[j], now)
                                  ELSE jobs[j]]
  /\ worker' = [worker EXCEPT ![w].pc = "claiming"]
  /\ UNCHANGED clock

\* ORDER BY created_at, job_id
Before(i, j) ==
  \/ jobs[i].created_at < jobs[j].created_at
  \/ jobs[i].created_at = jobs[j].created_at /\ i < j

Candidate(j, now) ==
  /\ Eligible(jobs[j], now)
  /\ \/ SkipLocked
     \/ \A i \in Jobs : Eligible(jobs[i], now) => ~Before(i, j)

\* claim_next commits and _execute_claimed starts the heartbeat thread.
ClaimNext(w) ==
  /\ worker[w].pc = "claiming"
  /\ \E j \in Jobs :
       /\ Candidate(j, worker[w].now)
       /\ jobs' = [jobs EXCEPT ![j] = ClaimRecord(@, w, worker[w].now)]
       /\ worker' = [worker EXCEPT
            ![w] = [Resting("executing") EXCEPT
                      !.job = j, !.attempt = jobs[j].attempt_count + 1,
                      !.beating = TRUE, !.due = clock + HeartbeatEvery]]
  /\ UNCHANGED clock

ClaimNothing(w) ==
  /\ worker[w].pc = "claiming"
  /\ SkipLocked \/ \A j \in Jobs : ~Eligible(jobs[j], worker[w].now)
  /\ worker' = [worker EXCEPT ![w] = Resting("idle")]
  /\ UNCHANGED <<jobs, clock>>
-----------------------------------------------------------------------------
(* The heartbeat thread *)

Heartbeat(w) ==
  /\ Beating(w)
  /\ \E now \in OperationTimes :
       IF OwnsValidLease(RowOf(w), w, now)
       THEN /\ jobs' = [jobs EXCEPT ![worker[w].job] = HeartbeatRow(@, now)]
            /\ worker' = [worker EXCEPT ![w].due = clock + HeartbeatEvery]
       ELSE /\ worker' = [worker EXCEPT ![w].lost = TRUE, ![w].beating = FALSE]
            /\ UNCHANGED jobs
  /\ UNCHANGED clock

\* Any other exception of the heartbeat: the thread gives up for good.
HeartbeatError(w) ==
  /\ w \in Faulty
  /\ Beating(w)
  /\ worker' = [worker EXCEPT ![w].lost = TRUE, ![w].beating = FALSE]
  /\ UNCHANGED <<jobs, clock>>
-----------------------------------------------------------------------------
(* The handler: checkpoints and how it ends *)

EndHandler(w, outcome) ==
  worker' = [worker EXCEPT ![w].pc = "ended", ![w].outcome = outcome]

\* checkpoint(), first transaction: the cancellation probe.
Probe(w) ==
  /\ worker[w].pc = "executing"
  /\ worker[w].stage < Len(Stages)
  /\ IF RowOf(w).cancellation_requested \/ worker[w].lost
     THEN EndHandler(w, "cancelled")
     ELSE worker' = [worker EXCEPT ![w].pc = "reporting"]
  /\ UNCHANGED <<jobs, clock>>

\* checkpoint(), second transaction: report_progress.  A refused write
\* (JobLeaseError, or progress moving backwards) is an ordinary exception
\* to the handler, which turns it into a retryable failure.
ReportProgress(w) ==
  LET progress == Stages[worker[w].stage + 1]
  IN /\ worker[w].pc = "reporting"
     /\ \E now \in OperationTimes :
          IF OwnsValidLease(RowOf(w), w, now) /\ RowOf(w).progress <= progress
          THEN /\ jobs' = [jobs EXCEPT ![worker[w].job] = ReportRow(@, progress, now)]
               /\ IF RowOf(w).cancellation_requested
                  THEN EndHandler(w, "cancelled")
                  ELSE worker' = [worker EXCEPT ![w].pc = "executing",
                                                ![w].stage = @ + 1]
          ELSE EndHandler(w, "retryable") /\ UNCHANGED jobs
     /\ UNCHANGED clock

\* The handler raises, between any two checkpoints.
HandlerRaises(w) ==
  /\ worker[w].pc = "executing"
  /\ \E outcome \in {"retryable", "fatal"} : EndHandler(w, outcome)
  /\ UNCHANGED <<jobs, clock>>

HandlerReturns(w) ==
  /\ worker[w].pc = "executing"
  /\ worker[w].stage = Len(Stages)
  /\ EndHandler(w, "done")
  /\ UNCHANGED <<jobs, clock>>
-----------------------------------------------------------------------------
(* Recording the outcome; JobLeaseError is logged and discarded *)

\* Wrong variant for a mutation run: lease_lost is not looked at.
SettleAnyway(w) ==
  /\ worker[w].pc = "ended"
  /\ \E now \in OperationTimes :
       worker' = [worker EXCEPT ![w].pc = "settling", ![w].now = now,
                                ![w].beating = FALSE]
  /\ UNCHANGED <<jobs, clock>>

\* _stop_heartbeat joins the thread; only then is lease_lost looked at.  A
\* worker that lost its lease returns without another write, any other one
\* evaluates operation_clock() and goes on to record the outcome.
Settle(w) ==
  /\ worker[w].pc = "ended"
  /\ \E now \in OperationTimes :
       worker' = [worker EXCEPT ![w] =
         IF @.lost
         THEN Resting("idle")
         ELSE [@ EXCEPT !.pc = "settling", !.now = now, !.beating = FALSE]]
  /\ UNCHANGED <<jobs, clock>>

WriteAndRest(w, row) ==
  /\ jobs' = [jobs EXCEPT ![worker[w].job] =
                IF OwnsValidLease(@, w, worker[w].now) THEN row ELSE @]
  /\ worker' = [worker EXCEPT ![w] = Resting("idle")]
  /\ UNCHANGED clock

\* cancel() on a row nobody asked to cancel raises InvalidJobTransitionError,
\* which neither _cancel nor run_forever catches: the thread ends.
SettleCancelled(w) ==
  /\ worker[w].pc = "settling" /\ worker[w].outcome = "cancelled"
  /\ IF /\ OwnsValidLease(RowOf(w), w, worker[w].now)
        /\ ~RowOf(w).cancellation_requested
     THEN /\ worker' = [worker EXCEPT ![w] = Resting("dead")]
          /\ UNCHANGED <<jobs, clock>>
     ELSE WriteAndRest(w, CancelledRow(RowOf(w)))

SettleFailed(w) ==
  /\ worker[w].pc = "settling" /\ worker[w].outcome \in {"retryable", "fatal"}
  /\ WriteAndRest(w, FailRow(RowOf(w), worker[w].outcome = "retryable", worker[w].now))

\* _succeed: one transaction reads the row, the next one writes it.
ReadBeforeSuccess(w) ==
  /\ worker[w].pc = "settling" /\ worker[w].outcome = "done"
  /\ worker' = [worker EXCEPT
       ![w] = IF RowOf(w).cancellation_requested
              THEN [@ EXCEPT !.outcome = "cancelled"]
              ELSE [@ EXCEPT !.pc = "committing"]]
  /\ UNCHANGED <<jobs, clock>>

Succeed(w) ==
  /\ worker[w].pc = "committing"
  /\ WriteAndRest(w, SucceedRow(RowOf(w), worker[w].attempt))
-----------------------------------------------------------------------------
(* Failures and time *)

\* The process is killed, or the pool's shutdown timeout leaves the daemon
\* thread behind.  Its rows stay; a replacement runs under a new identity
\* (build_worker_id), that is, as another element of Workers.
Crash(w) ==
  /\ w \in Faulty
  /\ worker[w].pc \notin {"stopped", "dead"}
  /\ worker' = [worker EXCEPT ![w] = Resting("dead")]
  /\ UNCHANGED <<jobs, clock>>

\* "timely": no thread is paused for more than Lag between a sample of the
\* time and the transaction that uses it, or past the end of its wait.
Punctual(w) ==
  /\ worker[w].pc \in {"recovering", "claiming", "settling", "committing"} =>
       clock < worker[w].now + Lag
  /\ worker[w].beating => clock < worker[w].due + Lag

\* "lazy": time passes only while somebody needs it to, so that a bounded
\* clock suffices for every job to end.
Awaited(j) ==
  \/ /\ jobs[j].status = "running" /\ ~Expired(jobs[j], clock)
     /\ \A w \in Workers : ~(Holding(w) /\ worker[w].job = j /\ jobs[j].lease_owner = w)
  \/ jobs[j].status = "queued" /\ jobs[j].next_attempt_at > clock

Tick ==
  /\ clock < MaxClock
  /\ ClockMode = "timely" => \A w \in Workers : Punctual(w)
  /\ ClockMode = "lazy" => \E j \in Jobs : Awaited(j)
  /\ clock' = clock + 1
  /\ UNCHANGED <<jobs, worker>>
-----------------------------------------------------------------------------
Client == \E j \in Jobs : Submit(j) \/ RequestCancellation(j)

RunOnce(w) ==
  \/ Poll(w) \/ RecoverExpiredLeases(w) \/ ClaimNext(w) \/ ClaimNothing(w)

Handler(w) ==
  \/ Probe(w) \/ ReportProgress(w) \/ HandlerRaises(w) \/ HandlerReturns(w)

Outcome(w) ==
  \/ Settle(w) \/ SettleCancelled(w) \/ SettleFailed(w) \/ ReadBeforeSuccess(w) \/ Succeed(w)

Next ==
  \/ Client
  \/ \E w \in Workers :
       \/ Start(w) \/ RunOnce(w)
       \/ Heartbeat(w) \/ HeartbeatError(w)
       \/ Handler(w) \/ Outcome(w)
       \/ Crash(w)
  \/ Tick

Spec == Init /\ [][Next]_vars

(* A worker thread that is not killed keeps running: its loop polls again, *)
(* every transaction it began ends, and a handler, whose loops are all     *)
(* bounded by validated budgets, ends too.  Nothing is assumed of clients, *)
(* of heartbeats or of crashes.                                            *)
Fairness ==
  /\ WF_vars(Tick)
  /\ \A w \in Workers :
       /\ WF_vars(Start(w))
       /\ WF_vars(RunOnce(w))
       /\ WF_vars(Handler(w))
       /\ WF_vars(Outcome(w))

FairSpec == Spec /\ Fairness
-----------------------------------------------------------------------------
(* What the queue guarantees *)

\* The variables have their types; attempt_count within its budget is the
\* CHECK constraint `attempts`, which claim_next itself does not test.
TypeOK ==
  /\ jobs \in [Jobs -> JobRow]
  /\ worker \in [Workers -> WorkerState]
  /\ clock \in Nat

\* No interleaving of claims, retries, recoveries and cancellations commits a
\* row the CHECK constraint lifecycle_consistency forbids.
LifecycleConsistency == \A j \in Jobs : RowConsistent(jobs[j])

\* claim_next increments attempt_count without looking at max_attempts: that
\* is safe only because no path puts an exhausted job back into the queue.
QueuedHasBudget ==
  \A j \in Jobs : jobs[j].status = "queued" => jobs[j].attempt_count < MaxAttempts

\* After request_cancellation the job is never queued again and never failed,
\* whatever retry, lease expiry or recovery was under way.
CancellationNeverRetried ==
  \A j \in Jobs : jobs[j].cancellation_requested =>
    jobs[j].status \in {"running", "succeeded", "cancelled"}

\* What no operation tests on its own and every row keeps, whoever interleaves:
\* the CHECK constraint, an attempt left to every queued job, and no retry
\* after a cancellation request.
JobRowsSound == LifecycleConsistency /\ QueuedHasBudget /\ CancellationNeverRetried

\* A worker that was replaced cannot publish: the result of a succeeded job
\* is the one of its last attempt.
ResultOfLastAttempt ==
  \A j \in Jobs : jobs[j].status = "succeeded" =>
    jobs[j].result = jobs[j].attempt_count

\* Two threads may execute one job at a time (the first one lost its lease
\* and has not noticed), never for the same attempt.
OneWorkerPerAttempt ==
  \A v, w \in Workers :
    (v # w /\ Holding(v) /\ Holding(w) /\ worker[v].job = worker[w].job)
      => worker[v].attempt # worker[w].attempt

\* The fencing of attempts: while any number of replaced workers run on,
\* no two threads share an attempt and only the last attempt publishes.
AttemptsAreFenced == OneWorkerPerAttempt /\ ResultOfLastAttempt

\* No reliable worker thread ends because cancel() met a row that nobody had
\* asked to cancel: a handler stopped by lease loss never reaches cancel().
ReliableWorkerSurvives ==
  \A w \in Workers \ Faulty : worker[w].pc # "dead"

\* A thread whose heartbeat is on time and whose pauses stay below Lag keeps
\* the job it claimed until it has recorded the outcome (checked in the
\* timely clock mode, with HeartbeatEvery + 3 * Lag < Lease).
PunctualWorkerKeepsJob ==
  \A w \in Workers : Holding(w) /\ ~worker[w].lost =>
    /\ RowOf(w).status = "running"
    /\ RowOf(w).lease_owner = w
    /\ RowOf(w).attempt_count = worker[w].attempt

\* Within one attempt the reported progress never moves backwards.
ProgressMonotone ==
  [][\A j \in Jobs :
       (jobs[j].status = "running" /\ jobs'[j].attempt_count = jobs[j].attempt_count
        /\ jobs'[j].status # "queued") => jobs'[j].progress >= jobs[j].progress]_vars

\* A lease that has not expired in real time is given up by its owner only,
\* for the attempt it claimed: recovery never takes a live lease away, even
\* though it compares with a `current` sampled earlier by another process.
LiveLeaseIsRespected ==
  [][\A j \in Jobs, w \in Workers :
       (/\ jobs[j].lease_owner = w /\ jobs'[j].lease_owner # w
        /\ jobs[j].lease_expires_at > clock) =>
       /\ Holding(w) /\ worker[w].job = j
       /\ worker[w].attempt = jobs[j].attempt_count
       /\ ~Holding(w)']_vars

\* The queue implements the documented lifecycle.
Lifecycle == INSTANCE JobLifecycle WITH
  life <- [j \in Jobs |-> [status |-> jobs[j].status,
                           attempts |-> jobs[j].attempt_count,
                           cancel |-> jobs[j].cancellation_requested]]
LifecycleSpec == Lifecycle!LifeSpec

\* Every accepted job ends, though workers die, lose leases and retry, as
\* long as one worker is neither killed nor stuck.
EveryJobEnds ==
  \A j \in Jobs : (jobs[j].status = "queued") ~> (jobs[j].status \in Terminal)
=============================================================================
