--------------------------- MODULE ExperimentJobs ---------------------------
(***************************************************************************)
(* The durable queue with the experiment handler in it: JobQueue composed  *)
(* with the experiments table and _AnalyticalJobHandlers.experiment.  A    *)
(* job and its experiment are created in one transaction and are linked by *)
(* source_job_id, so one id names both rows here.                          *)
(*                                                                         *)
(* The handler's own transactions (load, complete, and the ones of its     *)
(* except clauses) read the experiment row without a lock and write it     *)
(* later in the same READ COMMITTED transaction: a read step and a write   *)
(* step.  The flush writes only the columns that changed, on whatever row  *)
(* is there by then; the table's CHECK constraint is the only thing that   *)
(* may refuse it (IntegrityError).  No step of the handler looks at the    *)
(* job's lease.                                                            *)
(*                                                                         *)
(* Every execution produces its own artifact (the result carries its       *)
(* creation time and duration), so a digest is the number of the attempt   *)
(* that computed it.                                                       *)
(***************************************************************************)
EXTENDS JobQueue

ASSUME ExperimentStages == Len(Stages) = 3      \* loading, simulating, persisting

VARIABLES
  experiments,   \* the experiments table
  handler,       \* worker -> where its handler is, and what it read
  published      \* job -> the digest in the job row's result_digest

experimentVars == <<experiments, handler, published>>
allVars == <<vars, experimentVars>>

ExperimentRow ==
  [status : {"absent", "queued", "running", "completed", "failed"},
   started : BOOLEAN,
   digest : 0..MaxAttempts,
   error : {"none", "experiment_cancelled", "invalid_experiment_job",
            "experiment_execution_failed"}]

NoExperiment == [status |-> "absent", started |-> FALSE, digest |-> 0, error |-> "none"]

\* new        before the load transaction
\* loading    load has read the row, completing: complete has
\* loaded     the experiment is claimed; simulating and storing the artifact
\* cleaning   an except clause has read the row
\* over       nothing left to write
HandlerState ==
  [at : {"new", "loading", "loaded", "completing", "cleaning", "over"},
   seen : {"absent", "queued", "running", "completed", "failed"},
   digest : 0..MaxAttempts]

Fresh == [at |-> "new", seen |-> "absent", digest |-> 0]

ExperimentOf(w) == experiments[worker[w].job]
InTransaction(w) == handler[w].at \in {"loading", "completing", "cleaning"}

\* The CHECK constraint lifecycle_consistency of the experiments table.
RowAllowed(x) ==
  \/ x.status = "queued" /\ ~x.started /\ x.digest = 0 /\ x.error = "none"
  \/ x.status = "running" /\ x.started /\ x.digest = 0 /\ x.error = "none"
  \/ x.status = "completed" /\ x.started /\ x.digest # 0 /\ x.error = "none"
  \/ x.status = "failed" /\ x.started /\ x.digest = 0 /\ x.error # "none"

\* Wrong variant for a mutation run: the flush also rewrites error_code.
WritesEveryColumn(x, digest) ==
  [x EXCEPT !.status = "completed", !.digest = digest, !.error = "none"]

\* The columns each flush writes.
Claimed(x) == [x EXCEPT !.status = "running", !.started = TRUE]
Reset(x) == [x EXCEPT !.status = "queued", !.started = FALSE]
MarkCompleted(x, digest) == [x EXCEPT !.status = "completed", !.digest = digest]
MarkFailed(x, error) == [x EXCEPT !.status = "failed", !.error = error]

ExperimentInit ==
  /\ Init
  /\ experiments = [j \in Jobs |-> NoExperiment]
  /\ handler = [w \in Workers |-> Fresh]
  /\ published = [j \in Jobs |-> 0]
-----------------------------------------------------------------------------
(* Wrong variants, each named for the bug it plants, for mutation runs.    *)

ResetsOutputs(w) ==
  /\ handler[w].at = "loading" /\ handler[w].seen \in {"queued", "running"}
  /\ experiments' = [experiments EXCEPT ![worker[w].job] =
       [status |-> "running", started |-> TRUE, digest |-> 0, error |-> "none"]]
  /\ handler' = [handler EXCEPT ![w].at = "loaded"]
  /\ UNCHANGED <<vars, published>>
-----------------------------------------------------------------------------
(* create_experiment: both rows in one transaction *)
CreateExperiment(j) ==
  /\ Submit(j)
  /\ experiments' = [experiments EXCEPT ![j].status = "queued"]
  /\ UNCHANGED <<handler, published>>

ClaimJob(w) ==
  /\ ClaimNext(w)
  /\ handler' = [handler EXCEPT ![w] = Fresh]
  /\ UNCHANGED <<experiments, published>>

WorkerDies(w) ==
  /\ Crash(w)
  /\ handler' = [handler EXCEPT ![w] = Fresh]
  /\ UNCHANGED <<experiments, published>>

\* Checkpoint 5 comes before the load, 15 and 85 after it.
Checkpoint(w) ==
  /\ Probe(w)
  /\ handler[w].at = IF worker[w].stage = 0 THEN "new" ELSE "loaded"
  /\ UNCHANGED experimentVars

\* An exception outside the experiment's transactions: the simulation (which
\* may also reject its input), the artifact store, the database connection.
Raise(w) ==
  /\ HandlerRaises(w)
  /\ \/ handler[w].at = "loaded"
     \/ handler[w].at = "new" /\ worker'[w].outcome = "retryable"
  /\ UNCHANGED experimentVars

ReadExperiment(w, at) ==
  /\ handler' = [handler EXCEPT ![w] =
       [at |-> at, seen |-> ExperimentOf(w).status, digest |-> ExperimentOf(w).digest]]
  /\ UNCHANGED <<vars, experiments, published>>

\* The write of a transaction: refused by the constraint, or applied.
Writes(w, row) ==
  /\ RowAllowed(row)
  /\ experiments' = [experiments EXCEPT ![worker[w].job] = row]
Leave(w, at) ==
  handler' = [handler EXCEPT ![w].at = at] /\ UNCHANGED published
-----------------------------------------------------------------------------
(* _load_experiment *)

LoadRead(w) ==
  /\ worker[w].pc = "executing" /\ worker[w].stage = 1 /\ handler[w].at = "new"
  /\ ReadExperiment(w, "loading")

\* A completed experiment is returned as the result, with its stored digest.
LoadCompleted(w) ==
  /\ handler[w].at = "loading" /\ handler[w].seen = "completed"
  /\ EndHandler(w, "done")
  /\ Leave(w, "over")
  /\ UNCHANGED <<jobs, clock, experiments>>

\* Already failed (DomainValidationError), or claim_queued finds the row no
\* longer queued or locked by another transaction (LookupError).
LoadRefused(w) ==
  /\ handler[w].at = "loading"
  /\ \/ handler[w].seen = "failed"
     \/ /\ handler[w].seen = "queued"
        /\ \/ ExperimentOf(w).status # "queued"
           \/ \E v \in Workers \ {w} : InTransaction(v) /\ worker[v].job = worker[w].job
  /\ EndHandler(w, "fatal")
  /\ Leave(w, "loaded")
  /\ UNCHANGED <<jobs, clock, experiments>>

\* claim_queued; an experiment found running is first put back to queued.
LoadClaims(w) ==
  /\ handler[w].at = "loading"
  /\ \/ handler[w].seen = "queued" /\ ExperimentOf(w).status = "queued"
     \/ handler[w].seen = "running" /\ RowAllowed(Reset(ExperimentOf(w)))
  /\ Writes(w, Claimed(ExperimentOf(w)))
  /\ Leave(w, "loaded")
  /\ UNCHANGED vars

LoadConflict(w) ==
  /\ handler[w].at = "loading" /\ handler[w].seen = "running"
  /\ ~RowAllowed(Reset(ExperimentOf(w)))
  /\ EndHandler(w, "retryable")
  /\ Leave(w, "loaded")
  /\ UNCHANGED <<jobs, clock, experiments>>
-----------------------------------------------------------------------------
(* put_json, then _complete_experiment *)

CompleteRead(w) ==
  /\ worker[w].pc = "executing" /\ worker[w].stage = 3 /\ handler[w].at = "loaded"
  /\ ReadExperiment(w, "completing")

Complete(w) ==
  /\ handler[w].at = "completing" /\ handler[w].seen = "running"
  /\ Writes(w, MarkCompleted(ExperimentOf(w), worker[w].attempt))
  /\ handler' = [handler EXCEPT ![w].at = "over", ![w].digest = worker[w].attempt]
  /\ EndHandler(w, "done")
  /\ UNCHANGED <<jobs, clock, published>>

\* mark_completed on a row that is not running (RuntimeError), or a write
\* the constraint refuses.
CompleteFails(w) ==
  /\ handler[w].at = "completing"
  /\ \/ handler[w].seen # "running"
     \/ ~RowAllowed(MarkCompleted(ExperimentOf(w), worker[w].attempt))
  /\ EndHandler(w, "retryable")
  /\ Leave(w, "loaded")
  /\ UNCHANGED <<jobs, clock, experiments>>
-----------------------------------------------------------------------------
(* The except clauses: _terminal_experiment_failure, _reset_experiment *)

ErrorOf(outcome) ==
  CASE outcome = "cancelled" -> "experiment_cancelled"
    [] outcome = "fatal"     -> "invalid_experiment_job"
    [] OTHER                 -> "experiment_execution_failed"

CleanupRead(w) ==
  /\ worker[w].pc = "ended" /\ worker[w].outcome # "done"
  /\ handler[w].at \notin {"cleaning", "over"}
  /\ ReadExperiment(w, "cleaning")

\* What the clause does to an experiment it saw active.
Resets(w) == worker[w].outcome = "retryable" /\ worker[w].attempt < MaxAttempts
Cleaned(w) ==
  IF Resets(w)
  THEN Reset(ExperimentOf(w))
  ELSE MarkFailed(ExperimentOf(w), ErrorOf(worker[w].outcome))
Applies(w) ==
  handler[w].seen \in IF Resets(w) THEN {"running"} ELSE {"queued", "running"}

Cleanup(w) ==
  /\ handler[w].at = "cleaning"
  /\ IF Applies(w) THEN Writes(w, Cleaned(w)) ELSE UNCHANGED experiments
  /\ Leave(w, "over")
  /\ UNCHANGED vars

\* A failing except clause replaces the exception: the worker sees an
\* unclassified one, which is retryable.
CleanupFails(w) ==
  /\ handler[w].at = "cleaning"
  /\ Applies(w) /\ ~RowAllowed(Cleaned(w))
  /\ EndHandler(w, "retryable")
  /\ Leave(w, "over")
  /\ UNCHANGED <<jobs, clock, experiments>>
-----------------------------------------------------------------------------
\* What the handler read is gone once it has ended; its answer is kept.
FinishHandler(w) ==
  /\ handler[w].at = "over"
  /\ Settle(w)
  /\ handler' = [handler EXCEPT ![w] =
       IF worker[w].outcome = "done" THEN [@ EXCEPT !.seen = "absent"] ELSE Fresh]
  /\ UNCHANGED <<experiments, published>>

PublishSuccess(w) ==
  /\ Succeed(w)
  /\ published' = [published EXCEPT ![worker[w].job] =
       IF OwnsValidLease(RowOf(w), w, worker[w].now) THEN handler[w].digest ELSE @]
  /\ handler' = [handler EXCEPT ![w] = Fresh]
  /\ UNCHANGED experiments

QueueOnly ==
  /\ \/ \E j \in Jobs : RequestCancellation(j)
     \/ \E w \in Workers :
          \/ Start(w) \/ Poll(w) \/ RecoverExpiredLeases(w) \/ ClaimNothing(w)
          \/ Heartbeat(w) \/ HeartbeatError(w)
          \/ ReportProgress(w)
          \/ SettleCancelled(w) \/ SettleFailed(w) \/ ReadBeforeSuccess(w)
     \/ Tick
  /\ UNCHANGED experimentVars

ExperimentHandler(w) ==
  \/ Checkpoint(w) \/ Raise(w)
  \/ LoadRead(w) \/ LoadCompleted(w) \/ LoadRefused(w) \/ LoadClaims(w) \/ LoadConflict(w)
  \/ CompleteRead(w) \/ Complete(w) \/ CompleteFails(w)
  \/ CleanupRead(w) \/ Cleanup(w) \/ CleanupFails(w)
  \/ FinishHandler(w)

ExperimentNext ==
  \/ QueueOnly
  \/ \E j \in Jobs : CreateExperiment(j)
  \/ \E w \in Workers :
       ClaimJob(w) \/ ExperimentHandler(w) \/ PublishSuccess(w) \/ WorkerDies(w)

ExperimentSpec == ExperimentInit /\ [][ExperimentNext]_allVars
-----------------------------------------------------------------------------
(* What holds *)

\* The variables have their types, and no flush that the constraint would
\* refuse is ever committed.
ExperimentTypeOK ==
  /\ TypeOK
  /\ experiments \in [Jobs -> ExperimentRow]
  /\ handler \in [Workers -> HandlerState]
  /\ published \in [Jobs -> 0..MaxAttempts]
  /\ \A j \in Jobs : experiments[j].status # "absent" => RowAllowed(experiments[j])

\* Once completed or failed, an experiment stays so, although handlers write
\* it from reads that may be stale and never compare its version.
ExperimentOutcomeIsFinal ==
  [][\A j \in Jobs : experiments[j].status \in {"completed", "failed"} =>
       experiments'[j].status = experiments[j].status]_allVars

\* An experiment that was completed before a handler loads it is not
\* simulated again: that handler answers with the stored artifact.
NoSecondSimulation ==
  [][\A w \in Workers :
       (handler[w].at = "loading" /\ handler'[w].at = "loaded"
        /\ ExperimentOf(w).status = "completed") => worker'[w].outcome # "none"]_allVars

\* docs/operations.md says of an interrupted worker that was replaced: "The
\* stale process cannot commit after another worker owns the lease."  That is
\* true of the job row.  Stated of the experiment row: no worker completes or
\* fails an experiment while another worker holds a valid lease of its job.
StaleWorkerCannotCommit ==
  [][\A w \in Workers :
       (/\ handler'[w] # handler[w]
        /\ experiments' # experiments
        /\ experiments'[worker[w].job].status \in {"completed", "failed"}) =>
       ~\E v \in Workers \ {w} : OwnsValidLease(RowOf(w), v, clock)]_allVars
=============================================================================
