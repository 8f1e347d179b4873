----------------------------- MODULE JobHandlers -----------------------------
(***************************************************************************)
(* The four handlers of the durable queue: ExperimentJobs composed with    *)
(* the calibration, optimization and adaptive-comparison handlers, chosen  *)
(* by the kind of the claimed job.  Each of the three looks its result up, *)
(* computes it if it is missing, stores the row (calibrations and          *)
(* optimizations only) and the artifact, and answers with the digest of    *)
(* the artifact.  Lookup, recheck and insert are transactions of their     *)
(* own: a worker that lost its lease may run them between those of the     *)
(* worker that replaced it.                                                *)
(*                                                                         *)
(* An optimization row is unique per source job; a calibration row is      *)
(* unique per calibration id, which clients choose, so another job may     *)
(* have stored it, for this dataset or another one.                        *)
(* An artifact is the canonical form of the row: its digest names the      *)
(* attempt that computed the row.                                          *)
(***************************************************************************)
EXTENDS ExperimentJobs

VARIABLES
  kind,        \* job -> its kind, "none" before submission
  valid,       \* job -> its request passes the checks of service and model
  resources,   \* job -> the calibration or optimization row it names
  task,        \* worker -> where its handler is, and the row it answers with
  linked       \* job -> the row whose artifact result_digest names

taskVars == <<kind, valid, resources, task, linked>>
handlerVars == <<allVars, taskVars>>

Kinds == {"experiment", "calibration", "optimization", "adaptive_comparison"}

\* by: nobody, this job, another job over the same dataset, or over another.
Resource ==
  [by : {"nobody", "job", "other", "other_dataset"}, attempt : 0..MaxAttempts]
NoResource == [by |-> "nobody", attempt |-> 0]

\* new        nothing read yet
\* missing    no row found; computing: found missing again, computing it
\* inserting  save has looked once more (optimizations)
\* holding    has a result and stores its artifact
TaskState ==
  [at : {"new", "missing", "computing", "inserting", "holding"}, result : Resource]
NewTask == [at |-> "new", result |-> NoResource]

JobOf(w) == worker[w].job
KindOf(w) == IF Holding(w) THEN kind[JobOf(w)] ELSE "none"
Stored(w) == resources[JobOf(w)].by # "nobody"
Computed(w) == [by |-> "job", attempt |-> worker[w].attempt]
Executing(w, at) == worker[w].pc = "executing" /\ task[w].at = at

HandlersInit ==
  /\ ExperimentInit
  /\ kind = [j \in Jobs |-> "none"]
  /\ valid = [j \in Jobs |-> TRUE]
  /\ resources = [j \in Jobs |-> NoResource]
  /\ task = [w \in Workers |-> NewTask]
  /\ linked = [j \in Jobs |-> NoResource]

Continue(w, at) ==
  task' = [task EXCEPT ![w].at = at] /\ UNCHANGED <<allVars, kind, valid, resources, linked>>
Hold(w, result) ==
  /\ task' = [task EXCEPT ![w] = [at |-> "holding", result |-> result]]
  /\ UNCHANGED <<allVars, kind, valid, linked>>
Fail(w, outcome) ==
  EndHandler(w, outcome) /\ UNCHANGED <<jobs, clock, experimentVars, taskVars>>
-----------------------------------------------------------------------------
(* Wrong variants, each named for the bug it plants, for mutation runs.    *)

InsertOrRaise(w) ==
  /\ KindOf(w) = "optimization" /\ Executing(w, "inserting")
  /\ IF Stored(w)
     THEN Fail(w, "fatal")
     ELSE /\ resources' = [resources EXCEPT ![JobOf(w)] = Computed(w)]
          /\ Hold(w, Computed(w))
InsertOverwrites(w) ==
  /\ KindOf(w) = "optimization" /\ Executing(w, "inserting")
  /\ resources' = [resources EXCEPT ![JobOf(w)] = Computed(w)]
  /\ Hold(w, Computed(w))
-----------------------------------------------------------------------------
(* Submission, and what other jobs store *)

CreateTask(j) ==
  /\ Submit(j)
  /\ \E k \in Kinds \ {"experiment"}, ok \in BOOLEAN :
       kind' = [kind EXCEPT ![j] = k] /\ valid' = [valid EXCEPT ![j] = ok]
  /\ UNCHANGED <<experimentVars, resources, task, linked>>

CreateExperimentJob(j) ==
  /\ CreateExperiment(j)
  /\ kind' = [kind EXCEPT ![j] = "experiment"]
  /\ UNCHANGED <<valid, resources, task, linked>>

\* Another job of the tenant stores the calibration of that id.
OtherCalibrates(j) ==
  /\ kind[j] = "calibration" /\ resources[j].by = "nobody"
  /\ \E by \in {"other", "other_dataset"} :
       resources' = [resources EXCEPT ![j].by = by]
  /\ UNCHANGED <<allVars, kind, valid, task, linked>>

ClaimTask(w) ==
  /\ ClaimJob(w)
  /\ task' = [task EXCEPT ![w] = NewTask]
  /\ UNCHANGED <<kind, valid, resources, linked>>
-----------------------------------------------------------------------------
(* What the three handlers share *)

\* calibration and optimization checkpoint before the lookup and before the
\* computation, adaptive_comparison before and after it.
TaskCheckpoint(w) ==
  /\ Probe(w)
  /\ \/ worker[w].stage = 0 /\ task[w].at = "new"
     \/ worker[w].stage = 1 /\ task[w].at = "missing"
  /\ KindOf(w) = "adaptive_comparison" /\ worker[w].stage = 0 => valid[JobOf(w)]
  /\ UNCHANGED <<experimentVars, taskVars>>

\* A database, a computation or an artifact store that fails: retryable.
TaskRaises(w) ==
  /\ worker[w].pc = "executing"
  /\ Fail(w, "retryable")

\* put_json, then the JobExecutionResult.
StoreArtifact(w) ==
  /\ Executing(w, "holding")
  /\ EndHandler(w, "done")
  /\ UNCHANGED <<jobs, clock, experimentVars, taskVars>>

FinishTask(w) ==
  /\ Settle(w)
  /\ task' = [task EXCEPT ![w] = IF worker[w].outcome = "done" THEN @ ELSE NewTask]
  /\ UNCHANGED <<experimentVars, kind, valid, resources, linked>>

PublishTask(w) ==
  /\ Succeed(w)
  /\ linked' = [linked EXCEPT ![JobOf(w)] =
       IF OwnsValidLease(RowOf(w), w, worker[w].now) THEN task[w].result ELSE @]
  /\ task' = [task EXCEPT ![w] = NewTask]
  /\ UNCHANGED <<experimentVars, kind, valid, resources>>
-----------------------------------------------------------------------------
(* calibration *)

CalibrationLookup(w) ==
  /\ KindOf(w) = "calibration" /\ Executing(w, "new") /\ worker[w].stage = 1
  /\ CASE resources[JobOf(w)].by = "other_dataset" -> Fail(w, "fatal")
       [] resources[JobOf(w)].by \in {"job", "other"} ->
            Hold(w, resources[JobOf(w)]) /\ UNCHANGED resources
       [] OTHER -> Continue(w, "missing")

\* calibrate: the dataset exists and the identifier is not taken.
Calibrate(w) ==
  /\ KindOf(w) = "calibration" /\ Executing(w, "missing") /\ worker[w].stage = 2
  /\ IF Stored(w) \/ ~valid[JobOf(w)]
     THEN Fail(w, "fatal")
     ELSE Continue(w, "computing")

\* save: the primary key decides.
SaveCalibration(w) ==
  /\ KindOf(w) = "calibration" /\ Executing(w, "computing")
  /\ IF Stored(w)
     THEN Fail(w, "fatal")
     ELSE /\ resources' = [resources EXCEPT ![JobOf(w)] = Computed(w)]
          /\ Hold(w, Computed(w))
-----------------------------------------------------------------------------
(* optimization *)

OptimizationLookup(w) ==
  /\ KindOf(w) = "optimization" /\ Executing(w, "new") /\ worker[w].stage = 1
  /\ IF Stored(w)
     THEN Hold(w, resources[JobOf(w)]) /\ UNCHANGED resources
     ELSE Continue(w, "missing")

\* optimize looks the source job up again before the budgets.
Optimize(w) ==
  /\ KindOf(w) = "optimization" /\ Executing(w, "missing") /\ worker[w].stage = 2
  /\ CASE Stored(w) -> Hold(w, resources[JobOf(w)]) /\ UNCHANGED resources
       [] ~Stored(w) /\ ~valid[JobOf(w)] -> Fail(w, "fatal")
       [] OTHER -> Continue(w, "computing")

\* save looks it up once more, then inserts; on a conflict it adopts the row.
SaveLooksUp(w) ==
  /\ KindOf(w) = "optimization" /\ Executing(w, "computing")
  /\ IF Stored(w)
     THEN Hold(w, resources[JobOf(w)]) /\ UNCHANGED resources
     ELSE Continue(w, "inserting")

SaveOptimization(w) ==
  /\ KindOf(w) = "optimization" /\ Executing(w, "inserting")
  /\ IF Stored(w)
     THEN Hold(w, resources[JobOf(w)]) /\ UNCHANGED resources
     ELSE /\ resources' = [resources EXCEPT ![JobOf(w)] = Computed(w)]
          /\ Hold(w, Computed(w))
-----------------------------------------------------------------------------
(* adaptive_comparison: nothing is stored but the artifact *)

AdaptiveOverBudget(w) ==
  /\ KindOf(w) = "adaptive_comparison" /\ Executing(w, "new")
  /\ worker[w].stage = 0 /\ ~valid[JobOf(w)]
  /\ Fail(w, "fatal")

CompareAdaptive(w) ==
  /\ KindOf(w) = "adaptive_comparison" /\ Executing(w, "new") /\ worker[w].stage = 1
  /\ Continue(w, "missing")

AdaptiveCompared(w) ==
  /\ KindOf(w) = "adaptive_comparison" /\ Executing(w, "missing") /\ worker[w].stage = 2
  /\ Hold(w, Computed(w)) /\ UNCHANGED resources
-----------------------------------------------------------------------------
AnalyticalHandler(w) ==
  /\ KindOf(w) \in Kinds \ {"experiment"}
  /\ \/ TaskCheckpoint(w) \/ TaskRaises(w) \/ StoreArtifact(w) \/ FinishTask(w)
     \/ CalibrationLookup(w) \/ Calibrate(w) \/ SaveCalibration(w)
     \/ OptimizationLookup(w) \/ Optimize(w) \/ SaveLooksUp(w) \/ SaveOptimization(w)
     \/ AdaptiveOverBudget(w) \/ CompareAdaptive(w) \/ AdaptiveCompared(w)
     \/ PublishTask(w)

HandlersNext ==
  \/ QueueOnly /\ UNCHANGED taskVars
  \/ \E j \in Jobs : CreateExperimentJob(j) \/ CreateTask(j) \/ OtherCalibrates(j)
  \/ \E w \in Workers :
       \/ ClaimTask(w)
       \/ WorkerDies(w) /\ task' = [task EXCEPT ![w] = NewTask]
                        /\ UNCHANGED <<kind, valid, resources, linked>>
       \/ /\ KindOf(w) = "experiment"
          /\ ExperimentHandler(w) \/ PublishSuccess(w)
          /\ UNCHANGED taskVars
       \/ AnalyticalHandler(w)

HandlersSpec == HandlersInit /\ [][HandlersNext]_handlerVars
-----------------------------------------------------------------------------
(* What holds *)

\* The variables have their types.
HandlersTypeOK ==
  /\ ExperimentTypeOK
  /\ kind \in [Jobs -> Kinds \cup {"none"}]
  /\ valid \in [Jobs -> BOOLEAN]
  /\ resources \in [Jobs -> Resource]
  /\ task \in [Workers -> TaskState]
  /\ linked \in [Jobs -> Resource]

\* The result a succeeded job links to is there, whatever stale workers did:
\* a completed experiment, the one stored row of the calibration (of the
\* dataset the job asked for) or optimization the job names, or the
\* comparison of its last attempt.
JobLeadsToItsResult ==
  /\ HandlersTypeOK
  /\ \A j \in Jobs : jobs[j].status = "succeeded" =>
    CASE kind[j] = "experiment" -> experiments[j].status = "completed" /\ published[j] # 0
      [] kind[j] = "adaptive_comparison" ->
           linked[j] = [by |-> "job", attempt |-> jobs[j].attempt_count]
      [] OTHER -> linked[j] = resources[j] /\ linked[j].by \in {"job", "other"}

RefusesOwnResult(w) ==
  /\ Holding(w) /\ resources[JobOf(w)].by = "job"
  /\ worker[w].outcome = "none" /\ worker'[w].outcome = "fatal"

\* Once the optimization of a job is stored, no execution of that job,
\* recovered or stale, reports its request invalid: whoever loses the race
\* adopts the winner's row, at each of the four places it may notice it.
OptimizationIsIdempotent ==
  [][\A w \in Workers : KindOf(w) = "optimization" => ~RefusesOwnResult(w)]_handlerVars

\* docs/jobs.md says it of every kind: "Handlers are idempotent against the
\* source job."  Stated of calibrations, where the loser of the race finds the
\* identifier taken by its own job and fails that job as an invalid request.
CalibrationIsIdempotent ==
  [][\A w \in Workers : KindOf(w) = "calibration" => ~RefusesOwnResult(w)]_handlerVars
=============================================================================
