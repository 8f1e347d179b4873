------------------------- MODULE JobHandlersProofs -------------------------
(***************************************************************************)
(* Safety of the job handlers for every number of jobs and workers and     *)
(* every duration: a succeeded job leads to its result, whatever replaced  *)
(* workers still do, a final experiment stays final, and a handler neither *)
(* simulates a completed experiment again nor refuses its own optimization.*)
(*                                                                         *)
(* HInv adds to the invariant of the queue what a holder may rely on: a    *)
(* handler that ended as "done" has its answer in the tables (HolderInv),  *)
(* and the tables only grow (TableStep), since every flush that would take *)
(* a final experiment back meets the CHECK constraint, and every save of a *)
(* result meets the key of the row that is there.  No part of it says who  *)
(* owns a lease: the handlers never look.                                  *)
(***************************************************************************)
EXTENDS JobHandlers, JobQueueProofs

\* The experiment the handler answers with is completed, and it has a digest.
Answered(w) == ExperimentOf(w).status = "completed" /\ handler[w].digest # 0

\* The result the handler holds: the comparison of its own attempt, or the
\* one stored row.
Result(w) ==
  IF kind[JobOf(w)] = "adaptive_comparison"
  THEN task[w].result = Computed(w)
  ELSE task[w].result = resources[JobOf(w)] /\ task[w].result.by \in {"job", "other"}

ExperimentPlace(w) ==
  /\ handler[w].at \in {"loading", "completing"} => worker[w].pc = "executing"
  /\ handler[w].at = "cleaning" => worker[w].pc = "ended" /\ worker[w].outcome # "done"
  /\ handler[w].at = "loading" /\ handler[w].seen = "completed" => Answered(w)
  /\ worker[w].outcome = "done" => handler[w].at = "over" /\ Answered(w)

TaskPlace(w) ==
  /\ handler[w].at = "new"
  /\ task[w].at = "holding" => Result(w)
  /\ worker[w].outcome = "done" => task[w].at = "holding"

HolderInv(w) ==
  worker[w].pc \in Active =>
    /\ worker[w].pc = "committing" => worker[w].outcome = "done"
    /\ kind[JobOf(w)] = "experiment" => ExperimentPlace(w)
    /\ kind[JobOf(w)] # "experiment" => TaskPlace(w)

JobInv(j) ==
  /\ jobs[j].status = "absent" <=> kind[j] = "none"
  /\ jobs[j].status = "absent" => experiments[j] = NoExperiment
  /\ kind[j] # "calibration" => resources[j].by \in {"nobody", "job"}

Linked(j) ==
  jobs[j].status = "succeeded" =>
    CASE kind[j] = "experiment" -> experiments[j].status = "completed" /\ published[j] # 0
      [] kind[j] = "adaptive_comparison" ->
           linked[j] = [by |-> "job", attempt |-> jobs[j].attempt_count]
      [] OTHER -> linked[j] = resources[j] /\ linked[j].by \in {"job", "other"}

HInv ==
  /\ IInv
  /\ HandlersTypeOK
  /\ \A j \in Jobs : JobInv(j) /\ Linked(j)
  /\ \A w \in Workers : HolderInv(w)
-----------------------------------------------------------------------------
(* What a step may do *)

\* The tables only grow.
TableStep(j) ==
  /\ kind[j] # "none" => kind'[j] = kind[j]
  /\ experiments[j].status \in {"completed", "failed"} =>
       experiments'[j].status = experiments[j].status
  /\ resources[j].by # "nobody" => resources'[j] = resources[j]

\* The row of the job, as far as its result is concerned.
RowStep(j) ==
  /\ jobs'[j].status = "absent" <=> jobs[j].status = "absent"
  /\ jobs'[j].status = "succeeded" => jobs'[j] = jobs[j]

JobStep(j) == TableStep(j) /\ JobInv(j)' /\ Linked(j)'

\* The two action properties about a single handler.
NotSimulatedAgain(w) ==
  (handler[w].at = "loading" /\ handler'[w].at = "loaded"
   /\ ExperimentOf(w).status = "completed") => worker'[w].outcome # "none"
Adopts(w) == KindOf(w) = "optimization" => ~RefusesOwnResult(w)

Effect ==
  /\ HInv'
  /\ \A j \in Jobs : TableStep(j)
  /\ \A w \in Workers : NotSimulatedAgain(w) /\ Adopts(w)

\* A step of worker w, or of nobody, as the other workers see it.
LeavesAlone(v) ==
  /\ worker'[v] = worker[v]
  /\ handler'[v] = handler[v]
  /\ task'[v] = task[v]
-----------------------------------------------------------------------------
(* The job a thread holds was submitted. *)

LEMMA HeldJob ==
  ASSUME HInv, NEW w \in Workers, worker[w].pc \in Active
  PROVE  /\ JobOf(w) \in Jobs
         /\ jobs[JobOf(w)] \in JobRow
         /\ jobs[JobOf(w)].status # "absent"
         /\ kind[JobOf(w)] # "none"
         /\ worker[w] \in WorkerState
         /\ worker[w].attempt \in 1..MaxAttempts
<1>1. /\ JobOf(w) \in Jobs /\ GoodRow(jobs[JobOf(w)])
      /\ Claims(w, worker[w], jobs[JobOf(w)])
  BY HolderFacts DEF HInv, JobOf
<1>2. worker[w] \in WorkerState /\ worker[w].attempt \in 0..MaxAttempts
  BY DEF HInv, IInv, TypeOK, WorkerState
<1>3. worker[w].attempt \in 1..MaxAttempts
  BY <1>1, <1>2, AttemptsAssumption DEF Claims
<1>4. jobs[JobOf(w)].attempt_count # 0
  BY <1>1, <1>3, AttemptsAssumption DEF Claims
<1>5. jobs[JobOf(w)].status # "absent"
  BY <1>1, <1>4 DEF GoodRow, RowInv
<1> QED BY <1>1, <1>2, <1>3, <1>5 DEF HInv, JobInv, GoodRow

\* A thread goes on with its claim and is not told "done".
Resumes(s, t) ==
  t.pc \in Active =>
    /\ s.pc \in Active
    /\ t.job = s.job /\ t.attempt = s.attempt
    /\ \/ t.pc = s.pc /\ t.outcome = s.outcome
       \/ /\ s.pc \in {"reporting", "settling"}
          /\ t.outcome = "done" => s.outcome = "done"
          /\ t.pc = "committing" => t.outcome = "done"

LEMMA HolderKept ==
  ASSUME HInv, NEW w \in Workers, Resumes(worker[w], worker'[w]),
         handler'[w] = handler[w], task'[w] = task[w],
         \A j \in Jobs : TableStep(j)
  PROVE  HolderInv(w)'
<1> SUFFICES ASSUME worker'[w].pc \in Active
             PROVE  /\ worker'[w].pc = "committing" => worker'[w].outcome = "done"
                    /\ kind'[JobOf(w)'] = "experiment" => ExperimentPlace(w)'
                    /\ kind'[JobOf(w)'] # "experiment" => TaskPlace(w)'
  BY DEF HolderInv
<1>1. /\ worker[w].pc \in Active
      /\ JobOf(w)' = JobOf(w) /\ worker'[w].attempt = worker[w].attempt
      /\ \/ worker'[w].pc = worker[w].pc /\ worker'[w].outcome = worker[w].outcome
         \/ /\ worker[w].pc \in {"reporting", "settling"}
            /\ worker'[w].outcome = "done" => worker[w].outcome = "done"
            /\ worker'[w].pc = "committing" => worker'[w].outcome = "done"
  BY DEF Resumes, JobOf
<1>2. HolderInv(w) /\ JobOf(w) \in Jobs /\ kind[JobOf(w)] # "none"
  BY <1>1, HeldJob DEF HInv
<1>3. TableStep(JobOf(w)) /\ kind'[JobOf(w)'] = kind[JobOf(w)]
  BY <1>1, <1>2 DEF TableStep
<1>4. worker'[w].pc = "committing" => worker'[w].outcome = "done"
  BY <1>1, <1>2 DEF HolderInv
<1>5. ASSUME kind[JobOf(w)] = "experiment"
      PROVE  ExperimentPlace(w)'
  <2>1. ExperimentPlace(w)
    BY <1>1, <1>2, <1>5 DEF HolderInv
  <2>2. Answered(w) => Answered(w)'
    BY <1>1, <1>3 DEF Answered, ExperimentOf, TableStep, JobOf
  <2> QED BY <1>1, <2>1, <2>2 DEF ExperimentPlace
<1>6. ASSUME kind[JobOf(w)] # "experiment"
      PROVE  TaskPlace(w)'
  <2>1. TaskPlace(w)
    BY <1>1, <1>2, <1>6 DEF HolderInv
  <2>2. Computed(w)' = Computed(w)
    BY <1>1 DEF Computed
  <2>3. Result(w) => Result(w)'
    BY <1>1, <1>3, <2>2 DEF Result, TableStep
  <2> QED BY <1>1, <2>1, <2>3 DEF TaskPlace
<1> QED BY <1>3, <1>4, <1>5, <1>6

LEMMA JobKept ==
  ASSUME HInv, NEW j \in Jobs, RowStep(j), TableStep(j), kind'[j] = kind[j],
         linked'[j] = linked[j], published'[j] = published[j],
         jobs[j].status = "absent" => experiments'[j] = experiments[j],
         kind[j] # "calibration" => resources'[j].by \in {"nobody", "job"}
  PROVE  JobStep(j)
<1>1. JobInv(j) /\ Linked(j)
  BY DEF HInv
<1>2. JobInv(j)'
  BY <1>1 DEF JobInv, RowStep
<1>3. Linked(j)'
  <2> SUFFICES ASSUME jobs'[j].status = "succeeded" PROVE Linked(j)'
    BY DEF Linked
  <2>1. jobs'[j] = jobs[j]
    BY DEF RowStep
  <2>2. CASE kind[j] = "experiment"
    BY <1>1, <2>1, <2>2 DEF Linked, TableStep
  <2>3. CASE kind[j] = "adaptive_comparison"
    BY <1>1, <2>1, <2>3 DEF Linked
  <2>4. CASE kind[j] \notin {"experiment", "adaptive_comparison"}
    <3>1. linked[j] = resources[j] /\ linked[j].by \in {"job", "other"}
      BY <1>1, <2>1, <2>4 DEF Linked
    <3>2. resources'[j] = resources[j]
      BY <3>1 DEF TableStep
    <3> QED BY <2>4, <3>1, <3>2 DEF Linked
  <2> QED BY <2>2, <2>3, <2>4
<1> QED BY <1>2, <1>3 DEF JobStep

\* The frame of every step of one worker.
LEMMA HandlerTurn ==
  ASSUME HInv, NEW w \in Workers, IInv', HandlersTypeOK',
         \A v \in Workers \ {w} : LeavesAlone(v),
         \A j \in Jobs : JobStep(j),
         HolderInv(w)', NotSimulatedAgain(w), Adopts(w)
  PROVE  Effect
<1>1. \A j \in Jobs : TableStep(j)
  BY DEF JobStep
<1>2. ASSUME NEW v \in Workers, v # w
      PROVE  HolderInv(v)' /\ NotSimulatedAgain(v) /\ Adopts(v)
  <2>1. LeavesAlone(v)
    BY <1>2
  <2>2. HolderInv(v)'
    BY <1>1, <2>1, HolderKept DEF LeavesAlone, Resumes
  <2> QED BY <2>1, <2>2 DEF LeavesAlone, NotSimulatedAgain, Adopts, RefusesOwnResult
<1>3. \A v \in Workers : HolderInv(v)' /\ NotSimulatedAgain(v) /\ Adopts(v)
  BY <1>2
<1> QED BY <1>1, <1>3 DEF Effect, HInv, JobStep
-----------------------------------------------------------------------------
(* The steps of the queue that no handler takes part in *)

LEMMA RowStatuses ==
  ASSUME NEW r \in JobRow
  PROVE  /\ CancelledRow(r).status = "cancelled"
         /\ \A next : RequeuedRow(r, next).status = "queued"
         /\ \A p : FailedRow(r, p).status = "failed"
         /\ \A now : HeartbeatRow(r, now).status = r.status
         /\ \A p, now : ReportRow(r, p, now).status = r.status
         /\ \A retryable, now :
              FailRow(r, retryable, now).status \in {"cancelled", "queued", "failed"}
         /\ \A now : RecoverRow(r, now).status \in {"cancelled", "queued", "failed"}
<1>1. /\ CancelledRow(r).status = "cancelled"
      /\ \A next : RequeuedRow(r, next).status = "queued"
      /\ \A p : FailedRow(r, p).status = "failed"
  BY DEF CancelledRow, RequeuedRow, FailedRow, ClearLease, JobRow
<1>2. /\ \A now : HeartbeatRow(r, now).status = r.status
      /\ \A p, now : ReportRow(r, p, now).status = r.status
  BY DEF HeartbeatRow, ReportRow, JobRow
<1>3. ASSUME NEW retryable, NEW now
      PROVE  FailRow(r, retryable, now) \in
               {CancelledRow(r), RequeuedRow(r, now + RetryDelay),
                FailedRow(r, "handler_failed")}
  BY DEF FailRow
<1>4. ASSUME NEW now
      PROVE  RecoverRow(r, now) \in
               {CancelledRow(r), RequeuedRow(r, now), FailedRow(r, "lease_expired")}
  BY DEF RecoverRow
<1> QED BY <1>1, <1>2, <1>3, <1>4

LEMMA RequestedStatus ==
  ASSUME NEW r \in JobRow, r.status # "absent"
  PROVE  /\ RequestCancellationRow(r).status # "absent"
         /\ RequestCancellationRow(r).status = "succeeded" => RequestCancellationRow(r) = r
<1> DEFINE asked == [r EXCEPT !.cancellation_requested = TRUE]
<1>1. asked \in JobRow /\ asked.status = r.status
  BY DEF JobRow
<1>2. CASE r.status \in Terminal
  BY <1>2 DEF RequestCancellationRow, Terminal
<1>3. CASE r.status = "queued"
  <2>1. RequestCancellationRow(r) = CancelledRow(asked)
    BY <1>3 DEF RequestCancellationRow, Terminal
  <2> HIDE DEF asked
  <2> QED BY <1>1, <2>1, RowStatuses
<1>4. CASE r.status \notin Terminal \cup {"queued"}
  <2>1. RequestCancellationRow(r) = asked
    BY <1>4 DEF RequestCancellationRow, Terminal
  <2> HIDE DEF asked
  <2> QED BY <1>1, <1>4, <2>1 DEF Terminal
<1> QED BY <1>2, <1>3, <1>4

\* What one transaction on the row of job j leaves of the table.
LEMMA OneRow ==
  ASSUME HInv, NEW j \in Jobs, NEW s, jobs' = [jobs EXCEPT ![j] = s],
         jobs[j].status # "absent", s.status # "absent",
         s.status = "succeeded" => s = jobs[j]
  PROVE  \A i \in Jobs : RowStep(i)
BY DEF HInv, IInv, TypeOK, RowStep

LEMMA RowsUnchanged ==
  ASSUME HInv, UNCHANGED jobs
  PROVE  \A i \in Jobs : RowStep(i)
BY DEF RowStep

\* The frame of those steps.
LEMMA QueueTurn ==
  ASSUME HInv, IInv', UNCHANGED <<experimentVars, taskVars>>,
         \A j \in Jobs : RowStep(j),
         \A v \in Workers : /\ Resumes(worker[v], worker'[v])
                            /\ worker'[v].outcome = "fatal" => worker[v].outcome = "fatal"
  PROVE  Effect
<1>1. HandlersTypeOK'
  BY DEF HInv, HandlersTypeOK, ExperimentTypeOK, IInv, experimentVars, taskVars
<1>2. ASSUME NEW j \in Jobs
      PROVE  TableStep(j) /\ JobStep(j)
  <2>1. TableStep(j)
    BY DEF TableStep, experimentVars, taskVars
  <2> QED BY <2>1, JobKept DEF HInv, JobInv, experimentVars, taskVars
<1>3. ASSUME NEW v \in Workers
      PROVE  HolderInv(v)' /\ NotSimulatedAgain(v) /\ Adopts(v)
  <2>1. HolderInv(v)'
    BY <1>2, HolderKept DEF experimentVars, taskVars
  <2>2. NotSimulatedAgain(v) /\ Adopts(v)
    BY DEF NotSimulatedAgain, Adopts, RefusesOwnResult, experimentVars
  <2> QED BY <2>1, <2>2
<1> QED BY <1>1, <1>2, <1>3 DEF Effect, HInv, JobStep

\* One thread moves on, the others stay where they are.
LEMMA QueueTurnOf ==
  ASSUME HInv, IInv', UNCHANGED <<experimentVars, taskVars>>,
         \A j \in Jobs : RowStep(j),
         NEW w \in Workers, NEW t, worker' = [worker EXCEPT ![w] = t],
         Resumes(worker[w], t), t.outcome # "fatal" \/ t.outcome = worker[w].outcome
  PROVE  Effect
<1>1. \A v \in Workers : worker'[v] = IF v = w THEN t ELSE worker[v]
  BY DEF HInv, IInv, TypeOK
<1>2. \A v \in Workers : /\ Resumes(worker[v], worker'[v])
                         /\ worker'[v].outcome = "fatal" => worker[v].outcome = "fatal"
  BY <1>1 DEF Resumes
<1> QED BY <1>2, QueueTurn

LEMMA RestingColumns ==
  ASSUME NEW pc
  PROVE  Resting(pc).pc = pc /\ Resting(pc).outcome = "none"
BY DEF Resting

LEMMA RequestCancellationEffect ==
  ASSUME HInv, NEW j \in Jobs, RequestCancellation(j), UNCHANGED <<experimentVars, taskVars>>
  PROVE  Effect
<1>1. IInv'
  BY RequestCancellationKeeps DEF HInv
<1>2. jobs[j] \in JobRow /\ jobs' = [jobs EXCEPT ![j] = RequestCancellationRow(jobs[j])]
  BY DEF HInv, IInv, TypeOK, RequestCancellation
<1>3. \A i \in Jobs : RowStep(i)
  BY <1>2, RequestedStatus, OneRow DEF RequestCancellation
<1>4. \A v \in Workers : worker'[v] = worker[v]
  BY DEF RequestCancellation
<1> QED BY <1>1, <1>3, <1>4, QueueTurn DEF Resumes

LEMMA TickEffect ==
  ASSUME HInv, Tick, UNCHANGED <<experimentVars, taskVars>>
  PROVE  Effect
<1>1. IInv'
  BY TickKeeps DEF HInv
<1> QED BY <1>1, QueueTurn, RowsUnchanged DEF Tick, Resumes

LEMMA StartEffect ==
  ASSUME HInv, NEW w \in Workers, Start(w) \/ ClaimNothing(w),
         UNCHANGED <<experimentVars, taskVars>>
  PROVE  Effect
<1>1. IInv'
  BY StartKeeps, ClaimNothingKeeps DEF HInv
<1>2. Resumes(worker[w], Resting("idle"))
  BY RestingColumns DEF Resumes, Active
<1>3. worker' = [worker EXCEPT ![w] = Resting("idle")] /\ UNCHANGED jobs
  BY DEF Start, ClaimNothing
<1> QED BY <1>1, <1>2, <1>3, QueueTurnOf, RowsUnchanged, RestingColumns

LEMMA PollEffect ==
  ASSUME HInv, NEW w \in Workers, Poll(w), UNCHANGED <<experimentVars, taskVars>>
  PROVE  Effect
<1> DEFINE t == [worker[w] EXCEPT !.pc = "recovering", !.now = clock]
<1>1. IInv' /\ worker' = [worker EXCEPT ![w] = t] /\ UNCHANGED jobs
  BY PollKeeps DEF HInv, Poll
<1>2. t.pc = "recovering" /\ t.outcome = worker[w].outcome
  BY DEF HInv, IInv, TypeOK, WorkerState
<1> HIDE DEF t
<1>3. Resumes(worker[w], t)
  BY <1>2 DEF Resumes, Active
<1> QED BY <1>1, <1>2, <1>3, QueueTurnOf, RowsUnchanged

LEMMA RecoverEffect ==
  ASSUME HInv, NEW w \in Workers, RecoverExpiredLeases(w),
         UNCHANGED <<experimentVars, taskVars>>
  PROVE  Effect
<1> DEFINE now == worker[w].now
           expired == {j \in Jobs : Expired(jobs[j], now)}
           t == [worker[w] EXCEPT !.pc = "claiming"]
<1>1. IInv' /\ worker' = [worker EXCEPT ![w] = t]
  BY RecoverExpiredLeasesKeeps DEF HInv, RecoverExpiredLeases
<1>2. PICK locked \in LockedAmong(expired) :
        jobs' = [j \in Jobs |-> IF j \in expired \ locked
                                THEN RecoverRow(jobs[j], now) ELSE jobs[j]]
  BY DEF RecoverExpiredLeases
<1>3. ASSUME NEW j \in Jobs
      PROVE  RowStep(j)
  <2>1. jobs[j] \in JobRow
    BY DEF HInv, IInv, TypeOK
  <2>2. CASE j \in expired \ locked
    <3>1. jobs'[j] = RecoverRow(jobs[j], now) /\ jobs[j].status = "running"
      BY <1>2, <2>2 DEF Expired
    <3> HIDE DEF now
    <3> QED BY <2>1, <3>1, RowStatuses DEF RowStep
  <2>3. CASE j \notin expired \ locked
    BY <1>2, <2>3 DEF RowStep
  <2> QED BY <2>2, <2>3
<1>4. t.pc = "claiming" /\ t.outcome = worker[w].outcome
  BY DEF HInv, IInv, TypeOK, WorkerState
<1> HIDE DEF t
<1>5. Resumes(worker[w], t)
  BY <1>4 DEF Resumes, Active
<1> QED BY <1>1, <1>3, <1>4, <1>5, QueueTurnOf
LEMMA LeaseLostEffect ==
  ASSUME HInv, IInv', NEW w \in Workers, UNCHANGED <<jobs, experimentVars, taskVars>>,
         worker' = [worker EXCEPT ![w].lost = TRUE, ![w].beating = FALSE]
  PROVE  Effect
<1> DEFINE t == [worker[w] EXCEPT !.lost = TRUE, !.beating = FALSE]
<1>1. worker' = [worker EXCEPT ![w] = t]
  BY DEF HInv, IInv, TypeOK
<1>2. /\ t.pc = worker[w].pc /\ t.outcome = worker[w].outcome
      /\ t.job = worker[w].job /\ t.attempt = worker[w].attempt
  BY DEF HInv, IInv, TypeOK, WorkerState
<1> HIDE DEF t
<1>3. Resumes(worker[w], t)
  BY <1>2 DEF Resumes
<1> QED BY <1>1, <1>2, <1>3, QueueTurnOf, RowsUnchanged

LEMMA HeartbeatEffect ==
  ASSUME HInv, NEW w \in Workers, Heartbeat(w) \/ HeartbeatError(w),
         UNCHANGED <<experimentVars, taskVars>>
  PROVE  Effect
<1>1. IInv'
  BY HeartbeatKeeps, HeartbeatErrorKeeps DEF HInv
<1>2. CASE HeartbeatError(w)
  BY <1>1, <1>2, LeaseLostEffect DEF HeartbeatError
<1>3. CASE Heartbeat(w)
  <2>1. PICK now \in OperationTimes :
          IF OwnsValidLease(RowOf(w), w, now)
          THEN /\ jobs' = [jobs EXCEPT ![worker[w].job] = HeartbeatRow(@, now)]
               /\ worker' = [worker EXCEPT ![w].due = clock + HeartbeatEvery]
          ELSE /\ worker' = [worker EXCEPT ![w].lost = TRUE, ![w].beating = FALSE]
               /\ UNCHANGED jobs
    BY <1>3 DEF Heartbeat
  <2>2. CASE ~OwnsValidLease(RowOf(w), w, now)
    BY <1>1, <2>1, <2>2, LeaseLostEffect
  <2>3. CASE OwnsValidLease(RowOf(w), w, now)
    <3> DEFINE t == [worker[w] EXCEPT !.due = clock + HeartbeatEvery]
               s == HeartbeatRow(RowOf(w), now)
    <3>1. worker' = [worker EXCEPT ![w] = t]
      BY <2>1, <2>3 DEF HInv, IInv, TypeOK
    <3>2. /\ t.pc = worker[w].pc /\ t.outcome = worker[w].outcome
          /\ t.job = worker[w].job /\ t.attempt = worker[w].attempt
      BY DEF HInv, IInv, TypeOK, WorkerState
    <3>3. worker[w].pc \in Active
      BY <1>3 DEF HInv, IInv, Heartbeat, Beating, WorkerInv, Sound, Active
    <3>4. JobOf(w) \in Jobs /\ RowOf(w) \in JobRow /\ RowOf(w) = jobs[JobOf(w)]
      BY <3>3, HeldJob DEF JobOf, RowOf
    <3>5. s.status = "running" /\ RowOf(w).status = "running"
      BY <2>3, <3>4, RowStatuses DEF OwnsValidLease
    <3>6. jobs' = [jobs EXCEPT ![JobOf(w)] = s]
      BY <2>1, <2>3, <3>4 DEF JobOf
    <3> HIDE DEF t, s
    <3>7. \A i \in Jobs : RowStep(i)
      BY <3>4, <3>5, <3>6, OneRow
    <3>8. Resumes(worker[w], t)
      BY <3>2 DEF Resumes
    <3> QED BY <1>1, <3>1, <3>2, <3>7, <3>8, QueueTurnOf
  <2> QED BY <2>2, <2>3
<1> QED BY <1>2, <1>3

\* The handler of a reporting or settling thread is told to stop, or fails.
LEMMA EndedColumns ==
  ASSUME HInv, NEW w \in Workers, NEW outcome, EndHandler(w, outcome)
  PROVE  /\ worker' = [worker EXCEPT ![w] = [worker[w] EXCEPT !.pc = "ended", !.outcome = outcome]]
         /\ worker'[w].pc = "ended" /\ worker'[w].outcome = outcome
         /\ worker'[w].job = worker[w].job /\ worker'[w].attempt = worker[w].attempt
         /\ \A v \in Workers \ {w} : worker'[v] = worker[v]
<1> DEFINE t == [worker[w] EXCEPT !.pc = "ended", !.outcome = outcome]
<1>1. worker' = [worker EXCEPT ![w] = t] /\ worker \in [Workers -> WorkerState]
  BY DEF EndHandler, HInv, IInv, TypeOK
<1>2. /\ t.pc = "ended" /\ t.outcome = outcome
      /\ t.job = worker[w].job /\ t.attempt = worker[w].attempt
  BY <1>1 DEF WorkerState
<1>3. worker'[w] = t
  BY <1>1
<1> QED BY <1>1, <1>2, <1>3

LEMMA ReportEffect ==
  ASSUME HInv, NEW w \in Workers, ReportProgress(w), UNCHANGED <<experimentVars, taskVars>>
  PROVE  Effect
<1> DEFINE progress == Stages[worker[w].stage + 1]
           accepted(now) == OwnsValidLease(RowOf(w), w, now) /\ RowOf(w).progress <= progress
<1>1. PICK now \in OperationTimes :
        IF accepted(now)
        THEN /\ jobs' = [jobs EXCEPT ![worker[w].job] = ReportRow(@, progress, now)]
             /\ IF RowOf(w).cancellation_requested
                THEN EndHandler(w, "cancelled")
                ELSE worker' = [worker EXCEPT ![w].pc = "executing",
                                              ![w].stage = @ + 1]
        ELSE EndHandler(w, "retryable") /\ UNCHANGED jobs
  BY DEF ReportProgress
<1>2. IInv' /\ worker[w].pc = "reporting"
  BY ReportProgressKeeps DEF HInv, ReportProgress
<1>3. JobOf(w) \in Jobs /\ RowOf(w) \in JobRow /\ RowOf(w) = jobs[JobOf(w)]
  BY <1>2, HeldJob DEF Active, JobOf, RowOf
<1>4. \A i \in Jobs : RowStep(i)
  <2>1. CASE accepted(now)
    <3> DEFINE s == ReportRow(RowOf(w), progress, now)
    <3>1. s.status = "running" /\ RowOf(w).status = "running"
      BY <1>3, <2>1, RowStatuses DEF OwnsValidLease
    <3>2. jobs' = [jobs EXCEPT ![JobOf(w)] = s]
      BY <1>1, <1>3, <2>1 DEF JobOf
    <3> HIDE DEF s
    <3> QED BY <1>3, <3>1, <3>2, OneRow
  <2>2. CASE ~accepted(now)
    BY <1>1, <2>2, RowsUnchanged
  <2> QED BY <2>1, <2>2
<1>5. /\ worker'[w].pc \in {"executing", "ended"}
      /\ worker'[w].job = worker[w].job /\ worker'[w].attempt = worker[w].attempt
      /\ worker'[w].outcome \in {worker[w].outcome, "cancelled", "retryable"}
      /\ \A v \in Workers \ {w} : worker'[v] = worker[v]
  <2>1. ASSUME NEW outcome \in {"cancelled", "retryable"}, EndHandler(w, outcome)
        PROVE  /\ worker'[w].pc = "ended" /\ worker'[w].outcome = outcome
               /\ worker'[w].job = worker[w].job /\ worker'[w].attempt = worker[w].attempt
               /\ \A v \in Workers \ {w} : worker'[v] = worker[v]
    BY <2>1, EndedColumns
  <2>2. CASE worker' = [worker EXCEPT ![w].pc = "executing", ![w].stage = @ + 1]
    <3> DEFINE t == [worker[w] EXCEPT !.pc = "executing", !.stage = @ + 1]
    <3>1. worker' = [worker EXCEPT ![w] = t] /\ worker \in [Workers -> WorkerState]
      BY <2>2 DEF HInv, IInv, TypeOK
    <3>2. /\ t.pc = "executing" /\ t.outcome = worker[w].outcome
          /\ t.job = worker[w].job /\ t.attempt = worker[w].attempt
      BY <3>1 DEF WorkerState
    <3>3. worker'[w] = t
      BY <3>1
    <3> QED BY <3>1, <3>2, <3>3
  <2> QED BY <1>1, <2>1, <2>2
<1>6. ASSUME NEW v \in Workers
      PROVE  /\ Resumes(worker[v], worker'[v])
             /\ worker'[v].outcome = "fatal" => worker[v].outcome = "fatal"
  BY <1>2, <1>5 DEF Resumes, Active
<1> QED BY <1>2, <1>4, <1>6, QueueTurn

LEMMA FailureRecordedEffect ==
  ASSUME HInv, NEW w \in Workers, SettleCancelled(w) \/ SettleFailed(w),
         UNCHANGED <<experimentVars, taskVars>>
  PROVE  Effect
<1>1. IInv' /\ worker[w].pc = "settling"
  BY SettleCancelledKeeps, SettleFailedKeeps DEF HInv, SettleCancelled, SettleFailed
<1>2. JobOf(w) \in Jobs /\ RowOf(w) \in JobRow /\ RowOf(w) = jobs[JobOf(w)]
  BY <1>1, HeldJob DEF Active, JobOf, RowOf
<1>3. RowOf(w).status # "absent"
  BY <1>1, <1>2, HeldJob DEF Active
<1>4. ASSUME NEW row, row.status \in {"cancelled", "queued", "failed"}, WriteAndRest(w, row)
      PROVE  Effect
  <2>1. \A i \in Jobs : RowStep(i)
    <3>1. CASE OwnsValidLease(RowOf(w), w, worker[w].now)
      <4>1. jobs' = [jobs EXCEPT ![JobOf(w)] = row]
        BY <1>2, <1>4, <3>1 DEF WriteAndRest, JobOf
      <4> QED BY <1>2, <1>3, <1>4, <4>1, OneRow
    <3>2. CASE ~OwnsValidLease(RowOf(w), w, worker[w].now)
      <4>1. UNCHANGED jobs
        BY <1>2, <1>4, <3>2 DEF WriteAndRest, JobOf, HInv, IInv, TypeOK
      <4> QED BY <4>1, RowsUnchanged
    <3> QED BY <3>1, <3>2
  <2>2. Resumes(worker[w], Resting("idle"))
    BY RestingColumns DEF Resumes, Active
  <2>3. worker' = [worker EXCEPT ![w] = Resting("idle")]
    BY <1>4 DEF WriteAndRest
  <2> QED BY <1>1, <2>1, <2>2, <2>3, QueueTurnOf, RestingColumns
<1>5. CASE SettleCancelled(w)
  <2>1. RowOf(w).cancellation_requested
    BY <1>1, <1>5, SettlingFacts DEF HInv, SettleCancelled
  <2>2. WriteAndRest(w, CancelledRow(RowOf(w)))
    BY <1>5, <2>1 DEF SettleCancelled
  <2> QED BY <1>2, <1>4, <2>2, RowStatuses
<1>6. CASE SettleFailed(w)
  BY <1>2, <1>4, <1>6, RowStatuses DEF SettleFailed
<1> QED BY <1>5, <1>6

LEMMA ReadBeforeSuccessEffect ==
  ASSUME HInv, NEW w \in Workers, ReadBeforeSuccess(w), UNCHANGED <<experimentVars, taskVars>>
  PROVE  Effect
<1> DEFINE t == IF RowOf(w).cancellation_requested
                THEN [worker[w] EXCEPT !.outcome = "cancelled"]
                ELSE [worker[w] EXCEPT !.pc = "committing"]
<1>1. /\ IInv' /\ worker[w].pc = "settling" /\ worker[w].outcome = "done"
      /\ UNCHANGED jobs /\ worker' = [worker EXCEPT ![w] = t]
  BY ReadBeforeSuccessKeeps DEF HInv, ReadBeforeSuccess
<1>2. /\ t.job = worker[w].job /\ t.attempt = worker[w].attempt
      /\ \/ t.pc = "settling" /\ t.outcome = "cancelled"
         \/ t.pc = "committing" /\ t.outcome = "done"
  BY <1>1 DEF HInv, IInv, TypeOK, WorkerState
<1> HIDE DEF t
<1>3. Resumes(worker[w], t)
  BY <1>1, <1>2 DEF Resumes, Active
<1> QED BY <1>1, <1>2, <1>3, QueueTurnOf, RowsUnchanged

LEMMA QueueOnlyEffect ==
  ASSUME HInv, QueueOnly, UNCHANGED taskVars
  PROVE  Effect
<1>1. UNCHANGED experimentVars
  BY DEF QueueOnly
<1> QED
  BY <1>1, RequestCancellationEffect, StartEffect, PollEffect, RecoverEffect,
     HeartbeatEffect, ReportEffect, FailureRecordedEffect, ReadBeforeSuccessEffect, TickEffect
  DEF QueueOnly
-----------------------------------------------------------------------------
(* Submission, other jobs' calibrations, claims and crashes *)

\* The frame of a step that is nobody's.
LEMMA NobodysTurn ==
  ASSUME HInv, IInv', HandlersTypeOK', UNCHANGED <<worker, handler, task>>,
         \A j \in Jobs : JobStep(j)
  PROVE  Effect
<1>1. \A j \in Jobs : TableStep(j)
  BY DEF JobStep
<1>2. ASSUME NEW v \in Workers
      PROVE  HolderInv(v)' /\ NotSimulatedAgain(v) /\ Adopts(v)
  <2>1. HolderInv(v)'
    BY <1>1, HolderKept DEF Resumes
  <2> QED BY <2>1 DEF NotSimulatedAgain, Adopts, RefusesOwnResult
<1> QED BY <1>1, <1>2 DEF Effect, HInv, JobStep

\* A submitted row: the job was absent, so nothing else names it.
LEMMA SubmittedRow ==
  ASSUME HInv, NEW j \in Jobs, Submit(j)
  PROVE  /\ jobs[j].status = "absent" /\ kind[j] = "none" /\ experiments[j] = NoExperiment
         /\ resources[j].by \in {"nobody", "job"}
         /\ jobs'[j].status = "queued"
         /\ \A i \in Jobs \ {j} : jobs'[i] = jobs[i]
<1>1. jobs' = [jobs EXCEPT ![j] = NewRecord(clock)] /\ jobs \in [Jobs -> JobRow]
  BY DEF Submit, HInv, IInv, TypeOK
<1>2. NewRecord(clock).status = "queued"
  BY DEF NewRecord, Absent
<1> QED BY <1>1, <1>2 DEF Submit, HInv, JobInv

\* What the creation of a job, of whatever kind, does to the tables.
LEMMA CreatedEffect ==
  ASSUME HInv, NEW j \in Jobs, Submit(j), NEW k \in Kinds, kind' = [kind EXCEPT ![j] = k],
         HandlersTypeOK', UNCHANGED <<handler, task, resources, linked, published>>,
         \A i \in Jobs \ {j} : experiments'[i] = experiments[i]
  PROVE  Effect
<1>1. IInv' /\ UNCHANGED worker
  BY SubmitKeeps DEF HInv, Submit
<1>2. kind \in [Jobs -> Kinds \cup {"none"}]
  BY DEF HInv, HandlersTypeOK
<1>3. ASSUME NEW i \in Jobs
      PROVE  JobStep(i)
  <2>1. CASE i = j
    <3>1. kind'[i] = k /\ k # "none" /\ jobs'[i].status = "queued"
      BY <1>2, <2>1, SubmittedRow DEF Kinds
    <3>2. TableStep(i)
      BY <2>1, SubmittedRow DEF TableStep, NoExperiment
    <3>3. JobInv(i)'
      BY <2>1, <3>1, SubmittedRow DEF JobInv
    <3>4. Linked(i)'
      BY <3>1 DEF Linked
    <3> QED BY <3>2, <3>3, <3>4 DEF JobStep
  <2>2. CASE i # j
    <3>1. kind'[i] = kind[i] /\ jobs'[i] = jobs[i] /\ experiments'[i] = experiments[i]
      BY <1>2, <2>2, SubmittedRow
    <3>2. TableStep(i) /\ RowStep(i)
      BY <3>1 DEF TableStep, RowStep
    <3> QED BY <3>1, <3>2, JobKept DEF HInv, JobInv
  <2> QED BY <2>1, <2>2
<1> QED BY <1>1, <1>3, NobodysTurn

LEMMA CreateTaskEffect ==
  ASSUME HInv, NEW j \in Jobs, CreateTask(j)
  PROVE  Effect
<1>1. PICK k \in Kinds \ {"experiment"}, ok \in BOOLEAN :
        kind' = [kind EXCEPT ![j] = k] /\ valid' = [valid EXCEPT ![j] = ok]
  BY DEF CreateTask
<1>2. IInv'
  BY SubmitKeeps DEF CreateTask, HInv
<1>3. HandlersTypeOK'
  BY <1>1, <1>2 DEF CreateTask, HInv, IInv, HandlersTypeOK, ExperimentTypeOK, experimentVars
<1> QED BY <1>1, <1>3, CreatedEffect DEF CreateTask, experimentVars

LEMMA CreateExperimentJobEffect ==
  ASSUME HInv, NEW j \in Jobs, CreateExperimentJob(j)
  PROVE  Effect
<1> DEFINE x == [experiments[j] EXCEPT !.status = "queued"]
<1>1. Submit(j) /\ experiments \in [Jobs -> ExperimentRow]
  BY DEF CreateExperimentJob, CreateExperiment, HInv, HandlersTypeOK, ExperimentTypeOK
<1>2. experiments' = [experiments EXCEPT ![j] = x]
  BY DEF CreateExperimentJob, CreateExperiment
<1>3. x \in ExperimentRow /\ RowAllowed(x)
  <2>1. /\ experiments[j] \in ExperimentRow /\ ~experiments[j].started
        /\ experiments[j].digest = 0 /\ experiments[j].error = "none"
    BY <1>1, SubmittedRow DEF NoExperiment
  <2>2. x \in ExperimentRow
    BY <2>1 DEF ExperimentRow
  <2>3. x.status = "queued" /\ ~x.started /\ x.digest = 0 /\ x.error = "none"
    BY <2>1 DEF ExperimentRow
  <2> HIDE DEF x
  <2> QED BY <2>2, <2>3 DEF RowAllowed
<1>4. IInv' /\ kind' = [kind EXCEPT ![j] = "experiment"] /\ "experiment" \in Kinds
  BY <1>1, SubmitKeeps DEF CreateExperimentJob, HInv, Kinds
<1> HIDE DEF x
<1>5. HandlersTypeOK'
  <2>1. TypeOK'
    BY <1>4 DEF IInv
  <2>2. experiments' \in [Jobs -> ExperimentRow]
    BY <1>1, <1>2, <1>3
  <2>3. \A i \in Jobs : experiments'[i].status # "absent" => RowAllowed(experiments'[i])
    BY <1>1, <1>2, <1>3 DEF HInv, HandlersTypeOK, ExperimentTypeOK
  <2>4. ExperimentTypeOK'
    BY <2>1, <2>2, <2>3
       DEF CreateExperimentJob, CreateExperiment, HInv, HandlersTypeOK, ExperimentTypeOK
  <2> QED BY <1>4, <2>4 DEF CreateExperimentJob, HInv, HandlersTypeOK
<1>6. \A i \in Jobs \ {j} : experiments'[i] = experiments[i]
  BY <1>1, <1>2
<1> QED BY <1>1, <1>4, <1>5, <1>6, CreatedEffect DEF CreateExperimentJob, CreateExperiment

LEMMA OtherCalibratesEffect ==
  ASSUME HInv, NEW j \in Jobs, OtherCalibrates(j)
  PROVE  Effect
<1>1. PICK by \in {"other", "other_dataset"} :
        resources' = [resources EXCEPT ![j].by = by]
  BY DEF OtherCalibrates
<1>2. /\ kind[j] = "calibration" /\ resources[j].by = "nobody"
      /\ UNCHANGED <<jobs, worker, clock, experiments, handler, published,
                     kind, valid, task, linked>>
  BY DEF OtherCalibrates, allVars, vars, experimentVars
<1>3. resources \in [Jobs -> Resource]
  BY DEF HInv, HandlersTypeOK
<1> DEFINE x == [resources[j] EXCEPT !.by = by]
<1>4. resources' = [resources EXCEPT ![j] = x] /\ x \in Resource
  BY <1>1, <1>3 DEF Resource
<1> HIDE DEF x
<1>5. IInv'
  BY <1>2 DEF HInv, IInv, TypeOK, WorkerInv, OneWorkerPerAttempt, Holding, RowOf
<1>6. HandlersTypeOK'
  BY <1>2, <1>3, <1>4, <1>5 DEF HInv, IInv, HandlersTypeOK, ExperimentTypeOK
<1>7. ASSUME NEW i \in Jobs
      PROVE  JobStep(i)
  <2>1. TableStep(i)
    BY <1>2, <1>3, <1>4 DEF TableStep
  <2>2. RowStep(i)
    BY <1>2 DEF RowStep
  <2>3. kind[i] # "calibration" => resources'[i].by \in {"nobody", "job"}
    BY <1>2, <1>3, <1>4 DEF HInv, JobInv
  <2> QED BY <1>2, <2>1, <2>2, <2>3, JobKept
<1> QED BY <1>2, <1>5, <1>6, <1>7, NobodysTurn

\* A thread that begins or gives up a claim.
LEMMA FreshTurn ==
  ASSUME HInv, IInv', NEW w \in Workers, NEW t,
         worker' = [worker EXCEPT ![w] = t],
         handler' = [handler EXCEPT ![w] = Fresh],
         task' = [task EXCEPT ![w] = NewTask],
         UNCHANGED <<experiments, published, kind, valid, resources, linked>>,
         \A j \in Jobs : RowStep(j),
         t.outcome = "none", t.pc # "committing"
  PROVE  Effect
<1>1. /\ worker \in [Workers -> WorkerState] /\ handler \in [Workers -> HandlerState]
      /\ task \in [Workers -> TaskState]
  BY DEF HInv, IInv, TypeOK, HandlersTypeOK, ExperimentTypeOK
<1>2. Fresh \in HandlerState /\ NewTask \in TaskState
  BY AttemptsAssumption
     DEF Fresh, HandlerState, NewTask, TaskState, Resource, NoResource
<1>3. HandlersTypeOK'
  BY <1>1, <1>2 DEF HInv, IInv, HandlersTypeOK, ExperimentTypeOK
<1>4. ASSUME NEW j \in Jobs
      PROVE  JobStep(j)
  <2>1. TableStep(j)
    BY DEF TableStep
  <2> QED BY <2>1, JobKept DEF HInv, JobInv
<1>5. /\ worker'[w] = t /\ handler'[w] = Fresh /\ task'[w] = NewTask
      /\ \A v \in Workers \ {w} : LeavesAlone(v)
  BY <1>1 DEF LeavesAlone
<1>6. HolderInv(w)'
  BY <1>5 DEF HolderInv, ExperimentPlace, TaskPlace, Fresh, NewTask
<1>7. NotSimulatedAgain(w) /\ Adopts(w)
  BY <1>5 DEF NotSimulatedAgain, Adopts, RefusesOwnResult, Fresh
<1> QED BY <1>3, <1>4, <1>5, <1>6, <1>7, HandlerTurn

LEMMA ClaimTaskEffect ==
  ASSUME HInv, NEW w \in Workers, ClaimTask(w)
  PROVE  Effect
<1>1. ClaimNext(w) /\ IInv'
  BY ClaimNextKeeps DEF ClaimTask, ClaimJob, HInv
<1> DEFINE now == worker[w].now
<1>2. PICK j \in Jobs :
        /\ Eligible(jobs[j], now)
        /\ jobs' = [jobs EXCEPT ![j] = ClaimRecord(@, w, now)]
        /\ worker' = [worker EXCEPT
             ![w] = [Resting("executing") EXCEPT
                       !.job = j, !.attempt = jobs[j].attempt_count + 1,
                       !.beating = TRUE, !.due = clock + HeartbeatEvery]]
  BY <1>1 DEF ClaimNext, Candidate
<1> DEFINE s == ClaimRecord(jobs[j], w, now)
           t == [Resting("executing") EXCEPT
                   !.job = j, !.attempt = jobs[j].attempt_count + 1,
                   !.beating = TRUE, !.due = clock + HeartbeatEvery]
<1>3. t.outcome = "none" /\ t.pc = "executing"
  BY DEF Resting
<1>4. jobs[j] \in JobRow /\ jobs[j].status = "queued"
  BY <1>2 DEF HInv, IInv, TypeOK, Eligible
<1>5. s.status = "running"
  BY <1>4 DEF ClaimRecord, JobRow
<1>6. jobs' = [jobs EXCEPT ![j] = s] /\ worker' = [worker EXCEPT ![w] = t]
  BY <1>2
<1> HIDE DEF s, t
<1>7. \A i \in Jobs : RowStep(i)
  BY <1>4, <1>5, <1>6, OneRow
<1> QED BY <1>1, <1>3, <1>6, <1>7, FreshTurn DEF ClaimTask, ClaimJob

LEMMA WorkerDiesEffect ==
  ASSUME HInv, NEW w \in Workers, WorkerDies(w), task' = [task EXCEPT ![w] = NewTask],
         UNCHANGED <<kind, valid, resources, linked>>
  PROVE  Effect
<1>1. IInv' /\ worker' = [worker EXCEPT ![w] = Resting("dead")] /\ UNCHANGED jobs
  BY CrashKeeps DEF WorkerDies, Crash, HInv
<1>2. Resting("dead").outcome = "none" /\ Resting("dead").pc # "committing"
  BY RestingColumns
<1> QED BY <1>1, <1>2, RowsUnchanged, FreshTurn DEF WorkerDies
-----------------------------------------------------------------------------
(* The experiment handler *)

\* A handler that answers, or fails, ends its thread's execution; unlike
\* HandlerReturns it may do so before the last stage, or again in cleaning.
LEMMA EndingKeeps ==
  ASSUME HInv, NEW w \in Workers, NEW outcome \in {"done", "retryable", "fatal"},
         EndHandler(w, outcome), worker[w].pc \in {"executing", "ended"},
         UNCHANGED <<jobs, clock>>
  PROVE  IInv'
<1> DEFINE t == [worker[w] EXCEPT !.pc = "ended", !.outcome = outcome]
<1>1. /\ IInv /\ worker[w] \in WorkerState /\ WorkerInv(w) /\ clock' \in Nat
      /\ worker' = [worker EXCEPT ![w] = t]
  BY DEF HInv, IInv, TypeOK, EndHandler
<1>2. "ended" \in Places /\ outcome \in Outcomes
  BY DEF Places, Outcomes
<1>3. t \in WorkerState
  BY <1>1, <1>2 DEF WorkerState
<1>4. Continues(w, worker[w], t)
  BY <1>1 DEF Continues, Sound, Active, WorkerInv, WorkerState, RowOf
<1>5. WorkersStep
  BY <1>1, <1>3, <1>4, OneWorkerStep
<1> QED BY <1>1, <1>5, JobsUnchanged, StepKeepsInvariant

LEMMA VarsKeep ==
  ASSUME HInv, UNCHANGED vars
  PROVE  IInv'
BY NextPreserves DEF HInv

\* What the invariant says of a thread whose job is an experiment.
LEMMA ExperimentHolder ==
  ASSUME HInv, NEW w \in Workers, KindOf(w) = "experiment"
  PROVE  /\ worker[w].pc \in Active
         /\ JobOf(w) \in Jobs /\ kind[JobOf(w)] = "experiment"
         /\ jobs[JobOf(w)].status # "absent"
         /\ ExperimentPlace(w)
         /\ worker[w].pc = "committing" => worker[w].outcome = "done"
         /\ worker[w].attempt \in 1..MaxAttempts
         /\ ExperimentOf(w) = experiments[JobOf(w)] /\ ExperimentOf(w) \in ExperimentRow
         /\ ExperimentOf(w).status # "absent" => RowAllowed(ExperimentOf(w))
         /\ handler[w] \in HandlerState
<1>1. worker[w].pc \in Active /\ kind[JobOf(w)] = "experiment"
  BY DEF KindOf, Holding, Active
<1>2. JobOf(w) \in Jobs /\ ExperimentOf(w) = experiments[JobOf(w)]
  BY <1>1, HeldJob DEF ExperimentOf, JobOf
<1>3. /\ ExperimentOf(w) \in ExperimentRow
      /\ ExperimentOf(w).status # "absent" => RowAllowed(ExperimentOf(w))
      /\ handler[w] \in HandlerState
  BY <1>2 DEF HInv, HandlersTypeOK, ExperimentTypeOK
<1> QED BY <1>1, <1>2, <1>3, HeldJob DEF HInv, HolderInv

\* Only the experiment of the thread's job was written, if any, by a flush
\* that the CHECK constraint let through and that left a final status alone.
OwnExperiment(w) ==
  /\ experiments' \in [Jobs -> ExperimentRow]
  /\ \A i \in Jobs \ {JobOf(w)} : experiments'[i] = experiments[i]
  /\ \/ experiments'[JobOf(w)] = experiments[JobOf(w)]
     \/ /\ RowAllowed(experiments'[JobOf(w)])
        /\ experiments[JobOf(w)].status \in {"completed", "failed"} =>
             experiments'[JobOf(w)].status = experiments[JobOf(w)].status

LEMMA NothingFlushed ==
  ASSUME HInv, UNCHANGED experiments, NEW w \in Workers
  PROVE  OwnExperiment(w)
BY DEF OwnExperiment, HInv, HandlersTypeOK, ExperimentTypeOK

\* The columns a flush leaves alone contradict any other final status.
LEMMA FlushTypes ==
  ASSUME NEW x \in ExperimentRow
  PROVE  /\ Claimed(x) \in ExperimentRow
         /\ Claimed(x).status = "running"
         /\ Claimed(x).digest = x.digest /\ Claimed(x).error = x.error
         /\ Reset(x) \in ExperimentRow
         /\ Reset(x).status = "queued"
         /\ Reset(x).digest = x.digest /\ Reset(x).error = x.error
         /\ \A d \in 1..MaxAttempts :
              /\ MarkCompleted(x, d) \in ExperimentRow
              /\ MarkCompleted(x, d).status = "completed"
              /\ MarkCompleted(x, d).error = x.error
         /\ \A outcome :
              /\ MarkFailed(x, ErrorOf(outcome)) \in ExperimentRow
              /\ MarkFailed(x, ErrorOf(outcome)).status = "failed"
              /\ MarkFailed(x, ErrorOf(outcome)).digest = x.digest
<1>1. TRUE \in BOOLEAN /\ FALSE \in BOOLEAN
  OBVIOUS
<1>2. /\ Claimed(x) \in ExperimentRow /\ Claimed(x).status = "running"
      /\ Claimed(x).digest = x.digest /\ Claimed(x).error = x.error
  BY <1>1 DEF Claimed, ExperimentRow
<1>3. /\ Reset(x) \in ExperimentRow /\ Reset(x).status = "queued"
      /\ Reset(x).digest = x.digest /\ Reset(x).error = x.error
  BY <1>1 DEF Reset, ExperimentRow
<1>4. ASSUME NEW d \in 1..MaxAttempts
      PROVE  /\ MarkCompleted(x, d) \in ExperimentRow
             /\ MarkCompleted(x, d).status = "completed"
             /\ MarkCompleted(x, d).error = x.error
  <2>1. d \in 0..MaxAttempts
    BY AttemptsAssumption
  <2> QED BY <2>1 DEF MarkCompleted, ExperimentRow
<1>5. ASSUME NEW e \in {"experiment_cancelled", "invalid_experiment_job",
                       "experiment_execution_failed"}
      PROVE  /\ MarkFailed(x, e) \in ExperimentRow
             /\ MarkFailed(x, e).status = "failed"
             /\ MarkFailed(x, e).digest = x.digest
  BY DEF MarkFailed, ExperimentRow
<1>6. \A outcome : ErrorOf(outcome) \in
        {"experiment_cancelled", "invalid_experiment_job", "experiment_execution_failed"}
  BY DEF ErrorOf
<1> QED BY <1>2, <1>3, <1>4, <1>5, <1>6

LEMMA Flushed ==
  ASSUME HInv, NEW w \in Workers, KindOf(w) = "experiment", NEW row, Writes(w, row),
         \/ row = Claimed(ExperimentOf(w))
         \/ row = Reset(ExperimentOf(w))
         \/ row = MarkCompleted(ExperimentOf(w), worker[w].attempt)
         \/ row = MarkFailed(ExperimentOf(w), ErrorOf(worker[w].outcome))
  PROVE  OwnExperiment(w) /\ experiments'[JobOf(w)] = row
<1> DEFINE x == ExperimentOf(w)
<1>1. /\ JobOf(w) \in Jobs /\ x = experiments[JobOf(w)] /\ x \in ExperimentRow
      /\ x.status # "absent" => RowAllowed(x)
      /\ worker[w].attempt \in 1..MaxAttempts
  BY ExperimentHolder
<1>2. /\ RowAllowed(row) /\ experiments' = [experiments EXCEPT ![JobOf(w)] = row]
      /\ experiments \in [Jobs -> ExperimentRow]
  BY DEF Writes, JobOf, HInv, HandlersTypeOK, ExperimentTypeOK
<1> HIDE DEF x
<1>3. row \in ExperimentRow
  BY <1>1, FlushTypes DEF x
<1>4. \/ row.status = "running" /\ row.digest = x.digest /\ row.error = x.error
      \/ row.status = "queued" /\ row.digest = x.digest /\ row.error = x.error
      \/ row.status = "completed" /\ row.error = x.error
      \/ row.status = "failed" /\ row.digest = x.digest
  BY <1>1, FlushTypes DEF x
<1>5. x.status \in {"completed", "failed"} => row.status = x.status
  BY <1>1, <1>2, <1>4 DEF RowAllowed
<1> QED BY <1>1, <1>2, <1>3, <1>5 DEF OwnExperiment

\* The frame of the handler's steps.
LEMMA ExperimentTurn ==
  ASSUME HInv, NEW w \in Workers, KindOf(w) = "experiment", IInv',
         UNCHANGED <<jobs, published, taskVars>>,
         handler' \in [Workers -> HandlerState],
         \A v \in Workers \ {w} : worker'[v] = worker[v] /\ handler'[v] = handler[v],
         OwnExperiment(w),
         worker'[w].pc \in Active =>
           /\ worker'[w].job = worker[w].job
           /\ worker'[w].pc = "committing" => worker'[w].outcome = "done"
           /\ ExperimentPlace(w)',
         NotSimulatedAgain(w)
  PROVE  Effect
<1>1. JobOf(w) \in Jobs /\ kind[JobOf(w)] = "experiment" /\ jobs[JobOf(w)].status # "absent"
  BY ExperimentHolder
<1>2. HandlersTypeOK'
  <2>1. \A i \in Jobs : experiments'[i].status # "absent" => RowAllowed(experiments'[i])
    BY <1>1 DEF OwnExperiment, HInv, HandlersTypeOK, ExperimentTypeOK
  <2> QED BY <2>1
    DEF OwnExperiment, HInv, IInv, HandlersTypeOK, ExperimentTypeOK, taskVars
<1>3. ASSUME NEW i \in Jobs
      PROVE  JobStep(i)
  <2>1. TableStep(i) /\ RowStep(i)
    BY <1>1 DEF TableStep, RowStep, OwnExperiment, taskVars
  <2>2. jobs[i].status = "absent" => experiments'[i] = experiments[i]
    BY <1>1 DEF OwnExperiment
  <2> QED BY <2>1, <2>2, JobKept DEF HInv, JobInv, taskVars
<1>4. \A v \in Workers \ {w} : LeavesAlone(v)
  BY DEF LeavesAlone, taskVars
<1>5. HolderInv(w)'
  BY <1>1 DEF HolderInv, JobOf, taskVars
<1>6. Adopts(w)
  BY DEF Adopts
<1> QED BY <1>2, <1>3, <1>4, <1>5, <1>6, HandlerTurn
LEMMA LeftColumns ==
  ASSUME HInv, NEW w \in Workers, NEW at \in {"loaded", "over"}, Leave(w, at)
  PROVE  /\ handler' \in [Workers -> HandlerState]
         /\ handler'[w].at = at
         /\ handler'[w].digest = handler[w].digest
         /\ \A v \in Workers \ {w} : handler'[v] = handler[v]
<1> DEFINE h == [handler[w] EXCEPT !.at = at]
<1>1. handler \in [Workers -> HandlerState] /\ handler' = [handler EXCEPT ![w] = h]
  BY DEF Leave, HInv, HandlersTypeOK, ExperimentTypeOK
<1>2. h \in HandlerState /\ h.at = at /\ h.digest = handler[w].digest
  BY <1>1 DEF HandlerState
<1> HIDE DEF h
<1> QED BY <1>1, <1>2

LEMMA ReadColumns ==
  ASSUME HInv, NEW w \in Workers, KindOf(w) = "experiment",
         NEW at \in {"loading", "completing", "cleaning"}, ReadExperiment(w, at)
  PROVE  /\ handler' \in [Workers -> HandlerState]
         /\ handler'[w].at = at
         /\ handler'[w].seen = ExperimentOf(w).status
         /\ handler'[w].digest = ExperimentOf(w).digest
         /\ \A v \in Workers \ {w} : handler'[v] = handler[v]
         /\ UNCHANGED <<vars, experiments, published>>
<1> DEFINE h == [at |-> at, seen |-> ExperimentOf(w).status, digest |-> ExperimentOf(w).digest]
<1>1. handler \in [Workers -> HandlerState] /\ handler' = [handler EXCEPT ![w] = h]
  BY DEF ReadExperiment, HInv, HandlersTypeOK, ExperimentTypeOK
<1>2. h \in HandlerState
  BY ExperimentHolder DEF HandlerState, ExperimentRow
<1> HIDE DEF h
<1> QED BY <1>1, <1>2 DEF h, ReadExperiment

LEMMA CheckpointEffect ==
  ASSUME HInv, NEW w \in Workers, KindOf(w) = "experiment", Checkpoint(w), UNCHANGED taskVars
  PROVE  Effect
<1>1. /\ IInv' /\ UNCHANGED <<jobs, clock, experimentVars>>
      /\ worker[w].pc = "executing" /\ handler[w].at \in {"new", "loaded"}
  BY ProbeKeeps DEF HInv, Checkpoint, Probe
<1>2. /\ worker'[w].pc \in {"ended", "reporting"} /\ worker'[w].job = worker[w].job
      /\ worker'[w].outcome \in {worker[w].outcome, "cancelled"}
      /\ \A v \in Workers \ {w} : worker'[v] = worker[v]
  <2>1. CASE EndHandler(w, "cancelled")
    BY <2>1, EndedColumns
  <2>2. CASE worker' = [worker EXCEPT ![w].pc = "reporting"]
    BY <2>2 DEF HInv, IInv, TypeOK, WorkerState
  <2> QED BY <2>1, <2>2 DEF Checkpoint, Probe
<1>3. worker[w].outcome # "done"
  BY <1>1, ExperimentHolder DEF ExperimentPlace
<1>4. ExperimentPlace(w)' /\ NotSimulatedAgain(w)
  BY <1>1, <1>2, <1>3 DEF ExperimentPlace, NotSimulatedAgain, experimentVars
<1> QED BY <1>1, <1>2, <1>4, NothingFlushed, ExperimentTurn
       DEF experimentVars, HInv, HandlersTypeOK, ExperimentTypeOK

LEMMA RaiseEffect ==
  ASSUME HInv, NEW w \in Workers, KindOf(w) = "experiment", Raise(w), UNCHANGED taskVars
  PROVE  Effect
<1>1. /\ IInv' /\ UNCHANGED <<jobs, clock, experimentVars>>
      /\ handler[w].at \in {"new", "loaded"}
  BY HandlerRaisesKeeps DEF HInv, Raise, HandlerRaises
<1>2. PICK outcome \in {"retryable", "fatal"} : EndHandler(w, outcome)
  BY DEF Raise, HandlerRaises
<1>3. /\ worker'[w].pc = "ended" /\ worker'[w].outcome # "done"
      /\ worker'[w].job = worker[w].job
      /\ \A v \in Workers \ {w} : worker'[v] = worker[v]
  BY <1>2, EndedColumns
<1>4. ExperimentPlace(w)' /\ NotSimulatedAgain(w)
  BY <1>1, <1>3 DEF ExperimentPlace, NotSimulatedAgain, experimentVars
<1> QED BY <1>1, <1>3, <1>4, NothingFlushed, ExperimentTurn
       DEF experimentVars, HInv, HandlersTypeOK, ExperimentTypeOK

\* A read is an answer only if the experiment is completed now, and then it
\* is completed for good.
LEMMA ReadEffect ==
  ASSUME HInv, NEW w \in Workers, KindOf(w) = "experiment",
         LoadRead(w) \/ CompleteRead(w) \/ CleanupRead(w), UNCHANGED taskVars
  PROVE  Effect
<1>1. PICK at \in {"loading", "completing", "cleaning"} :
        /\ ReadExperiment(w, at)
        /\ handler[w].at # "loading" \/ at = "cleaning"
        /\ \/ at # "cleaning" /\ worker[w].pc = "executing" /\ handler[w].at # "over"
           \/ at = "cleaning" /\ worker[w].pc = "ended" /\ worker[w].outcome # "done"
  BY DEF LoadRead, CompleteRead, CleanupRead
<1>2. /\ handler' \in [Workers -> HandlerState]
      /\ handler'[w].at = at
      /\ handler'[w].seen = ExperimentOf(w).status
      /\ handler'[w].digest = ExperimentOf(w).digest
      /\ \A v \in Workers \ {w} : handler'[v] = handler[v]
      /\ UNCHANGED <<vars, experiments, published>>
  BY <1>1, ReadColumns
<1>3. UNCHANGED <<jobs, worker, clock>> /\ ExperimentOf(w)' = ExperimentOf(w) /\ IInv'
  BY <1>2, VarsKeep DEF vars, ExperimentOf
<1>4. worker[w].outcome # "done"
  BY <1>1, ExperimentHolder DEF ExperimentPlace
<1>5. handler'[w].seen = "completed" => Answered(w)'
  <2> SUFFICES ASSUME ExperimentOf(w).status = "completed" PROVE Answered(w)'
    BY <1>2
  <2>1. ExperimentOf(w).digest # 0
    BY ExperimentHolder DEF RowAllowed
  <2> QED BY <1>2, <1>3, <2>1 DEF Answered
<1>6. ExperimentPlace(w)' /\ NotSimulatedAgain(w)
  BY <1>1, <1>2, <1>3, <1>4, <1>5 DEF ExperimentPlace, NotSimulatedAgain
<1>7. worker[w].pc = "committing" => worker[w].outcome = "done"
  BY ExperimentHolder
<1> QED BY <1>2, <1>3, <1>6, <1>7, NothingFlushed, ExperimentTurn

\* The transactions that end without a write.
LEMMA RefusedEffect ==
  ASSUME HInv, NEW w \in Workers, KindOf(w) = "experiment",
         \/ LoadCompleted(w) \/ LoadRefused(w) \/ LoadConflict(w)
         \/ CompleteFails(w) \/ CleanupFails(w),
         UNCHANGED taskVars
  PROVE  Effect
<1>1. ExperimentPlace(w) /\ worker[w].pc \in Active
  BY ExperimentHolder
<1>2. PICK outcome \in {"done", "retryable", "fatal"}, at \in {"loaded", "over"} :
        /\ EndHandler(w, outcome) /\ Leave(w, at) /\ UNCHANGED <<jobs, clock, experiments>>
        /\ worker[w].pc \in {"executing", "ended"}
        /\ outcome = "done" => at = "over" /\ Answered(w)
  BY <1>1 DEF LoadCompleted, LoadRefused, LoadConflict, CompleteFails, CleanupFails,
              ExperimentPlace
<1>3. IInv' /\ UNCHANGED published
  BY <1>2, EndingKeeps DEF Leave
<1>4. /\ worker'[w].pc = "ended" /\ worker'[w].outcome = outcome
      /\ worker'[w].job = worker[w].job
      /\ \A v \in Workers \ {w} : worker'[v] = worker[v]
  BY <1>2, EndedColumns
<1>5. /\ handler' \in [Workers -> HandlerState]
      /\ handler'[w].at = at /\ handler'[w].digest = handler[w].digest
      /\ \A v \in Workers \ {w} : handler'[v] = handler[v]
  BY <1>2, LeftColumns
<1>6. Answered(w) => Answered(w)'
  BY <1>2, <1>4, <1>5 DEF Answered, ExperimentOf
<1>7. ExperimentPlace(w)' /\ NotSimulatedAgain(w)
  BY <1>2, <1>4, <1>5, <1>6 DEF ExperimentPlace, NotSimulatedAgain
<1> QED BY <1>2, <1>3, <1>4, <1>5, <1>7, NothingFlushed, ExperimentTurn

\* A completed experiment cannot be claimed again: the flush would leave its
\* digest in a row that is running.
LEMMA LoadClaimsEffect ==
  ASSUME HInv, NEW w \in Workers, KindOf(w) = "experiment", LoadClaims(w), UNCHANGED taskVars
  PROVE  Effect
<1>1. /\ handler[w].at = "loading" /\ Leave(w, "loaded") /\ UNCHANGED vars
      /\ Writes(w, Claimed(ExperimentOf(w)))
  BY DEF LoadClaims
<1>2. IInv' /\ UNCHANGED <<jobs, worker, clock, published>>
  BY <1>1, VarsKeep DEF vars, Leave
<1>3. OwnExperiment(w)
  BY <1>1, Flushed
<1>4. /\ handler' \in [Workers -> HandlerState] /\ handler'[w].at = "loaded"
      /\ \A v \in Workers \ {w} : handler'[v] = handler[v]
  BY <1>1, LeftColumns
<1>5. worker[w].outcome # "done" /\ (worker[w].pc = "committing" => worker[w].outcome = "done")
  BY <1>1, ExperimentHolder DEF ExperimentPlace
<1>6. ExperimentOf(w).status # "completed"
  <2>1. ExperimentOf(w) \in ExperimentRow /\ RowAllowed(Claimed(ExperimentOf(w)))
    BY <1>1, ExperimentHolder DEF Writes
  <2>2. ExperimentOf(w).digest = 0
    BY <2>1, FlushTypes DEF RowAllowed
  <2> QED BY <2>2, ExperimentHolder DEF RowAllowed
<1>7. ExperimentPlace(w)' /\ NotSimulatedAgain(w)
  BY <1>2, <1>4, <1>5, <1>6 DEF ExperimentPlace, NotSimulatedAgain
<1> QED BY <1>2, <1>3, <1>4, <1>5, <1>7, ExperimentTurn

LEMMA CompleteEffect ==
  ASSUME HInv, NEW w \in Workers, KindOf(w) = "experiment", Complete(w), UNCHANGED taskVars
  PROVE  Effect
<1> DEFINE row == MarkCompleted(ExperimentOf(w), worker[w].attempt)
           h == [handler[w] EXCEPT !.at = "over", !.digest = worker[w].attempt]
<1>1. /\ handler[w].at = "completing" /\ Writes(w, row) /\ EndHandler(w, "done")
      /\ UNCHANGED <<jobs, clock, published>>
  BY DEF Complete
<1>2. handler \in [Workers -> HandlerState] /\ handler' = [handler EXCEPT ![w] = h]
  BY DEF Complete, HInv, HandlersTypeOK, ExperimentTypeOK
<1>3. worker[w].attempt \in 1..MaxAttempts /\ worker[w].pc = "executing"
  BY <1>1, ExperimentHolder DEF ExperimentPlace
<1>4. h \in HandlerState /\ h.at = "over" /\ h.digest # 0
  <2>1. worker[w].attempt \in 0..MaxAttempts /\ worker[w].attempt # 0
    BY <1>3, AttemptsAssumption
  <2>2. handler[w] \in HandlerState
    BY <1>2
  <2> QED BY <2>1, <2>2 DEF HandlerState
<1>5. IInv'
  BY <1>1, <1>3, EndingKeeps
<1>6. /\ worker'[w].pc = "ended" /\ worker'[w].outcome = "done"
      /\ worker'[w].job = worker[w].job
      /\ \A v \in Workers \ {w} : worker'[v] = worker[v]
  BY <1>1, EndedColumns
<1>7. row.status = "completed"
  BY <1>3, ExperimentHolder, FlushTypes
<1> HIDE DEF row, h
<1>8. OwnExperiment(w) /\ experiments'[JobOf(w)] = row
  BY <1>1, Flushed DEF row
<1>9. /\ handler' \in [Workers -> HandlerState] /\ handler'[w].at = "over"
      /\ handler'[w].digest # 0
      /\ \A v \in Workers \ {w} : handler'[v] = handler[v]
  BY <1>2, <1>4
<1>10. Answered(w)'
  BY <1>6, <1>7, <1>8, <1>9 DEF Answered, ExperimentOf, JobOf
<1>11. ExperimentPlace(w)' /\ NotSimulatedAgain(w)
  BY <1>6, <1>9, <1>10 DEF ExperimentPlace, NotSimulatedAgain
<1> QED BY <1>1, <1>5, <1>6, <1>8, <1>9, <1>11, ExperimentTurn

LEMMA CleanupEffect ==
  ASSUME HInv, NEW w \in Workers, KindOf(w) = "experiment", Cleanup(w), UNCHANGED taskVars
  PROVE  Effect
<1>1. /\ handler[w].at = "cleaning" /\ Leave(w, "over") /\ UNCHANGED vars
      /\ IF Applies(w) THEN Writes(w, Cleaned(w)) ELSE UNCHANGED experiments
  BY DEF Cleanup
<1>2. IInv' /\ UNCHANGED <<jobs, worker, clock, published>>
  BY <1>1, VarsKeep DEF vars, Leave
<1>3. OwnExperiment(w)
  <2>1. \/ Cleaned(w) = Reset(ExperimentOf(w))
        \/ Cleaned(w) = MarkFailed(ExperimentOf(w), ErrorOf(worker[w].outcome))
    BY DEF Cleaned
  <2> QED BY <1>1, <2>1, Flushed, NothingFlushed
<1>4. /\ handler' \in [Workers -> HandlerState] /\ handler'[w].at = "over"
      /\ \A v \in Workers \ {w} : handler'[v] = handler[v]
  BY <1>1, LeftColumns
<1>5. worker[w].outcome # "done" /\ (worker[w].pc = "committing" => worker[w].outcome = "done")
  BY <1>1, ExperimentHolder DEF ExperimentPlace
<1>6. ExperimentPlace(w)' /\ NotSimulatedAgain(w)
  BY <1>2, <1>4, <1>5 DEF ExperimentPlace, NotSimulatedAgain
<1> QED BY <1>2, <1>3, <1>4, <1>5, <1>6, ExperimentTurn
LEMMA SettledColumns ==
  ASSUME HInv, NEW w \in Workers, Settle(w)
  PROVE  /\ IInv' /\ UNCHANGED <<jobs, clock>>
         /\ worker[w].pc = "ended"
         /\ \A v \in Workers \ {w} : worker'[v] = worker[v]
         /\ worker'[w].pc \in Active =>
              /\ worker'[w].pc = "settling" /\ worker'[w].job = worker[w].job
              /\ worker'[w].attempt = worker[w].attempt
              /\ worker'[w].outcome = worker[w].outcome
         /\ worker'[w].outcome \in {worker[w].outcome, "none"}
<1>1. IInv' /\ worker \in [Workers -> WorkerState]
  BY SettleKeeps DEF HInv, IInv, TypeOK
<1>2. PICK now \in OperationTimes :
        worker' = [worker EXCEPT ![w] =
          IF @.lost
          THEN Resting("idle")
          ELSE [@ EXCEPT !.pc = "settling", !.now = now, !.beating = FALSE]]
  BY DEF Settle
<1>3. CASE worker[w].lost
  <2>1. worker'[w] = Resting("idle") /\ \A v \in Workers \ {w} : worker'[v] = worker[v]
    BY <1>1, <1>2, <1>3
  <2>2. worker'[w].pc = "idle" /\ worker'[w].outcome = "none"
    BY <2>1, RestingColumns
  <2> QED BY <1>1, <2>1, <2>2 DEF Settle, Active
<1>4. CASE ~worker[w].lost
  <2> DEFINE t == [worker[w] EXCEPT !.pc = "settling", !.now = now, !.beating = FALSE]
  <2>1. worker'[w] = t /\ \A v \in Workers \ {w} : worker'[v] = worker[v]
    BY <1>1, <1>2, <1>4
  <2>2. /\ t.pc = "settling" /\ t.job = worker[w].job /\ t.attempt = worker[w].attempt
        /\ t.outcome = worker[w].outcome
    BY <1>1 DEF WorkerState
  <2> HIDE DEF t
  <2> QED BY <1>1, <2>1, <2>2 DEF Settle
<1> QED BY <1>3, <1>4

LEMMA FinishHandlerEffect ==
  ASSUME HInv, NEW w \in Workers, KindOf(w) = "experiment", FinishHandler(w),
         UNCHANGED taskVars
  PROVE  Effect
<1> DEFINE h == IF worker[w].outcome = "done"
                THEN [handler[w] EXCEPT !.seen = "absent"] ELSE Fresh
<1>1. Settle(w) /\ handler[w].at = "over" /\ UNCHANGED <<experiments, published>>
  BY DEF FinishHandler
<1>2. handler \in [Workers -> HandlerState] /\ handler' = [handler EXCEPT ![w] = h]
  BY DEF FinishHandler, HInv, HandlersTypeOK, ExperimentTypeOK
<1>3. /\ h \in HandlerState
      /\ worker[w].outcome = "done" => h.at = "over" /\ h.digest = handler[w].digest
      /\ worker[w].outcome # "done" => h.at = "new"
      /\ h.at # "loaded"
  <2>1. CASE worker[w].outcome = "done"
    BY <1>1, <1>2, <2>1 DEF HandlerState
  <2>2. CASE worker[w].outcome # "done"
    BY <2>2, AttemptsAssumption DEF HandlerState, Fresh
  <2> QED BY <2>1, <2>2
<1> HIDE DEF h
<1>4. /\ handler' \in [Workers -> HandlerState] /\ handler'[w] = h
      /\ \A v \in Workers \ {w} : handler'[v] = handler[v]
  BY <1>2, <1>3
<1>5. /\ IInv' /\ UNCHANGED <<jobs, clock>>
      /\ \A v \in Workers \ {w} : worker'[v] = worker[v]
      /\ worker'[w].pc \in Active =>
           /\ worker'[w].pc = "settling" /\ worker'[w].job = worker[w].job
           /\ worker'[w].outcome = worker[w].outcome
  BY <1>1, SettledColumns
<1>6. ASSUME worker'[w].pc \in Active
      PROVE  ExperimentPlace(w)'
  <2>1. worker[w].outcome = "done" => Answered(w)
    BY ExperimentHolder DEF ExperimentPlace
  <2>2. worker[w].outcome = "done" => Answered(w)'
    BY <1>1, <1>3, <1>4, <1>5, <1>6, <2>1 DEF Answered, ExperimentOf
  <2> QED BY <1>3, <1>4, <1>5, <1>6, <2>2 DEF ExperimentPlace
<1>7. NotSimulatedAgain(w)
  BY <1>3, <1>4 DEF NotSimulatedAgain
<1> QED BY <1>1, <1>4, <1>5, <1>6, <1>7, NothingFlushed, ExperimentTurn

\* The write that ends an attempt with its result.
LEMMA PublishedRow ==
  ASSUME HInv, NEW w \in Workers, Succeed(w)
  PROVE  /\ IInv' /\ worker[w].pc = "committing" /\ worker[w].outcome = "done"
         /\ worker' = [worker EXCEPT ![w] = Resting("idle")]
         /\ JobOf(w) \in Jobs /\ jobs[JobOf(w)].status # "absent"
         /\ \A i \in Jobs \ {JobOf(w)} : RowStep(i)
         /\ OwnsValidLease(RowOf(w), w, worker[w].now) =>
              /\ jobs'[JobOf(w)].status = "succeeded"
              /\ jobs'[JobOf(w)].attempt_count = worker[w].attempt
         /\ ~OwnsValidLease(RowOf(w), w, worker[w].now) => RowStep(JobOf(w))
<1>1. IInv' /\ worker[w].pc = "committing" /\ HolderInv(w)
  BY SucceedKeeps DEF HInv, Succeed
<1>2. /\ JobOf(w) \in Jobs /\ jobs[JobOf(w)] \in JobRow /\ jobs[JobOf(w)].status # "absent"
      /\ RowOf(w) = jobs[JobOf(w)] /\ jobs \in [Jobs -> JobRow]
  BY <1>1, HeldJob DEF Active, RowOf, JobOf, HInv, IInv, TypeOK
<1> DEFINE row == SucceedRow(RowOf(w), worker[w].attempt)
<1>3. WriteAndRest(w, row)
  BY DEF Succeed
<1>4. row.status = "succeeded" /\ row.attempt_count = RowOf(w).attempt_count
  BY <1>2 DEF SucceedRow, ClearLease, JobRow
<1> HIDE DEF row
<1>5. CASE OwnsValidLease(RowOf(w), w, worker[w].now)
  <2>1. jobs' = [jobs EXCEPT ![JobOf(w)] = row]
    BY <1>2, <1>3, <1>5 DEF WriteAndRest, JobOf
  <2>2. RowOf(w).attempt_count = worker[w].attempt
    BY <1>1, <1>5, SettlingFacts DEF HInv
  <2> QED BY <1>1, <1>2, <1>3, <1>4, <1>5, <2>1, <2>2
       DEF WriteAndRest, RowStep, HolderInv, Active
<1>6. CASE ~OwnsValidLease(RowOf(w), w, worker[w].now)
  <2>1. UNCHANGED jobs
    BY <1>2, <1>3, <1>6 DEF WriteAndRest, JobOf
  <2> QED BY <1>1, <1>2, <1>3, <1>6, <2>1 DEF WriteAndRest, RowStep, HolderInv, Active
<1> QED BY <1>5, <1>6

LEMMA PublishSuccessEffect ==
  ASSUME HInv, NEW w \in Workers, KindOf(w) = "experiment", PublishSuccess(w),
         UNCHANGED taskVars
  PROVE  Effect
<1> DEFINE owns == OwnsValidLease(RowOf(w), w, worker[w].now)
           d == handler[w].digest
<1>1. Succeed(w) /\ UNCHANGED experiments
  BY DEF PublishSuccess
<1>2. /\ published \in [Jobs -> 0..MaxAttempts] /\ handler \in [Workers -> HandlerState]
      /\ published' = [published EXCEPT ![JobOf(w)] = IF owns THEN d ELSE published[JobOf(w)]]
      /\ handler' = [handler EXCEPT ![w] = Fresh]
  BY DEF PublishSuccess, HInv, HandlersTypeOK, ExperimentTypeOK, JobOf
<1>3. /\ IInv' /\ worker' = [worker EXCEPT ![w] = Resting("idle")]
      /\ JobOf(w) \in Jobs /\ jobs[JobOf(w)].status # "absent"
      /\ worker[w].outcome = "done"
      /\ \A i \in Jobs \ {JobOf(w)} : RowStep(i)
      /\ owns => jobs'[JobOf(w)].status = "succeeded"
      /\ ~owns => RowStep(JobOf(w))
  BY <1>1, PublishedRow
<1>4. kind[JobOf(w)] = "experiment" /\ Answered(w) /\ d \in 0..MaxAttempts
  BY <1>3, ExperimentHolder DEF ExperimentPlace, HandlerState
<1>5. Fresh \in HandlerState
  BY AttemptsAssumption DEF Fresh, HandlerState
<1>6. /\ worker'[w] = Resting("idle") /\ handler'[w] = Fresh
      /\ \A v \in Workers \ {w} : LeavesAlone(v)
  BY <1>2, <1>3 DEF LeavesAlone, taskVars, HInv, IInv, TypeOK
<1>7. HandlersTypeOK'
  BY <1>1, <1>2, <1>3, <1>4, <1>5
     DEF HInv, IInv, HandlersTypeOK, ExperimentTypeOK, taskVars
<1>8. ASSUME NEW i \in Jobs
      PROVE  JobStep(i)
  <2>1. TableStep(i)
    BY <1>1 DEF TableStep, taskVars
  <2>2. CASE i # JobOf(w) \/ ~owns
    <3>1. published'[i] = published[i] /\ RowStep(i)
      BY <1>2, <1>3, <2>2
    <3> QED BY <1>1, <2>1, <3>1, JobKept DEF HInv, JobInv, taskVars
  <2>3. CASE i = JobOf(w) /\ owns
    <3>1. published'[i] = d /\ jobs'[i].status = "succeeded"
      BY <1>2, <1>3, <2>3
    <3>2. JobInv(i)'
      BY <1>1, <1>4, <2>3, <3>1 DEF JobInv, HInv, taskVars
    <3>3. Linked(i)'
      BY <1>1, <1>4, <2>3, <3>1 DEF Linked, Answered, ExperimentOf, JobOf, taskVars
    <3> QED BY <2>1, <3>2, <3>3 DEF JobStep
  <2> QED BY <2>2, <2>3
<1>9. HolderInv(w)'
  BY <1>6, RestingColumns DEF HolderInv, Active
<1>10. NotSimulatedAgain(w) /\ Adopts(w)
  BY <1>4, <1>6 DEF NotSimulatedAgain, Adopts, Fresh
<1> QED BY <1>3, <1>6, <1>7, <1>8, <1>9, <1>10, HandlerTurn

LEMMA ExperimentEffect ==
  ASSUME HInv, NEW w \in Workers, KindOf(w) = "experiment",
         ExperimentHandler(w) \/ PublishSuccess(w), UNCHANGED taskVars
  PROVE  Effect
BY CheckpointEffect, RaiseEffect, ReadEffect, RefusedEffect, LoadClaimsEffect,
   CompleteEffect, CleanupEffect, FinishHandlerEffect, PublishSuccessEffect
   DEF ExperimentHandler
-----------------------------------------------------------------------------
(* The calibration, optimization and adaptive-comparison handlers *)

TaskKinds == Kinds \ {"experiment"}

LEMMA TaskHolder ==
  ASSUME HInv, NEW w \in Workers, KindOf(w) \in TaskKinds
  PROVE  /\ worker[w].pc \in Active
         /\ JobOf(w) \in Jobs /\ kind[JobOf(w)] = KindOf(w)
         /\ jobs[JobOf(w)].status # "absent"
         /\ TaskPlace(w)
         /\ worker[w].pc = "committing" => worker[w].outcome = "done"
         /\ Computed(w) \in Resource /\ Computed(w).by = "job"
         /\ resources[JobOf(w)] \in Resource
         /\ kind[JobOf(w)] # "calibration" => resources[JobOf(w)].by \in {"nobody", "job"}
         /\ task[w] \in TaskState
<1>1. worker[w].pc \in Active /\ kind[JobOf(w)] = KindOf(w)
  BY DEF KindOf, Holding, Active, TaskKinds, Kinds
<1>2. JobOf(w) \in Jobs /\ worker[w].attempt \in 1..MaxAttempts
  BY <1>1, HeldJob
<1>3. Computed(w) \in Resource /\ Computed(w).by = "job"
  BY <1>2, AttemptsAssumption DEF Computed, Resource
<1>4. /\ resources[JobOf(w)] \in Resource /\ task[w] \in TaskState
      /\ kind[JobOf(w)] # "calibration" => resources[JobOf(w)].by \in {"nobody", "job"}
  BY <1>2 DEF HInv, HandlersTypeOK, JobInv
<1>5. /\ TaskPlace(w)
      /\ worker[w].pc = "committing" => worker[w].outcome = "done"
  BY <1>1 DEF HInv, HolderInv, TaskKinds
<1> QED BY <1>1, <1>2, <1>3, <1>4, <1>5, HeldJob

\* The frame of the handlers' steps: a save only fills the row nobody stored.
LEMMA TaskTurn ==
  ASSUME HInv, NEW w \in Workers, KindOf(w) \in TaskKinds, IInv',
         UNCHANGED <<jobs, experimentVars, kind, valid, linked>>,
         task' \in [Workers -> TaskState],
         \A v \in Workers \ {w} : worker'[v] = worker[v] /\ task'[v] = task[v],
         \/ UNCHANGED resources
         \/ /\ resources[JobOf(w)].by = "nobody"
            /\ resources' = [resources EXCEPT ![JobOf(w)] = Computed(w)],
         worker'[w].pc \in Active =>
           /\ worker'[w].job = worker[w].job
           /\ worker'[w].pc = "committing" => worker'[w].outcome = "done"
           /\ TaskPlace(w)',
         Adopts(w)
  PROVE  Effect
<1>1. /\ JobOf(w) \in Jobs /\ kind[JobOf(w)] # "experiment"
      /\ Computed(w) \in Resource /\ Computed(w).by = "job"
  BY TaskHolder DEF TaskKinds
<1>2. /\ resources \in [Jobs -> Resource] /\ resources' \in [Jobs -> Resource]
      /\ \A i \in Jobs : resources[i].by # "nobody" => resources'[i] = resources[i]
      /\ \A i \in Jobs : resources'[i] = resources[i] \/ resources'[i].by = "job"
  BY <1>1 DEF HInv, HandlersTypeOK
<1>3. HandlersTypeOK'
  BY <1>2 DEF HInv, IInv, HandlersTypeOK, ExperimentTypeOK, experimentVars
<1>4. ASSUME NEW i \in Jobs
      PROVE  JobStep(i)
  <2>1. TableStep(i) /\ RowStep(i)
    BY <1>2 DEF TableStep, RowStep, experimentVars
  <2>2. kind[i] # "calibration" => resources'[i].by \in {"nobody", "job"}
    BY <1>2 DEF HInv, JobInv
  <2> QED BY <2>1, <2>2, JobKept DEF experimentVars
<1>5. \A v \in Workers \ {w} : LeavesAlone(v)
  BY DEF LeavesAlone, experimentVars
<1>6. HolderInv(w)'
  BY <1>1 DEF HolderInv, JobOf
<1>7. NotSimulatedAgain(w)
  BY DEF NotSimulatedAgain, experimentVars
<1> QED BY <1>3, <1>4, <1>5, <1>6, <1>7, HandlerTurn

LEMMA ContinueEffect ==
  ASSUME HInv, NEW w \in Workers, KindOf(w) \in TaskKinds,
         NEW at \in {"missing", "computing", "inserting"}, Continue(w, at),
         worker[w].pc = "executing", task[w].at # "holding"
  PROVE  Effect
<1> DEFINE t == [task[w] EXCEPT !.at = at]
<1>1. /\ UNCHANGED <<vars, experimentVars, kind, valid, resources, linked>>
      /\ task' = [task EXCEPT ![w] = t] /\ task \in [Workers -> TaskState]
  BY DEF Continue, allVars, HInv, HandlersTypeOK
<1>2. IInv' /\ UNCHANGED <<jobs, worker>>
  BY <1>1, VarsKeep DEF vars
<1>3. t \in TaskState /\ t.at = at
  BY <1>1 DEF TaskState
<1> HIDE DEF t
<1>4. /\ task' \in [Workers -> TaskState] /\ task'[w].at = at
      /\ \A v \in Workers \ {w} : task'[v] = task[v]
  BY <1>1, <1>3
<1>5. worker[w].outcome # "done" /\ handler[w].at = "new"
  BY TaskHolder DEF TaskPlace
<1>6. TaskPlace(w)'
  BY <1>1, <1>2, <1>4, <1>5 DEF TaskPlace, experimentVars
<1>7. Adopts(w)
  BY <1>2 DEF Adopts, RefusesOwnResult
<1> QED BY <1>1, <1>2, <1>4, <1>6, <1>7, TaskTurn

LEMMA HoldEffect ==
  ASSUME HInv, NEW w \in Workers, KindOf(w) \in TaskKinds,
         NEW result \in Resource, Hold(w, result), worker[w].pc = "executing",
         \/ UNCHANGED resources
         \/ /\ resources[JobOf(w)].by = "nobody"
            /\ resources' = [resources EXCEPT ![JobOf(w)] = Computed(w)],
         IF KindOf(w) = "adaptive_comparison"
         THEN result = Computed(w)
         ELSE result = resources'[JobOf(w)] /\ result.by \in {"job", "other"}
  PROVE  Effect
<1> DEFINE t == [at |-> "holding", result |-> result]
<1>1. /\ UNCHANGED <<vars, experimentVars, kind, valid, linked>>
      /\ task' = [task EXCEPT ![w] = t] /\ task \in [Workers -> TaskState]
  BY DEF Hold, allVars, HInv, HandlersTypeOK
<1>2. IInv' /\ UNCHANGED <<jobs, worker>>
  BY <1>1, VarsKeep DEF vars
<1>3. t \in TaskState /\ t.at = "holding" /\ t.result = result
  BY DEF TaskState
<1> HIDE DEF t
<1>4. /\ task' \in [Workers -> TaskState] /\ task'[w] = t
      /\ \A v \in Workers \ {w} : task'[v] = task[v]
  BY <1>1, <1>3
<1>5. handler[w].at = "new" /\ kind[JobOf(w)] = KindOf(w)
  BY TaskHolder DEF TaskPlace
<1>6. JobOf(w)' = JobOf(w) /\ Computed(w)' = Computed(w)
  BY <1>2 DEF JobOf, Computed
<1>7. Result(w)'
  BY <1>1, <1>3, <1>4, <1>5, <1>6 DEF Result
<1>8. TaskPlace(w)'
  BY <1>1, <1>3, <1>4, <1>5, <1>7 DEF TaskPlace, experimentVars
<1>9. Adopts(w)
  BY <1>2 DEF Adopts, RefusesOwnResult
<1> QED BY <1>1, <1>2, <1>4, <1>8, <1>9, TaskTurn

LEMMA FailEffect ==
  ASSUME HInv, NEW w \in Workers, KindOf(w) \in TaskKinds,
         NEW outcome \in {"retryable", "fatal"}, Fail(w, outcome),
         worker[w].pc = "executing",
         KindOf(w) = "optimization" /\ outcome = "fatal" => resources[JobOf(w)].by # "job"
  PROVE  Effect
<1>1. /\ EndHandler(w, outcome)
      /\ UNCHANGED <<jobs, clock, experimentVars, kind, valid, resources, task, linked>>
  BY DEF Fail, taskVars
<1>2. IInv'
  BY <1>1, EndingKeeps
<1>3. /\ worker'[w].pc = "ended" /\ worker'[w].outcome = outcome
      /\ worker'[w].job = worker[w].job /\ worker'[w].attempt = worker[w].attempt
      /\ \A v \in Workers \ {w} : worker'[v] = worker[v]
  BY <1>1, EndedColumns
<1>4. TaskPlace(w)'
  <2>1. JobOf(w)' = JobOf(w) /\ Computed(w)' = Computed(w)
    BY <1>3 DEF JobOf, Computed
  <2>2. Result(w) => Result(w)'
    BY <1>1, <2>1 DEF Result
  <2> QED BY <1>1, <1>3, <2>2, TaskHolder DEF TaskPlace, experimentVars
<1>5. Adopts(w)
  BY <1>3 DEF Adopts, RefusesOwnResult
<1> QED BY <1>1, <1>2, <1>3, <1>4, <1>5, TaskTurn DEF HInv, HandlersTypeOK

\* Calibration: only a row over the dataset the job asked for is held.
LEMMA CalibrationEffect ==
  ASSUME HInv, NEW w \in Workers, KindOf(w) \in TaskKinds,
         CalibrationLookup(w) \/ Calibrate(w) \/ SaveCalibration(w)
  PROVE  Effect
<1>1. /\ KindOf(w) = "calibration" /\ worker[w].pc = "executing" /\ task[w].at # "holding"
      /\ resources[JobOf(w)] \in Resource /\ JobOf(w) \in Jobs
      /\ Computed(w) \in Resource /\ Computed(w).by = "job"
      /\ resources \in [Jobs -> Resource]
  BY TaskHolder DEF CalibrationLookup, Calibrate, SaveCalibration, Executing,
                    HInv, HandlersTypeOK
<1>2. CASE CalibrationLookup(w)
  <2>1. CASE resources[JobOf(w)].by = "other_dataset"
    BY <1>1, <1>2, <2>1, FailEffect DEF CalibrationLookup
  <2>2. CASE resources[JobOf(w)].by \in {"job", "other"}
    BY <1>1, <1>2, <2>2, HoldEffect DEF CalibrationLookup
  <2>3. CASE resources[JobOf(w)].by = "nobody"
    BY <1>1, <1>2, <2>3, ContinueEffect DEF CalibrationLookup
  <2> QED BY <1>1, <2>1, <2>2, <2>3 DEF Resource
<1>3. CASE Calibrate(w)
  BY <1>1, <1>3, FailEffect, ContinueEffect DEF Calibrate
<1>4. CASE SaveCalibration(w)
  <2>1. CASE Stored(w)
    BY <1>1, <1>4, <2>1, FailEffect DEF SaveCalibration
  <2>2. CASE ~Stored(w)
    <3>1. /\ resources' = [resources EXCEPT ![JobOf(w)] = Computed(w)]
          /\ Hold(w, Computed(w)) /\ resources[JobOf(w)].by = "nobody"
      BY <1>4, <2>2 DEF SaveCalibration, Stored
    <3>2. resources'[JobOf(w)] = Computed(w)
      BY <1>1, <3>1
    <3> QED BY <1>1, <3>1, <3>2, HoldEffect
  <2> QED BY <2>1, <2>2
<1> QED BY <1>2, <1>3, <1>4

\* Optimization: the stored row is the job's own, and whoever finds it holds it.
LEMMA OptimizationEffect ==
  ASSUME HInv, NEW w \in Workers, KindOf(w) \in TaskKinds,
         OptimizationLookup(w) \/ Optimize(w) \/ SaveLooksUp(w) \/ SaveOptimization(w)
  PROVE  Effect
<1>1. /\ KindOf(w) = "optimization" /\ worker[w].pc = "executing" /\ task[w].at # "holding"
      /\ resources[JobOf(w)] \in Resource /\ JobOf(w) \in Jobs
      /\ resources[JobOf(w)].by \in {"nobody", "job"}
      /\ Computed(w) \in Resource /\ Computed(w).by = "job"
      /\ resources \in [Jobs -> Resource]
  BY TaskHolder DEF OptimizationLookup, Optimize, SaveLooksUp, SaveOptimization, Executing,
                    HInv, HandlersTypeOK
<1>2. CASE Stored(w)
  <2>1. resources[JobOf(w)].by = "job"
    BY <1>1, <1>2 DEF Stored
  <2>2. Hold(w, resources[JobOf(w)]) /\ UNCHANGED resources
    BY <1>2 DEF OptimizationLookup, Optimize, SaveLooksUp, SaveOptimization
  <2> QED BY <1>1, <2>1, <2>2, HoldEffect
<1>3. CASE ~Stored(w)
  <2>1. resources[JobOf(w)].by = "nobody"
    BY <1>3 DEF Stored
  <2>2. CASE SaveOptimization(w)
    <3>1. resources' = [resources EXCEPT ![JobOf(w)] = Computed(w)] /\ Hold(w, Computed(w))
      BY <1>3, <2>2 DEF SaveOptimization
    <3>2. resources'[JobOf(w)] = Computed(w)
      BY <1>1, <3>1
    <3> QED BY <1>1, <2>1, <3>1, <3>2, HoldEffect
  <2>3. CASE ~SaveOptimization(w)
    <3>1. \/ Fail(w, "fatal")
          \/ \E at \in {"missing", "computing", "inserting"} : Continue(w, at)
      BY <1>3, <2>3 DEF OptimizationLookup, Optimize, SaveLooksUp
    <3> QED BY <1>1, <2>1, <3>1, FailEffect, ContinueEffect
  <2> QED BY <2>2, <2>3
<1> QED BY <1>2, <1>3

LEMMA AdaptiveEffect ==
  ASSUME HInv, NEW w \in Workers, KindOf(w) \in TaskKinds,
         AdaptiveOverBudget(w) \/ CompareAdaptive(w) \/ AdaptiveCompared(w)
  PROVE  Effect
<1>1. /\ KindOf(w) = "adaptive_comparison" /\ worker[w].pc = "executing"
      /\ task[w].at # "holding" /\ Computed(w) \in Resource
  BY TaskHolder DEF AdaptiveOverBudget, CompareAdaptive, AdaptiveCompared, Executing
<1>2. CASE AdaptiveOverBudget(w)
  BY <1>1, <1>2, FailEffect DEF AdaptiveOverBudget
<1>3. CASE CompareAdaptive(w)
  BY <1>1, <1>3, ContinueEffect DEF CompareAdaptive
<1>4. CASE AdaptiveCompared(w)
  BY <1>1, <1>4, HoldEffect DEF AdaptiveCompared
<1> QED BY <1>2, <1>3, <1>4
LEMMA TaskCheckpointEffect ==
  ASSUME HInv, NEW w \in Workers, KindOf(w) \in TaskKinds, TaskCheckpoint(w)
  PROVE  Effect
<1>1. /\ IInv' /\ UNCHANGED <<jobs, clock, experimentVars, kind, valid, resources, task, linked>>
      /\ worker[w].pc = "executing" /\ task[w].at \in {"new", "missing"}
  BY ProbeKeeps DEF HInv, TaskCheckpoint, Probe, taskVars
<1>2. /\ worker'[w].pc \in {"ended", "reporting"} /\ worker'[w].job = worker[w].job
      /\ worker'[w].outcome \in {worker[w].outcome, "cancelled"}
      /\ \A v \in Workers \ {w} : worker'[v] = worker[v]
  <2>1. CASE EndHandler(w, "cancelled")
    BY <2>1, EndedColumns
  <2>2. CASE worker' = [worker EXCEPT ![w].pc = "reporting"]
    BY <2>2 DEF HInv, IInv, TypeOK, WorkerState
  <2> QED BY <2>1, <2>2 DEF TaskCheckpoint, Probe
<1>3. worker[w].outcome # "done" /\ handler[w].at = "new"
  BY <1>1, TaskHolder DEF TaskPlace
<1>4. TaskPlace(w)'
  BY <1>1, <1>2, <1>3 DEF TaskPlace, experimentVars
<1>5. Adopts(w)
  BY <1>2 DEF Adopts, RefusesOwnResult
<1> QED BY <1>1, <1>2, <1>4, <1>5, TaskTurn DEF HInv, HandlersTypeOK

LEMMA StoreArtifactEffect ==
  ASSUME HInv, NEW w \in Workers, KindOf(w) \in TaskKinds, StoreArtifact(w)
  PROVE  Effect
<1>1. /\ EndHandler(w, "done") /\ worker[w].pc = "executing" /\ task[w].at = "holding"
      /\ UNCHANGED <<jobs, clock, experimentVars, kind, valid, resources, task, linked>>
  BY DEF StoreArtifact, Executing, taskVars
<1>2. IInv'
  BY <1>1, EndingKeeps
<1>3. /\ worker'[w].pc = "ended" /\ worker'[w].outcome = "done"
      /\ worker'[w].job = worker[w].job /\ worker'[w].attempt = worker[w].attempt
      /\ \A v \in Workers \ {w} : worker'[v] = worker[v]
  BY <1>1, EndedColumns
<1>4. TaskPlace(w)'
  <2>1. JobOf(w)' = JobOf(w) /\ Computed(w)' = Computed(w)
    BY <1>3 DEF JobOf, Computed
  <2>2. Result(w) => Result(w)'
    BY <1>1, <2>1 DEF Result
  <2> QED BY <1>1, <1>3, <2>2, TaskHolder DEF TaskPlace, experimentVars
<1>5. Adopts(w)
  BY <1>3 DEF Adopts, RefusesOwnResult
<1> QED BY <1>1, <1>2, <1>3, <1>4, <1>5, TaskTurn DEF HInv, HandlersTypeOK

LEMMA FinishTaskEffect ==
  ASSUME HInv, NEW w \in Workers, KindOf(w) \in TaskKinds, FinishTask(w)
  PROVE  Effect
<1> DEFINE t == IF worker[w].outcome = "done" THEN task[w] ELSE NewTask
<1>1. /\ Settle(w) /\ UNCHANGED <<experimentVars, kind, valid, resources, linked>>
      /\ task \in [Workers -> TaskState] /\ task' = [task EXCEPT ![w] = t]
  BY DEF FinishTask, HInv, HandlersTypeOK
<1>2. /\ IInv' /\ UNCHANGED <<jobs, clock>>
      /\ \A v \in Workers \ {w} : worker'[v] = worker[v]
      /\ worker'[w].pc \in Active =>
           /\ worker'[w].pc = "settling" /\ worker'[w].job = worker[w].job
           /\ worker'[w].attempt = worker[w].attempt
           /\ worker'[w].outcome = worker[w].outcome
      /\ worker'[w].outcome \in {worker[w].outcome, "none"}
  BY <1>1, SettledColumns
<1>3. NewTask \in TaskState /\ NewTask.at = "new"
  BY AttemptsAssumption DEF NewTask, TaskState, Resource, NoResource
<1>4. /\ t \in TaskState
      /\ worker[w].outcome = "done" => t = task[w]
      /\ worker[w].outcome # "done" => t.at = "new"
  BY <1>1, <1>3
<1> HIDE DEF t
<1>5. /\ task' \in [Workers -> TaskState] /\ task'[w] = t
      /\ \A v \in Workers \ {w} : task'[v] = task[v]
  BY <1>1, <1>4
<1>6. ASSUME worker'[w].pc \in Active
      PROVE  TaskPlace(w)'
  <2>1. JobOf(w)' = JobOf(w) /\ Computed(w)' = Computed(w)
    BY <1>2, <1>6 DEF JobOf, Computed
  <2>2. worker[w].outcome = "done" => (Result(w) => Result(w)')
    BY <1>1, <1>4, <1>5, <2>1 DEF Result
  <2> QED BY <1>1, <1>2, <1>4, <1>5, <1>6, <2>2, TaskHolder DEF TaskPlace, experimentVars
<1>7. Adopts(w)
  BY <1>2 DEF Adopts, RefusesOwnResult
<1> QED BY <1>1, <1>2, <1>5, <1>6, <1>7, TaskTurn

\* The published digest names the row the job asked for, or the comparison
\* of the attempt that is the job's last.
LEMMA PublishTaskEffect ==
  ASSUME HInv, NEW w \in Workers, KindOf(w) \in TaskKinds, PublishTask(w)
  PROVE  Effect
<1> DEFINE owns == OwnsValidLease(RowOf(w), w, worker[w].now)
           x == task[w].result
<1>1. Succeed(w) /\ UNCHANGED <<experimentVars, kind, valid, resources>>
  BY DEF PublishTask
<1>2. /\ linked \in [Jobs -> Resource] /\ task \in [Workers -> TaskState]
      /\ linked' = [linked EXCEPT ![JobOf(w)] = IF owns THEN x ELSE linked[JobOf(w)]]
      /\ task' = [task EXCEPT ![w] = NewTask]
  BY DEF PublishTask, HInv, HandlersTypeOK
<1>3. /\ IInv' /\ worker' = [worker EXCEPT ![w] = Resting("idle")]
      /\ JobOf(w) \in Jobs /\ jobs[JobOf(w)].status # "absent"
      /\ worker[w].outcome = "done"
      /\ \A i \in Jobs \ {JobOf(w)} : RowStep(i)
      /\ owns => /\ jobs'[JobOf(w)].status = "succeeded"
                 /\ jobs'[JobOf(w)].attempt_count = worker[w].attempt
      /\ ~owns => RowStep(JobOf(w))
  BY <1>1, PublishedRow
<1>4. kind[JobOf(w)] \in TaskKinds /\ Result(w) /\ x \in Resource
  BY <1>3, TaskHolder DEF TaskPlace, TaskState
<1>5. NewTask \in TaskState
  BY AttemptsAssumption DEF NewTask, TaskState, Resource, NoResource
<1>6. /\ worker'[w] = Resting("idle")
      /\ \A v \in Workers \ {w} : LeavesAlone(v)
  BY <1>1, <1>2, <1>3 DEF LeavesAlone, experimentVars, HInv, IInv, TypeOK
<1>7. HandlersTypeOK'
  BY <1>1, <1>2, <1>3, <1>4, <1>5
     DEF HInv, IInv, HandlersTypeOK, ExperimentTypeOK, experimentVars
<1>8. ASSUME NEW i \in Jobs
      PROVE  JobStep(i)
  <2>1. TableStep(i)
    BY <1>1 DEF TableStep, experimentVars
  <2>2. CASE i # JobOf(w) \/ ~owns
    <3>1. linked'[i] = linked[i] /\ RowStep(i)
      BY <1>2, <1>3, <2>2
    <3> QED BY <1>1, <2>1, <3>1, JobKept DEF HInv, JobInv, experimentVars
  <2>3. CASE i = JobOf(w) /\ owns
    <3>1. /\ linked'[i] = x /\ jobs'[i].status = "succeeded"
          /\ jobs'[i].attempt_count = worker[w].attempt
      BY <1>2, <1>3, <2>3
    <3>2. JobInv(i)'
      BY <1>1, <1>3, <2>3, <3>1 DEF JobInv, HInv
    <3>3. Linked(i)'
      BY <1>1, <1>4, <2>3, <3>1 DEF Linked, Result, Computed, TaskKinds
    <3> QED BY <2>1, <3>2, <3>3 DEF JobStep
  <2> QED BY <2>2, <2>3
<1>9. HolderInv(w)'
  BY <1>6, RestingColumns DEF HolderInv, Active
<1>10. NotSimulatedAgain(w) /\ Adopts(w)
  BY <1>1, <1>6, RestingColumns
     DEF NotSimulatedAgain, Adopts, RefusesOwnResult, experimentVars
<1> QED BY <1>3, <1>6, <1>7, <1>8, <1>9, <1>10, HandlerTurn

LEMMA AnalyticalEffect ==
  ASSUME HInv, NEW w \in Workers, AnalyticalHandler(w)
  PROVE  Effect
<1>1. KindOf(w) \in TaskKinds
  BY DEF AnalyticalHandler, TaskKinds
<1>2. CASE TaskRaises(w)
  BY <1>1, <1>2, FailEffect DEF TaskRaises
<1>3. CASE ~TaskRaises(w)
  BY <1>1, <1>3, TaskCheckpointEffect, StoreArtifactEffect, FinishTaskEffect,
     CalibrationEffect, OptimizationEffect, AdaptiveEffect, PublishTaskEffect
     DEF AnalyticalHandler
<1> QED BY <1>2, <1>3
-----------------------------------------------------------------------------
LEMMA HandlersInitEstablishes == HandlersInit => HInv
<1> SUFFICES ASSUME HandlersInit PROVE HInv
  OBVIOUS
<1>1. Init /\ IInv
  BY InitEstablishes DEF HandlersInit, ExperimentInit
<1>2. /\ NoExperiment \in ExperimentRow /\ NoExperiment.status = "absent"
      /\ Fresh \in HandlerState /\ NewTask \in TaskState
      /\ NoResource \in Resource /\ NoResource.by = "nobody"
      /\ 0 \in 0..MaxAttempts
  BY AttemptsAssumption DEF NoExperiment, ExperimentRow, Fresh, HandlerState,
                            NewTask, TaskState, NoResource, Resource
<1>3. HandlersTypeOK
  BY <1>1, <1>2 DEF HandlersInit, ExperimentInit, HandlersTypeOK, ExperimentTypeOK, IInv
<1>4. \A j \in Jobs : jobs[j].status = "absent"
  BY <1>1 DEF Init, Absent
<1>5. \A w \in Workers : worker[w].pc = "stopped"
  BY <1>1 DEF Init, Resting
<1>6. \A j \in Jobs : JobInv(j) /\ Linked(j)
  BY <1>2, <1>4 DEF HandlersInit, ExperimentInit, JobInv, Linked
<1>7. \A w \in Workers : HolderInv(w)
  BY <1>5 DEF HolderInv, Active
<1> QED BY <1>1, <1>3, <1>6, <1>7 DEF HInv

LEMMA HandlersStep == HInv /\ [HandlersNext]_handlerVars => Effect
<1> SUFFICES ASSUME HInv, [HandlersNext]_handlerVars PROVE Effect
  OBVIOUS
<1>1. CASE HandlersNext
  <2>1. CASE QueueOnly /\ UNCHANGED taskVars
    BY <2>1, QueueOnlyEffect
  <2>2. ASSUME NEW j \in Jobs,
               CreateExperimentJob(j) \/ CreateTask(j) \/ OtherCalibrates(j)
        PROVE  Effect
    BY <2>2, CreateExperimentJobEffect, CreateTaskEffect, OtherCalibratesEffect
  <2>3. ASSUME NEW w \in Workers,
               \/ ClaimTask(w)
               \/ WorkerDies(w) /\ task' = [task EXCEPT ![w] = NewTask]
                                /\ UNCHANGED <<kind, valid, resources, linked>>
        PROVE  Effect
    BY <2>3, ClaimTaskEffect, WorkerDiesEffect
  <2>4. ASSUME NEW w \in Workers, KindOf(w) = "experiment",
               ExperimentHandler(w) \/ PublishSuccess(w), UNCHANGED taskVars
        PROVE  Effect
    BY <2>4, ExperimentEffect
  <2>5. ASSUME NEW w \in Workers, AnalyticalHandler(w)
        PROVE  Effect
    BY <2>5, AnalyticalEffect
  <2> QED BY <1>1, <2>1, <2>2, <2>3, <2>4, <2>5 DEF HandlersNext
<1>2. CASE UNCHANGED handlerVars
  <2>1. UNCHANGED <<vars, experimentVars, taskVars>>
    BY <1>2 DEF handlerVars, allVars
  <2>2. IInv' /\ UNCHANGED <<jobs, worker>>
    BY <2>1, VarsKeep DEF vars
  <2> QED BY <2>1, <2>2, QueueTurn, RowsUnchanged DEF Resumes
<1> QED BY <1>1, <1>2

\* The handlers never leave their inductive invariant, whatever thread runs
\* which of their transactions, with or without the lease of the job.
THEOREM HandlersInvariant == HandlersSpec => []HInv
<1>1. HInv /\ [HandlersNext]_handlerVars => HInv'
  BY HandlersStep DEF Effect
<1> QED BY <1>1, HandlersInitEstablishes, PTL DEF HandlersSpec

\* A succeeded job leads to its result: the completed experiment and a
\* digest of it, the one stored row of the calibration or optimization, or
\* the comparison of its last attempt.
THEOREM SucceededJobsLeadToResults == HandlersSpec => []JobLeadsToItsResult
<1>1. HInv => JobLeadsToItsResult
  BY DEF HInv, Linked, JobLeadsToItsResult
<1> QED BY <1>1, HandlersInvariant, PTL

\* An experiment that is completed or failed keeps that status, although its
\* handlers write it from stale reads and without the lease.
THEOREM FinalExperimentsStay == HandlersSpec => ExperimentOutcomeIsFinal
<1> DEFINE Step == \A j \in Jobs : experiments[j].status \in {"completed", "failed"} =>
                     experiments'[j].status = experiments[j].status
<1>1. HInv /\ [HandlersNext]_handlerVars => [Step]_allVars
  BY HandlersStep DEF Effect, TableStep
<1>2. HandlersSpec => [][Step]_allVars
  BY <1>1, HandlersInvariant, PTL DEF HandlersSpec
<1> QED BY <1>2 DEF ExperimentOutcomeIsFinal

\* A handler that loads a completed experiment ends; it does not go on to
\* the simulation.
THEOREM CompletedExperimentsAreReused == HandlersSpec => NoSecondSimulation
<1> DEFINE Step == \A w \in Workers :
                     (handler[w].at = "loading" /\ handler'[w].at = "loaded"
                      /\ ExperimentOf(w).status = "completed") => worker'[w].outcome # "none"
<1>1. HInv /\ [HandlersNext]_handlerVars => [Step]_allVars
  BY HandlersStep DEF Effect, NotSimulatedAgain
<1>2. HandlersSpec => [][Step]_allVars
  BY <1>1, HandlersInvariant, PTL DEF HandlersSpec
<1> QED BY <1>2 DEF NoSecondSimulation

\* No execution of an optimization job fails it as invalid once its row is
\* stored.
THEOREM StoredOptimizationsAreAdopted == HandlersSpec => OptimizationIsIdempotent
<1> DEFINE Step == \A w \in Workers : KindOf(w) = "optimization" => ~RefusesOwnResult(w)
<1>1. HInv /\ [HandlersNext]_handlerVars => [Step]_handlerVars
  BY HandlersStep DEF Effect, Adopts
<1>2. HandlersSpec => [][Step]_handlerVars
  BY <1>1, HandlersInvariant, PTL DEF HandlersSpec
<1> QED BY <1>2 DEF OptimizationIsIdempotent
=============================================================================
