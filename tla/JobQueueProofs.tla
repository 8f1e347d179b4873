--------------------------- MODULE JobQueueProofs ---------------------------
(***************************************************************************)
(* Safety of the durable job queue for every number of jobs and workers,   *)
(* every lease, heartbeat, delay, attempt budget and sequence of stages.   *)
(*                                                                         *)
(* The inductive invariant has four parts: the types; what every row       *)
(* satisfies (RowInv); what the local state of a worker says of its row    *)
(* (WorkerInv); and that two holders of one job hold different attempts.   *)
(* The heart of it is Claims: the attempt a worker holds is not ahead of   *)
(* the row's, and equals it as long as the row names the worker as owner.  *)
(* That is what fences a replaced worker, since OwnsValidLease compares    *)
(* the owner and the expiry, never the attempt.                            *)
(*                                                                         *)
(* The second half proves what the steps may do: the action properties of  *)
(* JobQueue, its refinement of the documented lifecycle, and the job a     *)
(* punctual worker keeps.  Everything there rests on StepMoves.            *)
(***************************************************************************)
EXTENDS JobQueue, TLAPS

RowInv(r) ==
  /\ RowConsistent(r)
  /\ r.status = "absent" => r.attempt_count = 0
  /\ r.status = "queued" => r.attempt_count < MaxAttempts
  /\ r.cancellation_requested => r.status \in {"running", "succeeded", "cancelled"}
  /\ r.status = "succeeded" => r.result = r.attempt_count

Active == {"executing", "reporting", "ended", "settling", "committing"}

\* What the thread's own flags exclude.
Sound(w, s) ==
  /\ s.beating => s.pc \in {"executing", "reporting", "ended"}
  /\ s.pc \in {"settling", "committing"} => ~s.lost
  /\ s.pc = "reporting" => s.stage < Len(Stages)
  /\ s.pc = "dead" => w \in Faulty
  /\ s.pc \in Active => s.job \in Jobs

\* What the state s of worker w says of the row r of the job it holds.
Claims(w, s, r) ==
  /\ 0 < s.attempt
  /\ s.attempt <= r.attempt_count
  /\ r.lease_owner = w => r.attempt_count = s.attempt
  /\ s.outcome = "cancelled" => s.lost \/ r.cancellation_requested

WorkerInv(w) ==
  /\ Sound(w, worker[w])
  /\ worker[w].pc \in Active => Claims(w, worker[w], RowOf(w))

IInv ==
  /\ TypeOK
  /\ \A j \in Jobs : RowInv(jobs[j])
  /\ \A w \in Workers : WorkerInv(w)
  /\ OneWorkerPerAttempt

GoodRow(r) == r \in JobRow /\ RowInv(r)

\* How a row may change under a worker that is not the one claiming it.
Keeps(r, s) ==
  /\ s.attempt_count = r.attempt_count
  /\ s.lease_owner \in {r.lease_owner, NoWorker}
  /\ r.cancellation_requested => s.cancellation_requested
-----------------------------------------------------------------------------
(* Every repository operation maps a good row to a good row, and every one *)
(* but the claim keeps the attempt and the owner or frees the lease.       *)

USE DEF NoTime

\* The values the operations write belong to the columns they write them to.
LEMMA ColumnValues ==
  /\ {"queued", "running", "succeeded", "failed", "cancelled"} \subseteq Statuses
  /\ {0, 100} \subseteq 0..100
  /\ NoTime \in Times
  /\ Nat \subseteq Times
BY DEF Statuses, Terminal, Times

LEMMA AbsentGood == GoodRow(Absent)
BY NoWorkerAssumption, AttemptsAssumption
   DEF GoodRow, RowInv, RowConsistent, JobRow, Absent, Statuses, Terminal, Times, Problems

LEMMA NewRecordGood ==
  ASSUME NEW now \in Nat
  PROVE  GoodRow(NewRecord(now))
<1>1. Absent \in JobRow
  BY AbsentGood DEF GoodRow
<1>2. NewRecord(now) \in JobRow
  BY <1>1, ColumnValues DEF NewRecord, JobRow
<1>3. RowInv(NewRecord(now))
  BY AttemptsAssumption DEF Terminal, NewRecord, RowInv, RowConsistent, Absent
<1> QED BY <1>2, <1>3 DEF GoodRow

LEMMA ClaimGood ==
  ASSUME NEW r, GoodRow(r), NEW w \in Workers, NEW now \in Nat, Eligible(r, now)
  PROVE  /\ GoodRow(ClaimRecord(r, w, now))
         /\ ClaimRecord(r, w, now).attempt_count = r.attempt_count + 1
         /\ ClaimRecord(r, w, now).lease_owner = w
<1> DEFINE s == ClaimRecord(r, w, now)
<1>1. r \in JobRow /\ r.attempt_count < MaxAttempts /\ ~r.cancellation_requested
      /\ RowConsistent(r) /\ r.status = "queued"
  BY DEF GoodRow, RowInv, Eligible
<1>2. now + Lease \in Nat
  BY DurationAssumption
<1>3. r.attempt_count + 1 \in 0..MaxAttempts
  BY <1>1, AttemptsAssumption DEF JobRow
<1>4. s \in JobRow
  BY <1>1, <1>2, <1>3, ColumnValues DEF ClaimRecord, JobRow
<1>5. /\ s.status = "running" /\ s.attempt_count = r.attempt_count + 1 /\ s.lease_owner = w
      /\ s.lease_expires_at = now + Lease /\ s.started /\ s.finished = r.finished
      /\ s.result = r.result /\ s.problem = r.problem
      /\ s.cancellation_requested = r.cancellation_requested
  BY <1>1 DEF ClaimRecord, JobRow
<1>6. RowInv(s)
  BY <1>1, <1>2, <1>5, NoWorkerAssumption DEF Terminal, RowInv, RowConsistent
<1> QED BY <1>4, <1>5, <1>6 DEF GoodRow

LEMMA HeartbeatGood ==
  ASSUME NEW r, GoodRow(r), NEW now \in Nat, r.status = "running"
  PROVE  GoodRow(HeartbeatRow(r, now)) /\ Keeps(r, HeartbeatRow(r, now))
BY NoWorkerAssumption, AttemptsAssumption, DurationAssumption
   DEF GoodRow, RowInv, RowConsistent, JobRow, HeartbeatRow, Keeps,
       Terminal, Statuses, Times, Problems

LEMMA ReportGood ==
  ASSUME NEW r, GoodRow(r), NEW now \in Nat, NEW p \in 0..99, r.status = "running"
  PROVE  GoodRow(ReportRow(r, p, now)) /\ Keeps(r, ReportRow(r, p, now))
<1> DEFINE s == ReportRow(r, p, now)
<1>1. r \in JobRow /\ RowInv(r)
  BY DEF GoodRow
<1>2. now + Lease \in Nat /\ p \in 0..100
  BY DurationAssumption
<1>3. s \in JobRow
  BY <1>1, <1>2, ColumnValues DEF ReportRow, JobRow
<1>4. RowInv(s) /\ Keeps(r, s)
  BY <1>1, <1>2 DEF Terminal, RowInv, RowConsistent, ReportRow, JobRow, Keeps
<1> QED BY <1>3, <1>4 DEF GoodRow

LEMMA ClearLeaseType ==
  ASSUME NEW r \in JobRow
  PROVE  ClearLease(r) \in JobRow
BY NoWorkerAssumption, ColumnValues DEF ClearLease, JobRow

LEMMA CancelledGood ==
  ASSUME NEW r, GoodRow(r), r.status \in {"queued", "running"}
  PROVE  GoodRow(CancelledRow(r)) /\ Keeps(r, CancelledRow(r))
<1> DEFINE s == CancelledRow(r)
<1>1. r \in JobRow /\ RowInv(r)
  BY DEF GoodRow
<1>2. s \in JobRow
  BY <1>1, ClearLeaseType, ColumnValues DEF CancelledRow, JobRow
<1>3. RowInv(s) /\ Keeps(r, s)
  BY <1>1 DEF Terminal, RowInv, RowConsistent, CancelledRow, ClearLease, JobRow, Keeps
<1> QED BY <1>2, <1>3 DEF GoodRow

LEMMA RequeuedGood ==
  ASSUME NEW r, GoodRow(r), NEW next \in Nat, r.status = "running",
         ~r.cancellation_requested, r.attempt_count < MaxAttempts
  PROVE  GoodRow(RequeuedRow(r, next)) /\ Keeps(r, RequeuedRow(r, next))
<1> DEFINE s == RequeuedRow(r, next)
<1>1. r \in JobRow /\ RowInv(r)
  BY DEF GoodRow
<1>2. s \in JobRow
  BY <1>1, ClearLeaseType, ColumnValues DEF RequeuedRow, JobRow
<1>3. RowInv(s) /\ Keeps(r, s)
  BY <1>1 DEF Terminal, RowInv, RowConsistent, RequeuedRow, ClearLease, JobRow, Keeps
<1> QED BY <1>2, <1>3 DEF GoodRow

LEMMA FailedGood ==
  ASSUME NEW r, GoodRow(r), NEW p \in Problems \ {"none"}, r.status = "running",
         ~r.cancellation_requested
  PROVE  GoodRow(FailedRow(r, p)) /\ Keeps(r, FailedRow(r, p))
<1> DEFINE s == FailedRow(r, p)
<1>1. r \in JobRow /\ RowInv(r)
  BY DEF GoodRow
<1>2. s \in JobRow
  BY <1>1, ClearLeaseType, ColumnValues DEF FailedRow, JobRow
<1>3. RowInv(s) /\ Keeps(r, s)
  BY <1>1 DEF Terminal, RowInv, RowConsistent, FailedRow, ClearLease, JobRow, Keeps
<1> QED BY <1>2, <1>3 DEF GoodRow

LEMMA SucceedGood ==
  ASSUME NEW r, GoodRow(r), NEW a \in 1..MaxAttempts, r.status = "running",
         r.attempt_count = a
  PROVE  GoodRow(SucceedRow(r, a)) /\ Keeps(r, SucceedRow(r, a))
<1> DEFINE s == SucceedRow(r, a)
<1>1. r \in JobRow /\ RowInv(r)
  BY DEF GoodRow
<1>2. a \in 0..MaxAttempts /\ a # 0
  BY AttemptsAssumption
<1>3. ClearLease(r) \in JobRow
  BY <1>1, ClearLeaseType
<1>4. s \in JobRow
  BY <1>2, <1>3, ColumnValues DEF SucceedRow, JobRow
<1>5. RowInv(s) /\ Keeps(r, s)
  BY <1>1, <1>2 DEF Terminal, RowInv, RowConsistent, SucceedRow, ClearLease, JobRow, Keeps
<1> QED BY <1>4, <1>5 DEF GoodRow

LEMMA FailGood ==
  ASSUME NEW r, GoodRow(r), NEW retryable \in BOOLEAN, NEW now \in Nat,
         r.status = "running"
  PROVE  GoodRow(FailRow(r, retryable, now)) /\ Keeps(r, FailRow(r, retryable, now))
<1>1. CASE r.cancellation_requested
  BY <1>1, CancelledGood DEF FailRow
<1>2. CASE ~r.cancellation_requested /\ retryable /\ r.attempt_count < MaxAttempts
  <2>1. FailRow(r, retryable, now) = RequeuedRow(r, now + RetryDelay)
    BY <1>2 DEF FailRow
  <2>2. now + RetryDelay \in Nat
    BY DurationAssumption
  <2> QED BY <1>2, <2>1, <2>2, RequeuedGood
<1>3. CASE ~r.cancellation_requested /\ ~(retryable /\ r.attempt_count < MaxAttempts)
  <2>1. FailRow(r, retryable, now) = FailedRow(r, "handler_failed")
    BY <1>3 DEF FailRow
  <2> QED BY <1>3, <2>1, FailedGood DEF Problems
<1> QED BY <1>1, <1>2, <1>3

LEMMA RecoverGood ==
  ASSUME NEW r, GoodRow(r), NEW now \in Nat, r.status = "running"
  PROVE  GoodRow(RecoverRow(r, now)) /\ Keeps(r, RecoverRow(r, now))
<1>1. CASE r.cancellation_requested
  BY <1>1, CancelledGood DEF RecoverRow
<1>2. CASE ~r.cancellation_requested /\ r.attempt_count < MaxAttempts
  BY <1>2, RequeuedGood DEF RecoverRow
<1>3. CASE ~r.cancellation_requested /\ ~(r.attempt_count < MaxAttempts)
  <2>1. RecoverRow(r, now) = FailedRow(r, "lease_expired")
    BY <1>3 DEF RecoverRow
  <2> QED BY <1>3, <2>1, FailedGood DEF Problems
<1> QED BY <1>1, <1>2, <1>3

LEMMA RequestGood ==
  ASSUME NEW r, GoodRow(r), r.status # "absent"
  PROVE  GoodRow(RequestCancellationRow(r)) /\ Keeps(r, RequestCancellationRow(r))
<1> DEFINE asked == [r EXCEPT !.cancellation_requested = TRUE]
<1>1. r \in JobRow /\ RowInv(r)
  BY DEF GoodRow
<1>2. asked \in JobRow
  BY <1>1 DEF JobRow
<1>3. CASE r.status \in Terminal
  <2>1. RequestCancellationRow(r) = r
    BY <1>3 DEF RequestCancellationRow, Terminal
  <2> QED BY <2>1 DEF Keeps
<1>4. CASE r.status = "queued"
  <2>1. RequestCancellationRow(r) = CancelledRow(asked)
    BY <1>4 DEF RequestCancellationRow, Terminal
  <2>2. CancelledRow(asked) \in JobRow
    BY <1>2, ClearLeaseType, ColumnValues DEF CancelledRow, JobRow
  <2>3. RowInv(CancelledRow(asked)) /\ Keeps(r, CancelledRow(asked))
    BY <1>1, <1>4
       DEF Terminal, RowInv, RowConsistent, CancelledRow, ClearLease, JobRow, Keeps
  <2> QED BY <2>1, <2>2, <2>3 DEF GoodRow
<1>5. CASE r.status = "running"
  <2>1. RequestCancellationRow(r) = asked
    BY <1>5 DEF RequestCancellationRow, Terminal
  <2>2. RowInv(asked) /\ Keeps(r, asked)
    BY <1>1, <1>5 DEF Terminal, RowInv, RowConsistent, JobRow, Keeps
  <2> QED BY <1>2, <2>1, <2>2 DEF GoodRow
<1> QED BY <1>1, <1>3, <1>4, <1>5 DEF JobRow, Statuses
-----------------------------------------------------------------------------
(* Two frames the actions are proved in: what the step does to the table   *)
(* and what it does to the thread of one worker.                           *)

JobsStep ==
  /\ jobs' \in [Jobs -> JobRow]
  /\ \A j \in Jobs : RowInv(jobs'[j]) /\ Keeps(jobs[j], jobs'[j])

\* A thread goes on with the claim it has, or ends up without one; a handler
\* it stops as cancelled lost its lease or was asked to stop.
Continues(w, s, t) ==
  /\ Sound(w, t)
  /\ t.pc \in Active =>
       /\ s.pc \in Active
       /\ t.job = s.job /\ t.attempt = s.attempt
       /\ t.outcome = "cancelled" =>
            \/ t.lost
            \/ jobs[s.job].cancellation_requested
            \/ s.outcome = "cancelled" /\ ~s.lost

WorkersStep ==
  /\ worker' \in [Workers -> WorkerState]
  /\ \A w \in Workers : worker'[w] = worker[w] \/ Continues(w, worker[w], worker'[w])

LEMMA JobsUnchanged ==
  ASSUME IInv, UNCHANGED jobs
  PROVE  JobsStep
BY DEF IInv, TypeOK, JobsStep, Keeps

LEMMA OneJobStep ==
  ASSUME IInv, NEW j \in Jobs, NEW s, GoodRow(s), Keeps(jobs[j], s),
         jobs' = [jobs EXCEPT ![j] = s]
  PROVE  JobsStep
BY DEF IInv, TypeOK, JobsStep, GoodRow, Keeps

LEMMA WorkersUnchanged ==
  ASSUME IInv, UNCHANGED worker
  PROVE  WorkersStep
BY DEF IInv, TypeOK, WorkersStep

LEMMA OneWorkerStep ==
  ASSUME IInv, NEW w \in Workers, NEW t \in WorkerState, Continues(w, worker[w], t),
         worker' = [worker EXCEPT ![w] = t]
  PROVE  WorkersStep
BY DEF IInv, TypeOK, WorkersStep

LEMMA StepKeepsInvariant ==
  ASSUME IInv, JobsStep, WorkersStep, clock' \in Nat
  PROVE  IInv'
<1>1. TypeOK'
  BY DEF JobsStep, WorkersStep, TypeOK
<1>2. (\A j \in Jobs : RowInv(jobs[j]))'
  BY DEF JobsStep
<1>3. ASSUME NEW w \in Workers
      PROVE  /\ worker'[w].pc \in Active =>
                  /\ worker[w].pc \in Active
                  /\ worker'[w].job = worker[w].job
                  /\ worker'[w].attempt = worker[w].attempt
             /\ WorkerInv(w)'
  <2>1. WorkerInv(w)
    BY DEF IInv
  <2>2. Sound(w, worker'[w])
    BY <2>1 DEF WorkersStep, Continues, WorkerInv
  <2>3. /\ worker'[w].pc \in Active =>
             /\ worker[w].pc \in Active
             /\ worker'[w].job = worker[w].job
             /\ worker'[w].attempt = worker[w].attempt
    BY DEF WorkersStep, Continues
  <2>4. ASSUME worker'[w].pc \in Active
        PROVE  Claims(w, worker'[w], jobs'[worker'[w].job])
    <3> DEFINE j == worker[w].job
    <3>1. /\ j \in Jobs /\ Claims(w, worker[w], jobs[j])
          /\ worker'[w].job = j /\ worker'[w].attempt = worker[w].attempt
      BY <2>1, <2>3, <2>4 DEF WorkerInv, Sound, RowOf
    <3>2. Keeps(jobs[j], jobs'[j])
      BY <3>1 DEF JobsStep
    <3>3. NoWorker # w
      BY NoWorkerAssumption
    <3>4. jobs'[j].lease_owner = w => jobs[j].lease_owner = w
      BY <3>2, <3>3 DEF Keeps
    <3>5. worker'[w].outcome = "cancelled" =>
            worker'[w].lost \/ jobs'[j].cancellation_requested
      BY <2>4, <3>1, <3>2 DEF WorkersStep, Continues, Claims, Keeps
    <3> QED BY <3>1, <3>2, <3>4, <3>5 DEF Claims, Keeps
  <2> QED BY <2>2, <2>3, <2>4 DEF WorkerInv, RowOf
<1>4. OneWorkerPerAttempt'
  <2> SUFFICES ASSUME NEW v \in Workers, NEW w \in Workers, v # w,
                      Holding(v)', Holding(w)', worker'[v].job = worker'[w].job
               PROVE  worker'[v].attempt # worker'[w].attempt
    BY DEF OneWorkerPerAttempt
  <2>1. Holding(v) /\ Holding(w)
    BY <1>3 DEF Holding, Active
  <2>2. worker[v].job = worker[w].job
    BY <1>3 DEF Holding, Active
  <2> QED BY <1>3, <2>1, <2>2 DEF IInv, OneWorkerPerAttempt, Holding, Active
<1> QED BY <1>1, <1>2, <1>3, <1>4 DEF IInv
-----------------------------------------------------------------------------
(* The actions, one lemma each. *)

LEMMA WorkerColumns ==
  /\ Len(Stages) \in Nat
  /\ NoJob \in Jobs \cup {NoJob}
  /\ 0 \in Nat /\ 0 \in 0..MaxAttempts /\ 0 \in 0..Len(Stages)
  /\ TRUE \in BOOLEAN /\ FALSE \in BOOLEAN
BY StagesAssumption, AttemptsAssumption

LEMMA RestingType ==
  ASSUME NEW pc \in Places
  PROVE  Resting(pc) \in WorkerState
BY WorkerColumns DEF Resting, WorkerState, Outcomes

LEMMA RestStep ==
  ASSUME IInv, NEW w \in Workers, NEW pc \in {"idle", "dead"},
         pc = "dead" => w \in Faulty,
         worker' = [worker EXCEPT ![w] = Resting(pc)]
  PROVE  WorkersStep
<1>1. Resting(pc) \in WorkerState
  BY RestingType DEF Places
<1>2. Continues(w, worker[w], Resting(pc))
  BY DEF Continues, Sound, Resting, Active
<1> QED BY <1>1, <1>2, OneWorkerStep

\* What the invariant says of a worker that holds a job.
LEMMA HolderFacts ==
  ASSUME IInv, NEW w \in Workers, worker[w].pc \in Active
  PROVE  /\ worker[w].job \in Jobs
         /\ GoodRow(RowOf(w))
         /\ Claims(w, worker[w], RowOf(w))
         /\ RowOf(w) = jobs[worker[w].job]
BY DEF IInv, WorkerInv, Sound, RowOf, TypeOK, GoodRow

LEMMA SubmitKeeps ==
  ASSUME IInv, NEW j \in Jobs, Submit(j)
  PROVE  IInv'
<1>1. clock \in Nat /\ jobs[j] \in JobRow /\ RowInv(jobs[j])
  BY DEF IInv, TypeOK
<1>2. GoodRow(NewRecord(clock))
  BY <1>1, NewRecordGood
<1>3. Keeps(jobs[j], NewRecord(clock))
  <2>1. /\ jobs[j].attempt_count = 0 /\ ~jobs[j].cancellation_requested
    BY <1>1 DEF Submit, RowInv
  <2> QED BY <2>1 DEF Keeps, NewRecord, Absent
<1>4. JobsStep
  BY <1>2, <1>3, OneJobStep DEF Submit
<1>5. WorkersStep /\ clock' \in Nat
  BY <1>1, WorkersUnchanged DEF Submit
<1> QED BY <1>4, <1>5, StepKeepsInvariant

LEMMA RequestCancellationKeeps ==
  ASSUME IInv, NEW j \in Jobs, RequestCancellation(j)
  PROVE  IInv'
<1>1. clock \in Nat /\ GoodRow(jobs[j])
  BY DEF IInv, TypeOK, GoodRow
<1>2. /\ GoodRow(RequestCancellationRow(jobs[j]))
      /\ Keeps(jobs[j], RequestCancellationRow(jobs[j]))
  BY <1>1, RequestGood DEF RequestCancellation
<1>3. JobsStep
  BY <1>2, OneJobStep DEF RequestCancellation
<1>4. WorkersStep /\ clock' \in Nat
  BY <1>1, WorkersUnchanged DEF RequestCancellation
<1> QED BY <1>3, <1>4, StepKeepsInvariant

LEMMA StartKeeps ==
  ASSUME IInv, NEW w \in Workers, Start(w)
  PROVE  IInv'
<1>1. JobsStep /\ clock' \in Nat
  BY JobsUnchanged DEF Start, IInv, TypeOK
<1>2. WorkersStep
  BY RestStep DEF Start
<1> QED BY <1>1, <1>2, StepKeepsInvariant

LEMMA PollKeeps ==
  ASSUME IInv, NEW w \in Workers, Poll(w)
  PROVE  IInv'
<1> DEFINE t == [worker[w] EXCEPT !.pc = "recovering", !.now = clock]
<1>1. JobsStep /\ clock' \in Nat
  BY JobsUnchanged DEF Poll, IInv, TypeOK
<1>2. worker[w] \in WorkerState /\ clock \in Nat /\ WorkerInv(w)
  BY DEF IInv, TypeOK
<1>3. "recovering" \in Places
  BY DEF Places
<1>4. t \in WorkerState
  BY <1>2, <1>3 DEF WorkerState
<1>5. Continues(w, worker[w], t)
  BY <1>2 DEF Continues, Sound, Active, Poll, WorkerInv, WorkerState
<1>6. worker' = [worker EXCEPT ![w] = t]
  BY DEF Poll
<1>7. WorkersStep
  BY <1>4, <1>5, <1>6, OneWorkerStep
<1> QED BY <1>1, <1>7, StepKeepsInvariant

LEMMA RecoverExpiredLeasesKeeps ==
  ASSUME IInv, NEW w \in Workers, RecoverExpiredLeases(w)
  PROVE  IInv'
<1> DEFINE now == worker[w].now
           t == [worker[w] EXCEPT !.pc = "claiming"]
<1>1. worker[w] \in WorkerState /\ now \in Nat /\ WorkerInv(w) /\ clock' \in Nat
  BY DEF IInv, TypeOK, WorkerState, RecoverExpiredLeases
<1>2. PICK rows \in SUBSET {j \in Jobs : Expired(jobs[j], now)} :
        jobs' = [j \in Jobs |-> IF j \in rows THEN RecoverRow(jobs[j], now) ELSE jobs[j]]
  <2> DEFINE expired == {j \in Jobs : Expired(jobs[j], now)}
  <2>1. PICK locked \in LockedAmong(expired) :
          jobs' = [j \in Jobs |-> IF j \in expired \ locked
                                  THEN RecoverRow(jobs[j], now) ELSE jobs[j]]
    BY DEF RecoverExpiredLeases
  <2> QED BY <2>1
<1>3. ASSUME NEW j \in Jobs
      PROVE  GoodRow(jobs'[j]) /\ Keeps(jobs[j], jobs'[j])
  <2>1. GoodRow(jobs[j])
    BY DEF IInv, TypeOK, GoodRow
  <2>2. CASE j \in rows
    <3>1. jobs[j].status = "running"
      BY <2>2 DEF Expired
    <3> QED BY <1>1, <1>2, <2>1, <2>2, <3>1, RecoverGood
  <2>3. CASE j \notin rows
    BY <1>2, <2>1, <2>3 DEF Keeps
  <2> QED BY <2>2, <2>3
<1>4. JobsStep
  BY <1>2, <1>3 DEF JobsStep, GoodRow
<1>5. "claiming" \in Places
  BY DEF Places
<1>6. t \in WorkerState
  BY <1>1, <1>5 DEF WorkerState
<1>7. Continues(w, worker[w], t)
  BY <1>1 DEF Continues, Sound, Active, RecoverExpiredLeases, WorkerInv, WorkerState
<1>8. WorkersStep
  BY <1>6, <1>7, OneWorkerStep DEF RecoverExpiredLeases
<1> QED BY <1>1, <1>4, <1>8, StepKeepsInvariant

LEMMA ClaimNothingKeeps ==
  ASSUME IInv, NEW w \in Workers, ClaimNothing(w)
  PROVE  IInv'
<1>1. JobsStep /\ clock' \in Nat
  BY JobsUnchanged DEF ClaimNothing, IInv, TypeOK
<1>2. WorkersStep
  BY RestStep DEF ClaimNothing
<1> QED BY <1>1, <1>2, StepKeepsInvariant

\* The only step that starts an attempt: the row was queued, so nobody owned
\* it, and whoever still holds an earlier attempt of it holds a smaller one.
LEMMA ClaimNextKeeps ==
  ASSUME IInv, NEW w \in Workers, ClaimNext(w)
  PROVE  IInv'
<1> DEFINE now == worker[w].now
<1>1. PICK j \in Jobs :
        /\ Eligible(jobs[j], now)
        /\ jobs' = [jobs EXCEPT ![j] = ClaimRecord(@, w, now)]
        /\ worker' = [worker EXCEPT
             ![w] = [Resting("executing") EXCEPT
                       !.job = j, !.attempt = jobs[j].attempt_count + 1,
                       !.beating = TRUE, !.due = clock + HeartbeatEvery]]
  BY DEF ClaimNext, Candidate
<1> DEFINE r == jobs[j]
           s == ClaimRecord(r, w, now)
           a == r.attempt_count + 1
           t == [Resting("executing") EXCEPT
                   !.job = j, !.attempt = a, !.beating = TRUE,
                   !.due = clock + HeartbeatEvery]
<1>2. /\ GoodRow(r) /\ now \in Nat /\ clock \in Nat /\ clock' \in Nat
      /\ jobs \in [Jobs -> JobRow] /\ worker \in [Workers -> WorkerState]
  BY DEF IInv, TypeOK, GoodRow, WorkerState, ClaimNext
<1>3. GoodRow(s) /\ s.attempt_count = a /\ s.lease_owner = w
  BY <1>1, <1>2, ClaimGood
<1>4. jobs' = [jobs EXCEPT ![j] = s] /\ worker' = [worker EXCEPT ![w] = t]
  BY <1>1
<1>5. /\ r.attempt_count \in Nat /\ a \in 0..MaxAttempts /\ 0 < a
      /\ r.lease_owner = NoWorker
  BY <1>1, <1>2, <1>3 DEF GoodRow, JobRow, RowInv, RowConsistent, Eligible
<1>6. t \in WorkerState
  <2>1. Resting("executing") \in WorkerState
    BY RestingType DEF Places
  <2>2. clock + HeartbeatEvery \in Nat
    BY <1>2, HeartbeatAssumption
  <2>3. j \in Jobs \cup {NoJob}
    OBVIOUS
  <2> QED BY <1>5, <2>1, <2>2, <2>3, WorkerColumns DEF WorkerState
<1>7. /\ t.pc = "executing" /\ t.job = j /\ t.attempt = a /\ t.outcome = "none"
      /\ t.beating
  BY DEF Resting
<1>8. TypeOK'
  <2>1. s \in JobRow
    BY <1>3 DEF GoodRow
  <2> QED BY <1>2, <1>4, <1>6, <2>1 DEF TypeOK
<1>9. ASSUME NEW i \in Jobs
      PROVE  RowInv(jobs'[i])
  BY <1>2, <1>3, <1>4 DEF IInv, GoodRow
<1>10. ASSUME NEW v \in Workers, v # w, worker[v].pc \in Active
       PROVE  /\ Claims(v, worker[v], jobs'[worker[v].job])
              /\ worker[v].job = j => worker[v].attempt < a
  <2> DEFINE i == worker[v].job
  <2>1. i \in Jobs /\ Claims(v, worker[v], jobs[i])
    BY <1>10, HolderFacts
  <2>2. worker[v].attempt \in Nat
    BY <1>2, AttemptsAssumption DEF WorkerState
  <2>3. CASE i = j
    <3>1. worker[v].attempt <= r.attempt_count /\ 0 < worker[v].attempt
      BY <2>1, <2>3 DEF Claims
    <3>2. jobs'[i] = s
      BY <1>2, <1>4, <2>3
    <3>3. worker[v].outcome = "cancelled" =>
            worker[v].lost \/ s.cancellation_requested
      <4>1. ~r.cancellation_requested
        BY <1>1 DEF Eligible
      <4> QED BY <2>1, <2>3, <4>1 DEF Claims
    <3>4. worker[v].attempt < a
      BY <1>5, <2>2, <3>1
    <3> QED BY <1>3, <1>5, <1>10, <2>2, <3>1, <3>2, <3>3, <3>4 DEF Claims
  <2>4. CASE i # j
    BY <1>2, <1>4, <2>1, <2>4
  <2> QED BY <2>3, <2>4
<1>11. ASSUME NEW v \in Workers
       PROVE  WorkerInv(v)'
  <2>1. CASE v = w
    <3>1. Sound(w, t)
      BY <1>7 DEF Sound, Active
    <3>2. Claims(w, t, s)
      BY <1>3, <1>5, <1>7 DEF Claims
    <3> QED BY <1>2, <1>4, <1>7, <2>1, <3>1, <3>2 DEF WorkerInv, RowOf
  <2>2. CASE v # w
    <3>1. worker'[v] = worker[v] /\ WorkerInv(v)
      BY <1>2, <1>4, <2>2 DEF IInv
    <3> QED BY <1>10, <2>2, <3>1 DEF WorkerInv, RowOf
  <2> QED BY <2>1, <2>2
<1>12. OneWorkerPerAttempt'
  <2> SUFFICES ASSUME NEW u \in Workers, NEW v \in Workers, u # v,
                      Holding(u)', Holding(v)', worker'[u].job = worker'[v].job
               PROVE  worker'[u].attempt # worker'[v].attempt
    BY DEF OneWorkerPerAttempt
  <2>1. \A x \in Workers : x # w => worker'[x] = worker[x]
    BY <1>2, <1>4
  <2>2. worker'[w].job = j /\ worker'[w].attempt = a
    BY <1>2, <1>4, <1>7
  <2>3. \A x \in Workers : worker[x].attempt \in Nat
    BY <1>2, AttemptsAssumption DEF WorkerState
  <2>4. CASE u = w
    BY <1>5, <1>10, <2>1, <2>2, <2>3, <2>4 DEF Holding, Active
  <2>5. CASE v = w
    BY <1>5, <1>10, <2>1, <2>2, <2>3, <2>5 DEF Holding, Active
  <2>6. CASE u # w /\ v # w
    BY <2>1, <2>6 DEF IInv, OneWorkerPerAttempt, Holding
  <2> QED BY <2>4, <2>5, <2>6
<1> QED BY <1>8, <1>9, <1>11, <1>12 DEF IInv

\* A refused heartbeat, or one that meets any other error, ends the thread.
LEMMA LeaseLostStep ==
  ASSUME IInv, NEW w \in Workers, Beating(w),
         worker' = [worker EXCEPT ![w].lost = TRUE, ![w].beating = FALSE]
  PROVE  WorkersStep
<1> DEFINE t == [worker[w] EXCEPT !.lost = TRUE, !.beating = FALSE]
<1>1. worker[w] \in WorkerState /\ WorkerInv(w) /\ worker' = [worker EXCEPT ![w] = t]
  BY DEF IInv, TypeOK
<1>2. t \in WorkerState
  BY <1>1, WorkerColumns DEF WorkerState
<1>3. Continues(w, worker[w], t)
  BY <1>1 DEF Continues, Sound, Active, Beating, WorkerInv, WorkerState
<1> QED BY <1>1, <1>2, <1>3, OneWorkerStep

LEMMA HeartbeatKeeps ==
  ASSUME IInv, NEW w \in Workers, Heartbeat(w)
  PROVE  IInv'
<1>1. PICK now \in OperationTimes :
        IF OwnsValidLease(RowOf(w), w, now)
        THEN /\ jobs' = [jobs EXCEPT ![worker[w].job] = HeartbeatRow(@, now)]
             /\ worker' = [worker EXCEPT ![w].due = clock + HeartbeatEvery]
        ELSE /\ worker' = [worker EXCEPT ![w].lost = TRUE, ![w].beating = FALSE]
             /\ UNCHANGED jobs
  BY DEF Heartbeat
<1>2. /\ now \in Nat /\ clock \in Nat /\ clock' \in Nat
      /\ worker[w] \in WorkerState /\ WorkerInv(w)
  BY DEF IInv, TypeOK, OperationTimes, Heartbeat
<1>3. worker[w].pc \in Active
  BY <1>2 DEF Heartbeat, Beating, WorkerInv, Sound, Active
<1>4. worker[w].job \in Jobs /\ GoodRow(RowOf(w)) /\ RowOf(w) = jobs[worker[w].job]
  BY <1>3, HolderFacts
<1>5. CASE OwnsValidLease(RowOf(w), w, now)
  <2> DEFINE t == [worker[w] EXCEPT !.due = clock + HeartbeatEvery]
  <2>1. /\ GoodRow(HeartbeatRow(RowOf(w), now))
        /\ Keeps(RowOf(w), HeartbeatRow(RowOf(w), now))
    BY <1>2, <1>4, <1>5, HeartbeatGood DEF OwnsValidLease
  <2>2. JobsStep
    BY <1>1, <1>4, <1>5, <2>1, OneJobStep
  <2>3. clock + HeartbeatEvery \in Nat
    BY <1>2, HeartbeatAssumption
  <2>4. t \in WorkerState /\ worker' = [worker EXCEPT ![w] = t]
    BY <1>1, <1>2, <1>5, <2>3 DEF WorkerState
  <2>5. Continues(w, worker[w], t)
    BY <1>2 DEF Continues, Sound, Active, WorkerInv, Claims, WorkerState
  <2>6. WorkersStep
    BY <2>4, <2>5, OneWorkerStep
  <2> QED BY <1>2, <2>2, <2>6, StepKeepsInvariant
<1>6. CASE ~OwnsValidLease(RowOf(w), w, now)
  <2>1. JobsStep /\ WorkersStep
    BY <1>1, <1>6, JobsUnchanged, LeaseLostStep DEF Heartbeat
  <2> QED BY <1>2, <2>1, StepKeepsInvariant
<1> QED BY <1>5, <1>6

LEMMA HeartbeatErrorKeeps ==
  ASSUME IInv, NEW w \in Workers, HeartbeatError(w)
  PROVE  IInv'
<1>1. JobsStep /\ WorkersStep /\ clock' \in Nat
  BY JobsUnchanged, LeaseLostStep DEF HeartbeatError, IInv, TypeOK
<1> QED BY <1>1, StepKeepsInvariant

LEMMA EndHandlerStep ==
  ASSUME IInv, NEW w \in Workers, NEW outcome \in Outcomes, EndHandler(w, outcome),
         worker[w].pc \in {"executing", "reporting"},
         outcome = "cancelled" => worker[w].lost \/ RowOf(w).cancellation_requested
  PROVE  WorkersStep
<1> DEFINE t == [worker[w] EXCEPT !.pc = "ended", !.outcome = outcome]
<1>1. /\ worker[w] \in WorkerState /\ WorkerInv(w)
      /\ worker' = [worker EXCEPT ![w] = t]
  BY DEF IInv, TypeOK, EndHandler
<1>2. "ended" \in Places
  BY DEF Places
<1>3. t \in WorkerState
  BY <1>1, <1>2 DEF WorkerState
<1>4. Continues(w, worker[w], t)
  BY <1>1 DEF Continues, Sound, Active, WorkerInv, WorkerState, RowOf
<1> QED BY <1>1, <1>3, <1>4, OneWorkerStep

LEMMA ProbeKeeps ==
  ASSUME IInv, NEW w \in Workers, Probe(w)
  PROVE  IInv'
<1>1. JobsStep /\ clock' \in Nat
  BY JobsUnchanged DEF Probe, IInv, TypeOK
<1>2. CASE RowOf(w).cancellation_requested \/ worker[w].lost
  <2>1. WorkersStep
    BY <1>2, EndHandlerStep DEF Probe, Outcomes
  <2> QED BY <1>1, <2>1, StepKeepsInvariant
<1>3. CASE ~(RowOf(w).cancellation_requested \/ worker[w].lost)
  <2> DEFINE t == [worker[w] EXCEPT !.pc = "reporting"]
  <2>1. worker[w] \in WorkerState /\ WorkerInv(w) /\ "reporting" \in Places
    BY DEF IInv, TypeOK, Places
  <2>2. t \in WorkerState
    BY <2>1 DEF WorkerState
  <2>3. Continues(w, worker[w], t)
    BY <1>3, <2>1 DEF Continues, Sound, Active, Probe, WorkerInv, Claims, WorkerState, RowOf
  <2>4. WorkersStep
    BY <1>3, <2>2, <2>3, OneWorkerStep DEF Probe
  <2> QED BY <1>1, <2>4, StepKeepsInvariant
<1> QED BY <1>2, <1>3

LEMMA SequenceElement ==
  ASSUME NEW S, NEW s \in Seq(S), NEW i \in 1..Len(s)
  PROVE  s[i] \in S
OBVIOUS

LEMMA ReportProgressKeeps ==
  ASSUME IInv, NEW w \in Workers, ReportProgress(w)
  PROVE  IInv'
<1> DEFINE progress == Stages[worker[w].stage + 1]
           accepted(now) == OwnsValidLease(RowOf(w), w, now) /\ RowOf(w).progress <= progress
<1>1. PICK now \in OperationTimes :
        IF accepted(now)
        THEN /\ jobs' = [jobs EXCEPT ![worker[w].job] = ReportRow(@, progress, now)]
             /\ IF RowOf(w).cancellation_requested
                THEN EndHandler(w, "cancelled")
                ELSE worker' = [worker EXCEPT ![w].pc = "executing",
                                              ![w].stage = @ + 1]
        ELSE EndHandler(w, "retryable") /\ UNCHANGED jobs
  BY DEF ReportProgress
<1>2. /\ now \in Nat /\ clock' \in Nat
      /\ worker[w] \in WorkerState /\ WorkerInv(w) /\ worker[w].pc = "reporting"
  BY DEF IInv, TypeOK, OperationTimes, ReportProgress
<1>3. worker[w].job \in Jobs /\ GoodRow(RowOf(w)) /\ RowOf(w) = jobs[worker[w].job]
  BY <1>2, HolderFacts DEF Active
<1>4. CASE accepted(now)
  <2>1. worker[w].stage + 1 \in 1..Len(Stages)
    BY <1>2, WorkerColumns DEF WorkerInv, Sound, WorkerState
  <2>2. progress \in 0..99
    BY <2>1, StagesAssumption, SequenceElement
  <2>3. /\ GoodRow(ReportRow(RowOf(w), progress, now))
        /\ Keeps(RowOf(w), ReportRow(RowOf(w), progress, now))
    BY <1>2, <1>3, <1>4, <2>2, ReportGood DEF OwnsValidLease
  <2>4. JobsStep
    BY <1>1, <1>3, <1>4, <2>3, OneJobStep
  <2>5. CASE RowOf(w).cancellation_requested
    <3>1. WorkersStep
      BY <1>1, <1>2, <1>4, <2>5, EndHandlerStep DEF Outcomes
    <3> QED BY <1>2, <2>4, <3>1, StepKeepsInvariant
  <2>6. CASE ~RowOf(w).cancellation_requested
    <3> DEFINE t == [worker[w] EXCEPT !.pc = "executing", !.stage = @ + 1]
    <3>1. worker' = [worker EXCEPT ![w] = t]
      BY <1>1, <1>4, <2>6
    <3>2. "executing" \in Places /\ worker[w].stage + 1 \in 0..Len(Stages)
      BY <2>1, WorkerColumns DEF Places
    <3>3. t \in WorkerState
      BY <1>2, <3>2 DEF WorkerState
    <3>4. Continues(w, worker[w], t)
      BY <1>2 DEF Continues, Sound, Active, WorkerInv, Claims, WorkerState, RowOf
    <3>5. WorkersStep
      BY <3>1, <3>3, <3>4, OneWorkerStep
    <3> QED BY <1>2, <2>4, <3>5, StepKeepsInvariant
  <2> QED BY <2>5, <2>6
<1>5. CASE ~accepted(now)
  <2>1. JobsStep
    BY <1>1, <1>5, JobsUnchanged
  <2>2. WorkersStep
    BY <1>1, <1>2, <1>5, EndHandlerStep DEF Outcomes
  <2> QED BY <1>2, <2>1, <2>2, StepKeepsInvariant
<1> QED BY <1>4, <1>5

LEMMA HandlerRaisesKeeps ==
  ASSUME IInv, NEW w \in Workers, HandlerRaises(w)
  PROVE  IInv'
<1>1. JobsStep /\ WorkersStep /\ clock' \in Nat
  BY JobsUnchanged, EndHandlerStep DEF HandlerRaises, IInv, TypeOK, Outcomes
<1> QED BY <1>1, StepKeepsInvariant

LEMMA HandlerReturnsKeeps ==
  ASSUME IInv, NEW w \in Workers, HandlerReturns(w)
  PROVE  IInv'
<1>1. JobsStep /\ WorkersStep /\ clock' \in Nat
  BY JobsUnchanged, EndHandlerStep DEF HandlerReturns, IInv, TypeOK, Outcomes
<1> QED BY <1>1, StepKeepsInvariant

LEMMA SettleKeeps ==
  ASSUME IInv, NEW w \in Workers, Settle(w)
  PROVE  IInv'
<1>1. JobsStep /\ clock' \in Nat
  BY JobsUnchanged DEF Settle, IInv, TypeOK
<1>2. worker[w] \in WorkerState /\ WorkerInv(w) /\ worker[w].pc = "ended"
  BY DEF IInv, TypeOK, Settle
<1>3. PICK now \in OperationTimes :
        worker' = [worker EXCEPT ![w] =
          IF @.lost
          THEN Resting("idle")
          ELSE [@ EXCEPT !.pc = "settling", !.now = now, !.beating = FALSE]]
  BY DEF Settle
<1>4. now \in Nat
  BY DEF IInv, TypeOK, OperationTimes
<1>5. CASE worker[w].lost
  <2>1. worker' = [worker EXCEPT ![w] = Resting("idle")]
    BY <1>3, <1>5
  <2>2. WorkersStep
    BY <2>1, RestStep
  <2> QED BY <1>1, <2>2, StepKeepsInvariant
<1>6. CASE ~worker[w].lost
  <2> DEFINE t == [worker[w] EXCEPT !.pc = "settling", !.now = now, !.beating = FALSE]
  <2>1. worker' = [worker EXCEPT ![w] = t]
    BY <1>3, <1>6
  <2>2. "settling" \in Places
    BY DEF Places
  <2>3. t \in WorkerState
    BY <1>2, <1>4, <2>2, WorkerColumns DEF WorkerState
  <2>4. Continues(w, worker[w], t)
    BY <1>2, <1>6 DEF Continues, Sound, Active, WorkerInv, WorkerState
  <2>5. WorkersStep
    BY <2>1, <2>3, <2>4, OneWorkerStep
  <2> QED BY <1>1, <2>5, StepKeepsInvariant
<1> QED BY <1>5, <1>6

\* What a worker about to record an outcome knows: if it still owns its
\* lease, the row is running the attempt it claimed.
LEMMA SettlingFacts ==
  ASSUME IInv, NEW w \in Workers, worker[w].pc \in {"settling", "committing"}
  PROVE  /\ worker[w].now \in Nat
         /\ ~worker[w].lost
         /\ GoodRow(RowOf(w))
         /\ worker[w].outcome = "cancelled" => RowOf(w).cancellation_requested
         /\ OwnsValidLease(RowOf(w), w, worker[w].now) =>
              /\ RowOf(w).status = "running"
              /\ RowOf(w).attempt_count = worker[w].attempt
              /\ worker[w].attempt \in 1..MaxAttempts
<1>1. worker[w].pc \in Active
  BY DEF Active
<1>2. GoodRow(RowOf(w)) /\ Claims(w, worker[w], RowOf(w))
  BY <1>1, HolderFacts
<1>3. worker[w] \in WorkerState /\ ~worker[w].lost
  BY DEF IInv, TypeOK, WorkerInv, Sound
<1>4. worker[w].now \in Nat /\ worker[w].attempt \in 0..MaxAttempts
  BY <1>3 DEF WorkerState
<1>5. worker[w].attempt \in 1..MaxAttempts
  BY <1>2, <1>4, AttemptsAssumption DEF Claims
<1> QED BY <1>2, <1>3, <1>4, <1>5 DEF Claims, OwnsValidLease

LEMMA WriteAndRestKeeps ==
  ASSUME IInv, NEW w \in Workers, NEW row, WriteAndRest(w, row),
         worker[w].pc \in {"settling", "committing"},
         OwnsValidLease(RowOf(w), w, worker[w].now) =>
           GoodRow(row) /\ Keeps(RowOf(w), row)
  PROVE  IInv'
<1>1. WorkersStep /\ clock' \in Nat
  BY RestStep DEF WriteAndRest, IInv, TypeOK
<1>2. worker[w].job \in Jobs /\ RowOf(w) = jobs[worker[w].job]
  BY HolderFacts DEF Active
<1>3. CASE OwnsValidLease(RowOf(w), w, worker[w].now)
  <2>1. jobs' = [jobs EXCEPT ![worker[w].job] = row]
    BY <1>2, <1>3 DEF WriteAndRest
  <2>2. JobsStep
    BY <1>2, <1>3, <2>1, OneJobStep
  <2> QED BY <1>1, <2>2, StepKeepsInvariant
<1>4. CASE ~OwnsValidLease(RowOf(w), w, worker[w].now)
  <2>1. UNCHANGED jobs
    BY <1>2, <1>4 DEF WriteAndRest, IInv, TypeOK
  <2>2. JobsStep
    BY <2>1, JobsUnchanged
  <2> QED BY <1>1, <2>2, StepKeepsInvariant
<1> QED BY <1>3, <1>4

LEMMA SettleCancelledKeeps ==
  ASSUME IInv, NEW w \in Workers, SettleCancelled(w)
  PROVE  IInv'
<1>1. worker[w].pc = "settling" /\ worker[w].outcome = "cancelled"
  BY DEF SettleCancelled
<1>2. RowOf(w).cancellation_requested
  BY <1>1, SettlingFacts
<1>3. WriteAndRest(w, CancelledRow(RowOf(w)))
  BY <1>2 DEF SettleCancelled
<1>4. OwnsValidLease(RowOf(w), w, worker[w].now) =>
        GoodRow(CancelledRow(RowOf(w))) /\ Keeps(RowOf(w), CancelledRow(RowOf(w)))
  BY <1>1, SettlingFacts, CancelledGood
<1> QED BY <1>1, <1>3, <1>4, WriteAndRestKeeps

LEMMA SettleFailedKeeps ==
  ASSUME IInv, NEW w \in Workers, SettleFailed(w)
  PROVE  IInv'
<1> DEFINE retryable == worker[w].outcome = "retryable"
           row == FailRow(RowOf(w), retryable, worker[w].now)
<1>1. worker[w].pc = "settling" /\ WriteAndRest(w, row)
  BY DEF SettleFailed
<1>2. retryable \in BOOLEAN
  OBVIOUS
<1>3. OwnsValidLease(RowOf(w), w, worker[w].now) =>
        GoodRow(row) /\ Keeps(RowOf(w), row)
  <2> HIDE DEF retryable
  <2> QED BY <1>1, <1>2, SettlingFacts, FailGood
<1> HIDE DEF row
<1> QED BY <1>1, <1>3, WriteAndRestKeeps

LEMMA ReadBeforeSuccessKeeps ==
  ASSUME IInv, NEW w \in Workers, ReadBeforeSuccess(w)
  PROVE  IInv'
<1>1. JobsStep /\ clock' \in Nat
  BY JobsUnchanged DEF ReadBeforeSuccess, IInv, TypeOK
<1>2. worker[w] \in WorkerState /\ WorkerInv(w) /\ worker[w].pc = "settling"
  BY DEF IInv, TypeOK, ReadBeforeSuccess
<1> DEFINE t == IF RowOf(w).cancellation_requested
                THEN [worker[w] EXCEPT !.outcome = "cancelled"]
                ELSE [worker[w] EXCEPT !.pc = "committing"]
<1>3. worker' = [worker EXCEPT ![w] = t]
  BY DEF ReadBeforeSuccess
<1>4. t \in WorkerState
  <2>1. "committing" \in Places /\ "cancelled" \in Outcomes
    BY DEF Places, Outcomes
  <2> QED BY <1>2, <2>1 DEF WorkerState
<1>5. Continues(w, worker[w], t)
  BY <1>2 DEF Continues, Sound, Active, WorkerInv, Claims, WorkerState, RowOf
<1>6. WorkersStep
  BY <1>3, <1>4, <1>5, OneWorkerStep
<1> QED BY <1>1, <1>6, StepKeepsInvariant

LEMMA SucceedKeeps ==
  ASSUME IInv, NEW w \in Workers, Succeed(w)
  PROVE  IInv'
<1> DEFINE row == SucceedRow(RowOf(w), worker[w].attempt)
<1>1. worker[w].pc = "committing" /\ WriteAndRest(w, row)
  BY DEF Succeed
<1>2. OwnsValidLease(RowOf(w), w, worker[w].now) =>
        GoodRow(row) /\ Keeps(RowOf(w), row)
  BY <1>1, SettlingFacts, SucceedGood
<1> HIDE DEF row
<1> QED BY <1>1, <1>2, WriteAndRestKeeps

LEMMA CrashKeeps ==
  ASSUME IInv, NEW w \in Workers, Crash(w)
  PROVE  IInv'
<1>1. JobsStep /\ WorkersStep /\ clock' \in Nat
  BY JobsUnchanged, RestStep DEF Crash, IInv, TypeOK
<1> QED BY <1>1, StepKeepsInvariant

LEMMA TickKeeps ==
  ASSUME IInv, Tick
  PROVE  IInv'
<1>1. JobsStep /\ WorkersStep /\ clock' \in Nat
  BY JobsUnchanged, WorkersUnchanged DEF Tick, IInv, TypeOK
<1> QED BY <1>1, StepKeepsInvariant
-----------------------------------------------------------------------------
LEMMA InitEstablishes == Init => IInv
<1> SUFFICES ASSUME Init PROVE IInv
  OBVIOUS
<1>1. TypeOK
  <2>1. Absent \in JobRow
    BY AbsentGood DEF GoodRow
  <2>2. Resting("stopped") \in WorkerState
    BY RestingType DEF Places
  <2> QED BY <2>1, <2>2 DEF Init, TypeOK
<1>2. \A j \in Jobs : RowInv(jobs[j])
  BY AbsentGood DEF Init, GoodRow
<1>3. \A w \in Workers : WorkerInv(w)
  BY DEF Init, WorkerInv, Sound, Resting, Active
<1>4. OneWorkerPerAttempt
  BY DEF Init, OneWorkerPerAttempt, Holding, Resting
<1> QED BY <1>1, <1>2, <1>3, <1>4 DEF IInv

LEMMA NextPreserves == IInv /\ [Next]_vars => IInv'
<1> SUFFICES ASSUME IInv, [Next]_vars PROVE IInv'
  OBVIOUS
<1>1. CASE Client
  BY <1>1, SubmitKeeps, RequestCancellationKeeps DEF Client
<1>2. ASSUME NEW w \in Workers, RunOnce(w)
      PROVE  IInv'
  BY <1>2, PollKeeps, RecoverExpiredLeasesKeeps, ClaimNextKeeps, ClaimNothingKeeps
     DEF RunOnce
<1>3. ASSUME NEW w \in Workers, Handler(w)
      PROVE  IInv'
  BY <1>3, ProbeKeeps, ReportProgressKeeps, HandlerRaisesKeeps, HandlerReturnsKeeps
     DEF Handler
<1>4. ASSUME NEW w \in Workers, Outcome(w)
      PROVE  IInv'
  BY <1>4, SettleKeeps, SettleCancelledKeeps, SettleFailedKeeps,
     ReadBeforeSuccessKeeps, SucceedKeeps DEF Outcome
<1>5. ASSUME NEW w \in Workers,
             Start(w) \/ Heartbeat(w) \/ HeartbeatError(w) \/ Crash(w)
      PROVE  IInv'
  BY <1>5, StartKeeps, HeartbeatKeeps, HeartbeatErrorKeeps, CrashKeeps
<1>6. CASE Tick
  BY <1>6, TickKeeps
<1>7. CASE UNCHANGED vars
  <2>1. JobsStep /\ WorkersStep /\ clock' \in Nat
    BY <1>7, JobsUnchanged, WorkersUnchanged DEF vars, IInv, TypeOK
  <2> QED BY <2>1, StepKeepsInvariant
<1> QED BY <1>1, <1>2, <1>3, <1>4, <1>5, <1>6, <1>7 DEF Next

\* The queue never leaves its inductive invariant.
THEOREM QueueInvariant == Spec => []IInv
<1>1. Init => IInv
  BY InitEstablishes
<1>2. IInv /\ [Next]_vars => IInv'
  BY NextPreserves
<1> QED BY <1>1, <1>2, PTL DEF Spec

\* Rows, thread states and the clock keep their types; in particular no
\* sequence of claims, failures and recoveries takes attempt_count past
\* max_attempts, although claim_next does not compare them.
THEOREM TypeCorrect == Spec => []TypeOK
<1>1. IInv => TypeOK
  BY DEF IInv
<1> QED BY <1>1, QueueInvariant, PTL

\* No transaction of the queue is refused by the CHECK constraint
\* lifecycle_consistency of the jobs table.
THEOREM LifecycleIsConsistent == Spec => []LifecycleConsistency
<1>1. IInv => LifecycleConsistency
  BY DEF IInv, RowInv, LifecycleConsistency
<1> QED BY <1>1, QueueInvariant, PTL

\* A queued job always has an attempt left.
THEOREM QueuedJobsHaveBudget == Spec => []QueuedHasBudget
<1>1. IInv => QueuedHasBudget
  BY DEF IInv, RowInv, QueuedHasBudget
<1> QED BY <1>1, QueueInvariant, PTL

\* A job whose cancellation was requested is never queued again and never
\* recorded as failed.
THEOREM CancelledJobsAreNotRetried == Spec => []CancellationNeverRetried
<1>1. IInv => CancellationNeverRetried
  BY DEF IInv, RowInv, CancellationNeverRetried
<1> QED BY <1>1, QueueInvariant, PTL

\* The result of a succeeded job was produced by its last attempt: a worker
\* whose lease was recovered cannot publish over its replacement.
THEOREM StaleWorkersAreFenced == Spec => []ResultOfLastAttempt
<1>1. IInv => ResultOfLastAttempt
  BY DEF IInv, RowInv, ResultOfLastAttempt
<1> QED BY <1>1, QueueInvariant, PTL

\* Two threads that hold one job at the same time hold different attempts.
THEOREM AttemptsAreExclusive == Spec => []OneWorkerPerAttempt
<1>1. IInv => OneWorkerPerAttempt
  BY DEF IInv
<1> QED BY <1>1, QueueInvariant, PTL

\* Every row committed satisfies the CHECK constraint, keeps an attempt for
\* its next claim and is never retried once its cancellation was requested.
THEOREM RowsAreSound == Spec => []JobRowsSound
<1> QED
  BY LifecycleIsConsistent, QueuedJobsHaveBudget, CancelledJobsAreNotRetried, PTL
  DEF JobRowsSound

\* A replaced worker shares no attempt with its replacement and publishes
\* nothing over it.
THEOREM FencingHolds == Spec => []AttemptsAreFenced
<1> QED
  BY AttemptsAreExclusive, StaleWorkersAreFenced, PTL DEF AttemptsAreFenced

\* A worker thread outside Faulty never ends: the InvalidJobTransitionError
\* of cancel() cannot reach run_forever.
THEOREM ReliableWorkersSurvive == Spec => []ReliableWorkerSurvives
<1>1. IInv => ReliableWorkerSurvives
  BY DEF IInv, WorkerInv, Sound, ReliableWorkerSurvives
<1> QED BY <1>1, QueueInvariant, PTL
-----------------------------------------------------------------------------
(* What the steps of the queue may do: a step moves a row by one repository  *)
(* operation whose guard held, on somebody's behalf; and no thread carries   *)
(* a time that lies ahead of the clock.                                      *)

\* No thread carries a time that lies ahead of the clock.
WorkerClock(w) ==
  /\ worker[w].now <= clock
  /\ worker[w].due <= clock + HeartbeatEvery

Clocked == \A w \in Workers : WorkerClock(w)

SInv == IInv /\ Clocked

\* What the API may do to the row r of a job at time t.
ClientMove(r, s, t) ==
  \/ r.status = "absent" /\ s = NewRecord(t)
  \/ r.status # "absent" /\ s = RequestCancellationRow(r)

\* Lease recovery and the claim, with a `now` that any thread sampled.
Recovers(r, s) ==
  \E now \in 0..clock : Expired(r, now) /\ s = RecoverRow(r, now)
ClaimedBy(r, s, w) ==
  \E now \in 0..clock : Eligible(r, now) /\ s = ClaimRecord(r, w, now)

\* The leased writes while the handler runs.
Renews(r, s, w) ==
  \E now \in OperationTimes :
    /\ OwnsValidLease(r, w, now)
    /\ \/ s = HeartbeatRow(r, now)
       \/ \E p \in 0..99 : r.progress <= p /\ s = ReportRow(r, p, now)

\* The leased write that ends an attempt.
Publishes(r, s, w) ==
  /\ OwnsValidLease(r, w, worker[w].now)
  /\ \/ r.cancellation_requested /\ s = CancelledRow(r)
     \/ \E retryable \in BOOLEAN : s = FailRow(r, retryable, worker[w].now)
     \/ s = SucceedRow(r, r.attempt_count)

Settles(j, w) ==
  /\ worker[w].pc \in {"settling", "committing"}
  /\ worker[w].job = j
  /\ worker[w].attempt = jobs[j].attempt_count
  /\ ~Holding(w)'
  /\ Publishes(jobs[j], jobs'[j], w)

\* What a step of worker w may do to the row of job j.
WorkerMove(j, w) ==
  \/ jobs'[j] = jobs[j]
  \/ Recovers(jobs[j], jobs'[j])
  \/ ClaimedBy(jobs[j], jobs'[j], w)
  \/ Renews(jobs[j], jobs'[j], w)
  \/ Settles(j, w)

\* A step of worker w: the other threads are as they were.
StepOf(w) ==
  /\ \A v \in Workers \ {w} : worker'[v] = worker[v]
  /\ \A j \in Jobs : WorkerMove(j, w)
  /\ clock' = clock

ClientStep ==
  /\ \A j \in Jobs : jobs'[j] = jobs[j] \/ ClientMove(jobs[j], jobs'[j], clock)
  /\ UNCHANGED <<worker, clock>>
-----------------------------------------------------------------------------
(* The steps of each process are moves. *)

LEMMA ClientMoves ==
  ASSUME IInv, Client
  PROVE  ClientStep
<1>1. PICK j \in Jobs : Submit(j) \/ RequestCancellation(j)
  BY DEF Client
<1> QED BY <1>1 DEF Submit, RequestCancellation, ClientStep, ClientMove, IInv, TypeOK

\* A worker that leaves the table alone.
LEMMA QuietStep ==
  ASSUME IInv, NEW w \in Workers, NEW t, worker' = [worker EXCEPT ![w] = t],
         UNCHANGED <<jobs, clock>>
  PROVE  StepOf(w)
BY DEF StepOf, WorkerMove, IInv, TypeOK

\* A worker that writes the row of one job.
LEMMA WritingStep ==
  ASSUME IInv, NEW w \in Workers, NEW j \in Jobs, NEW s, NEW t,
         jobs' = [jobs EXCEPT ![j] = s], worker' = [worker EXCEPT ![w] = t],
         clock' = clock, WorkerMove(j, w)
  PROVE  StepOf(w)
BY DEF StepOf, WorkerMove, IInv, TypeOK

LEMMA StartMoves ==
  ASSUME IInv, NEW w \in Workers, Start(w) \/ HeartbeatError(w) \/ Crash(w)
  PROVE  StepOf(w)
BY QuietStep DEF Start, HeartbeatError, Crash

LEMMA RunOnceMoves ==
  ASSUME SInv, NEW w \in Workers, RunOnce(w)
  PROVE  StepOf(w)
<1> DEFINE now == worker[w].now
<1>1. IInv /\ now \in 0..clock
  BY DEF SInv, Clocked, WorkerClock, IInv, TypeOK, WorkerState
<1>2. CASE Poll(w) \/ ClaimNothing(w)
  BY <1>1, <1>2, QuietStep DEF Poll, ClaimNothing
<1>3. CASE RecoverExpiredLeases(w)
  <2> DEFINE expired == {j \in Jobs : Expired(jobs[j], now)}
  <2>1. PICK locked \in LockedAmong(expired) :
          jobs' = [j \in Jobs |-> IF j \in expired \ locked
                                  THEN RecoverRow(jobs[j], now) ELSE jobs[j]]
    BY <1>3 DEF RecoverExpiredLeases
  <2>2. \A j \in Jobs : WorkerMove(j, w)
    BY <1>1, <2>1 DEF WorkerMove, Recovers
  <2> QED BY <1>1, <1>3, <2>2 DEF StepOf, RecoverExpiredLeases, IInv, TypeOK
<1>4. CASE ClaimNext(w)
  <2>1. PICK j \in Jobs :
          /\ Eligible(jobs[j], now)
          /\ jobs' = [jobs EXCEPT ![j] = ClaimRecord(@, w, now)]
          /\ worker' = [worker EXCEPT
               ![w] = [Resting("executing") EXCEPT
                         !.job = j, !.attempt = jobs[j].attempt_count + 1,
                         !.beating = TRUE, !.due = clock + HeartbeatEvery]]
    BY <1>4 DEF ClaimNext, Candidate
  <2>2. WorkerMove(j, w)
    BY <1>1, <2>1 DEF WorkerMove, ClaimedBy, IInv, TypeOK
  <2> HIDE DEF now
  <2> QED BY <1>1, <1>4, <2>1, <2>2, WritingStep DEF ClaimNext
<1> QED BY <1>2, <1>3, <1>4 DEF RunOnce

LEMMA HeartbeatMoves ==
  ASSUME IInv, NEW w \in Workers, Heartbeat(w)
  PROVE  StepOf(w)
<1> DEFINE j == worker[w].job
<1>1. PICK now \in OperationTimes :
        IF OwnsValidLease(RowOf(w), w, now)
        THEN /\ jobs' = [jobs EXCEPT ![worker[w].job] = HeartbeatRow(@, now)]
             /\ worker' = [worker EXCEPT ![w].due = clock + HeartbeatEvery]
        ELSE /\ worker' = [worker EXCEPT ![w].lost = TRUE, ![w].beating = FALSE]
             /\ UNCHANGED jobs
  BY DEF Heartbeat
<1>2. j \in Jobs /\ RowOf(w) = jobs[j] /\ clock' = clock
  BY HolderFacts DEF Heartbeat, Beating, IInv, WorkerInv, Sound, Active
<1>3. CASE OwnsValidLease(RowOf(w), w, now)
  <2>1. WorkerMove(j, w)
    BY <1>1, <1>2, <1>3 DEF WorkerMove, Renews, IInv, TypeOK
  <2> QED BY <1>1, <1>2, <1>3, <2>1, WritingStep
<1>4. CASE ~OwnsValidLease(RowOf(w), w, now)
  BY <1>1, <1>2, <1>4, QuietStep
<1> QED BY <1>3, <1>4

LEMMA HandlerMoves ==
  ASSUME IInv, NEW w \in Workers, Handler(w)
  PROVE  StepOf(w)
<1>1. CASE Probe(w) \/ HandlerRaises(w) \/ HandlerReturns(w)
  BY <1>1, QuietStep DEF Probe, HandlerRaises, HandlerReturns, EndHandler
<1>2. CASE ReportProgress(w)
  <2> DEFINE progress == Stages[worker[w].stage + 1]
             accepted(now) == OwnsValidLease(RowOf(w), w, now) /\ RowOf(w).progress <= progress
             j == worker[w].job
  <2>1. PICK now \in OperationTimes :
          IF accepted(now)
          THEN /\ jobs' = [jobs EXCEPT ![worker[w].job] = ReportRow(@, progress, now)]
               /\ IF RowOf(w).cancellation_requested
                  THEN EndHandler(w, "cancelled")
                  ELSE worker' = [worker EXCEPT ![w].pc = "executing",
                                                ![w].stage = @ + 1]
          ELSE EndHandler(w, "retryable") /\ UNCHANGED jobs
    BY <1>2 DEF ReportProgress
  <2>2. PICK t : worker' = [worker EXCEPT ![w] = t]
    BY <2>1 DEF EndHandler
  <2>3. worker[w] \in WorkerState /\ WorkerInv(w) /\ worker[w].pc = "reporting"
    BY <1>2 DEF IInv, TypeOK, ReportProgress
  <2>4. j \in Jobs /\ RowOf(w) = jobs[j] /\ clock' = clock
    BY <1>2, <2>3, HolderFacts DEF ReportProgress, Active
  <2>5. worker[w].stage + 1 \in 1..Len(Stages)
    BY <2>3, WorkerColumns DEF WorkerInv, Sound, WorkerState
  <2>6. progress \in 0..99
    BY <2>5, StagesAssumption, SequenceElement
  <2>7. CASE accepted(now)
    <3>1. jobs' = [jobs EXCEPT ![j] = ReportRow(jobs[j], progress, now)]
      BY <2>1, <2>7
    <3>2. WorkerMove(j, w)
      <4> HIDE DEF progress
      <4> QED BY <2>4, <2>6, <2>7, <3>1 DEF WorkerMove, Renews, IInv, TypeOK
    <3> QED BY <2>2, <2>4, <3>1, <3>2, WritingStep
  <2>8. CASE ~accepted(now)
    BY <2>1, <2>2, <2>4, <2>8, QuietStep
  <2> QED BY <2>7, <2>8
<1> QED BY <1>1, <1>2 DEF Handler

\* A worker that writes its outcome: either the lease was lost, and nothing
\* is written, or the row gets it and the attempt is over.
LEMMA WriteAndRestMoves ==
  ASSUME IInv, NEW w \in Workers, NEW row, WriteAndRest(w, row),
         worker[w].pc \in {"settling", "committing"},
         OwnsValidLease(RowOf(w), w, worker[w].now) => Publishes(RowOf(w), row, w)
  PROVE  StepOf(w)
<1> DEFINE j == worker[w].job
<1>1. j \in Jobs /\ RowOf(w) = jobs[j] /\ clock' = clock
  BY HolderFacts DEF Active, WriteAndRest
<1>2. CASE OwnsValidLease(RowOf(w), w, worker[w].now)
  <2>1. jobs' = [jobs EXCEPT ![j] = row] /\ worker' = [worker EXCEPT ![w] = Resting("idle")]
    BY <1>1, <1>2 DEF WriteAndRest
  <2>2. ~Holding(w)'
    BY <2>1 DEF IInv, TypeOK, Holding, Resting
  <2>3. worker[w].attempt = jobs[j].attempt_count
    BY <1>1, <1>2, SettlingFacts
  <2>4. Settles(j, w)
    BY <1>1, <1>2, <2>1, <2>2, <2>3 DEF Settles, IInv, TypeOK
  <2> QED BY <1>1, <2>1, <2>4, WritingStep DEF WorkerMove
<1>3. CASE ~OwnsValidLease(RowOf(w), w, worker[w].now)
  <2>1. UNCHANGED jobs
    BY <1>1, <1>3 DEF WriteAndRest, IInv, TypeOK
  <2> QED BY <1>1, <2>1, QuietStep DEF WriteAndRest
<1> QED BY <1>2, <1>3

LEMMA OutcomeMoves ==
  ASSUME IInv, NEW w \in Workers, Outcome(w)
  PROVE  StepOf(w)
<1>1. CASE Settle(w) \/ ReadBeforeSuccess(w)
  BY <1>1, QuietStep DEF Settle, ReadBeforeSuccess
<1>2. CASE SettleCancelled(w)
  <2>1. /\ worker[w].pc = "settling" /\ worker[w].outcome = "cancelled"
        /\ RowOf(w).cancellation_requested
    BY <1>2, SettlingFacts DEF SettleCancelled
  <2>2. WriteAndRest(w, CancelledRow(RowOf(w)))
    BY <1>2, <2>1 DEF SettleCancelled
  <2> QED BY <2>1, <2>2, WriteAndRestMoves DEF Publishes
<1>3. CASE SettleFailed(w)
  <2> DEFINE retryable == worker[w].outcome = "retryable"
  <2>1. worker[w].pc = "settling"
        /\ WriteAndRest(w, FailRow(RowOf(w), retryable, worker[w].now))
    BY <1>3 DEF SettleFailed
  <2>2. OwnsValidLease(RowOf(w), w, worker[w].now) =>
          Publishes(RowOf(w), FailRow(RowOf(w), retryable, worker[w].now), w)
    BY DEF Publishes
  <2> QED BY <2>1, <2>2, WriteAndRestMoves
<1>4. CASE Succeed(w)
  <2>1. worker[w].pc = "committing"
        /\ WriteAndRest(w, SucceedRow(RowOf(w), worker[w].attempt))
    BY <1>4 DEF Succeed
  <2>2. OwnsValidLease(RowOf(w), w, worker[w].now) =>
          Publishes(RowOf(w), SucceedRow(RowOf(w), worker[w].attempt), w)
    BY <2>1, SettlingFacts DEF Publishes
  <2> QED BY <2>1, <2>2, WriteAndRestMoves
<1> QED BY <1>1, <1>2, <1>3, <1>4 DEF Outcome

\* Every step of the queue is a step of the API, of one worker, or of time.
LEMMA StepMoves ==
  ASSUME SInv, Next
  PROVE  \/ ClientStep
         \/ \E w \in Workers : StepOf(w)
         \/ Tick
BY ClientMoves, StartMoves, RunOnceMoves, HeartbeatMoves, HandlerMoves, OutcomeMoves
   DEF Next, SInv
-----------------------------------------------------------------------------
(* The clock never falls behind a time that a thread carries. *)

LEMMA OneWorkerClock ==
  ASSUME SInv, NEW w \in Workers, NEW t, worker' = [worker EXCEPT ![w] = t],
         clock' = clock, t.now <= clock, t.due <= clock + HeartbeatEvery
  PROVE  Clocked'
BY DEF SInv, IInv, TypeOK, Clocked, WorkerClock

LEMMA RestingClock ==
  ASSUME SInv, NEW w \in Workers, NEW pc, worker' = [worker EXCEPT ![w] = Resting(pc)],
         clock' = clock
  PROVE  Clocked'
<1>1. clock \in Nat /\ HeartbeatEvery \in Nat
  BY HeartbeatAssumption DEF SInv, IInv, TypeOK
<1>2. Resting(pc).now = 0 /\ Resting(pc).due = 0
  BY DEF Resting
<1>3. Resting(pc).now <= clock /\ Resting(pc).due <= clock + HeartbeatEvery
  BY <1>1, <1>2
<1> QED BY <1>3, OneWorkerClock

LEMMA EndHandlerClock ==
  ASSUME SInv, NEW w \in Workers, NEW outcome, EndHandler(w, outcome), clock' = clock
  PROVE  Clocked'
<1> DEFINE t == [worker[w] EXCEPT !.pc = "ended", !.outcome = outcome]
<1>1. worker[w] \in WorkerState /\ worker' = [worker EXCEPT ![w] = t]
  BY DEF EndHandler, SInv, IInv, TypeOK
<1>2. t.now = worker[w].now /\ t.due = worker[w].due
  BY <1>1 DEF WorkerState
<1> QED BY <1>1, <1>2, OneWorkerClock DEF SInv, Clocked, WorkerClock

LEMMA WorkerKeepsClock ==
  ASSUME SInv, NEW w \in Workers,
         \/ Start(w) \/ RunOnce(w) \/ Heartbeat(w) \/ HeartbeatError(w)
         \/ Handler(w) \/ Outcome(w) \/ Crash(w)
  PROVE  Clocked'
<1>1. /\ worker[w] \in WorkerState /\ clock \in Nat /\ HeartbeatEvery \in Nat
      /\ worker[w].now <= clock /\ worker[w].due <= clock + HeartbeatEvery
      /\ worker[w].now \in Nat /\ worker[w].due \in Nat
  BY HeartbeatAssumption DEF SInv, IInv, TypeOK, Clocked, WorkerClock, WorkerState
<1>2. CASE Start(w) \/ ClaimNothing(w) \/ Crash(w)
  BY <1>2, RestingClock DEF Start, ClaimNothing, Crash
<1>3. CASE Poll(w)
  <2> DEFINE t == [worker[w] EXCEPT !.pc = "recovering", !.now = clock]
  <2>1. t.now = clock /\ t.due = worker[w].due
    BY <1>1 DEF WorkerState
  <2>2. clock' = clock /\ worker' = [worker EXCEPT ![w] = t]
    BY <1>3 DEF Poll
  <2>3. t.now <= clock /\ t.due <= clock + HeartbeatEvery
    BY <1>1, <2>1
  <2> HIDE DEF t
  <2> QED BY <2>2, <2>3, OneWorkerClock
<1>4. CASE RecoverExpiredLeases(w)
  <2> DEFINE t == [worker[w] EXCEPT !.pc = "claiming"]
  <2>1. t.now = worker[w].now /\ t.due = worker[w].due
    BY <1>1 DEF WorkerState
  <2> QED BY <1>1, <1>4, <2>1, OneWorkerClock DEF RecoverExpiredLeases
<1>5. CASE ClaimNext(w)
  <2>1. PICK j \in Jobs :
          worker' = [worker EXCEPT
            ![w] = [Resting("executing") EXCEPT
                      !.job = j, !.attempt = jobs[j].attempt_count + 1,
                      !.beating = TRUE, !.due = clock + HeartbeatEvery]]
    BY <1>5 DEF ClaimNext
  <2> DEFINE t == [Resting("executing") EXCEPT
                     !.job = j, !.attempt = jobs[j].attempt_count + 1,
                     !.beating = TRUE, !.due = clock + HeartbeatEvery]
  <2>2. t.now = 0 /\ t.due = clock + HeartbeatEvery
    BY DEF Resting
  <2>3. t.now <= clock /\ t.due <= clock + HeartbeatEvery
    BY <1>1, <2>2
  <2> HIDE DEF t
  <2> QED BY <1>5, <2>1, <2>3, OneWorkerClock DEF ClaimNext, t
<1>6. CASE Heartbeat(w) \/ HeartbeatError(w)
  <2> DEFINE renewed == [worker[w] EXCEPT !.due = clock + HeartbeatEvery]
             gone == [worker[w] EXCEPT !.lost = TRUE, !.beating = FALSE]
  <2>1. /\ renewed.now = worker[w].now /\ renewed.due = clock + HeartbeatEvery
        /\ gone.now = worker[w].now /\ gone.due = worker[w].due
    BY <1>1 DEF WorkerState
  <2>2. /\ clock' = clock
        /\ \/ worker' = [worker EXCEPT ![w] = renewed]
           \/ worker' = [worker EXCEPT ![w] = gone]
    BY <1>6 DEF Heartbeat, HeartbeatError
  <2> HIDE DEF renewed, gone
  <2> QED BY <1>1, <2>1, <2>2, OneWorkerClock
<1>7. CASE Handler(w)
  <2> DEFINE asking == [worker[w] EXCEPT !.pc = "reporting"]
             going == [worker[w] EXCEPT !.pc = "executing", !.stage = @ + 1]
  <2>1. /\ asking.now = worker[w].now /\ asking.due = worker[w].due
        /\ going.now = worker[w].now /\ going.due = worker[w].due
    BY <1>1 DEF WorkerState
  <2>2. /\ clock' = clock
        /\ \/ \E outcome : EndHandler(w, outcome)
           \/ worker' = [worker EXCEPT ![w] = asking]
           \/ worker' = [worker EXCEPT ![w] = going]
    BY <1>7 DEF Handler, Probe, ReportProgress, HandlerRaises, HandlerReturns
  <2> HIDE DEF asking, going
  <2> QED BY <1>1, <2>1, <2>2, OneWorkerClock, EndHandlerClock
<1>8. CASE Settle(w)
  <2>1. PICK now \in OperationTimes :
          worker' = [worker EXCEPT ![w] =
            IF @.lost
            THEN Resting("idle")
            ELSE [@ EXCEPT !.pc = "settling", !.now = now, !.beating = FALSE]]
    BY <1>8 DEF Settle
  <2> DEFINE t == [worker[w] EXCEPT !.pc = "settling", !.now = now, !.beating = FALSE]
  <2>2. t.now = now /\ t.due = worker[w].due /\ now <= clock
    BY <1>1 DEF WorkerState, OperationTimes
  <2>3. clock' = clock /\ (worker' = [worker EXCEPT ![w] = Resting("idle")]
                           \/ worker' = [worker EXCEPT ![w] = t])
    BY <1>8, <2>1 DEF Settle
  <2> HIDE DEF t
  <2> QED BY <1>1, <2>2, <2>3, OneWorkerClock, RestingClock
<1>9. CASE ReadBeforeSuccess(w)
  <2> DEFINE t == IF RowOf(w).cancellation_requested
                  THEN [worker[w] EXCEPT !.outcome = "cancelled"]
                  ELSE [worker[w] EXCEPT !.pc = "committing"]
  <2>1. t.now = worker[w].now /\ t.due = worker[w].due
    BY <1>1 DEF WorkerState
  <2> QED BY <1>1, <1>9, <2>1, OneWorkerClock DEF ReadBeforeSuccess
<1>10. CASE SettleCancelled(w) \/ SettleFailed(w) \/ Succeed(w)
  BY <1>10, RestingClock DEF SettleCancelled, SettleFailed, Succeed, WriteAndRest
<1> QED
  BY <1>2, <1>3, <1>4, <1>5, <1>6, <1>7, <1>8, <1>9, <1>10 DEF RunOnce, Outcome

LEMMA ClockedPreserved == SInv /\ [Next]_vars => Clocked'
<1> SUFFICES ASSUME SInv, [Next]_vars PROVE Clocked'
  OBVIOUS
<1>1. CASE Client
  BY <1>1 DEF Client, Submit, RequestCancellation, SInv, Clocked, WorkerClock
<1>2. CASE Tick
  <2>1. clock \in Nat /\ clock' = clock + 1 /\ UNCHANGED worker /\ HeartbeatEvery \in Nat
    BY <1>2, HeartbeatAssumption DEF Tick, SInv, IInv, TypeOK
  <2>2. \A w \in Workers : worker[w].now \in Nat /\ worker[w].due \in Nat
    BY DEF SInv, IInv, TypeOK, WorkerState
  <2> QED BY <2>1, <2>2 DEF SInv, Clocked, WorkerClock
<1>3. CASE UNCHANGED vars
  BY <1>3 DEF vars, SInv, Clocked, WorkerClock
<1> QED BY <1>1, <1>2, <1>3, WorkerKeepsClock DEF Next

\* No thread works with a time ahead of the clock.
THEOREM StepInvariant == Spec => []SInv
<1>1. Init => Clocked
  <2>1. Resting("stopped").now = 0 /\ Resting("stopped").due = 0
    BY DEF Resting
  <2> SUFFICES ASSUME Init, NEW w \in Workers PROVE WorkerClock(w)
    BY DEF Clocked
  <2>2. worker[w].now = 0 /\ worker[w].due = 0 /\ clock = 0
    BY <2>1 DEF Init
  <2> QED BY <2>2, HeartbeatAssumption DEF WorkerClock
<1>2. Init => SInv
  BY <1>1, InitEstablishes DEF SInv
<1>3. SInv /\ [Next]_vars => SInv'
  BY ClockedPreserved, NextPreserves DEF SInv
<1> QED BY <1>2, <1>3, PTL DEF Spec
-----------------------------------------------------------------------------
(* Progress *)

\* What every repository operation does to the progress column.
LEMMA RowProgress ==
  ASSUME SInv, NEW j \in Jobs, jobs[j].status = "running",
         jobs'[j].status # "queued",
         \/ ClientMove(jobs[j], jobs'[j], clock)
         \/ \E w \in Workers : WorkerMove(j, w)
  PROVE  jobs'[j].progress >= jobs[j].progress
<1> DEFINE r == jobs[j]
           s == jobs'[j]
<1>1. r \in JobRow /\ r.progress \in 0..100 /\ clock \in Nat
  BY DEF SInv, IInv, TypeOK, JobRow
<1> HIDE DEF r
<1>2. CancelledRow(r).progress = r.progress
  BY <1>1 DEF CancelledRow, ClearLease, JobRow
<1>3. \A p \in Problems : FailedRow(r, p).progress = r.progress
  BY <1>1 DEF FailedRow, ClearLease, JobRow
<1>4. \A n \in Int : RequeuedRow(r, n).status = "queued"
  BY <1>1 DEF RequeuedRow, ClearLease, JobRow
<1>5. CASE ClientMove(r, s, clock)
  <2>1. s = [r EXCEPT !.cancellation_requested = TRUE]
    BY <1>5 DEF ClientMove, RequestCancellationRow, Terminal, r
  <2> QED BY <1>1, <2>1 DEF JobRow, r
<1>6. CASE Recovers(r, s)
  <2>1. PICK now \in 0..clock : s = RecoverRow(r, now)
    BY <1>6 DEF Recovers
  <2>2. now \in Int /\ "lease_expired" \in Problems
    BY <1>1 DEF Problems
  <2> QED BY <1>1, <1>2, <1>3, <1>4, <2>1, <2>2 DEF RecoverRow, r
<1>7. ASSUME NEW w \in Workers, Renews(r, s, w)
      PROVE  s.progress >= r.progress
  <2>1. PICK now \in OperationTimes :
          \/ s = HeartbeatRow(r, now)
          \/ \E p \in 0..99 : r.progress <= p /\ s = ReportRow(r, p, now)
    BY <1>7 DEF Renews
  <2>2. CASE s = HeartbeatRow(r, now)
    <3>1. s.progress = r.progress
      BY <1>1, <2>2 DEF HeartbeatRow, JobRow
    <3> QED BY <1>1, <3>1
  <2>3. ASSUME NEW p \in 0..99, r.progress <= p, s = ReportRow(r, p, now)
        PROVE  s.progress >= r.progress
    <3>1. s.progress = p
      BY <1>1, <2>3 DEF ReportRow, JobRow
    <3> QED BY <1>1, <2>3, <3>1
  <2> QED BY <2>1, <2>2, <2>3
<1>8. ASSUME NEW w \in Workers, Settles(j, w)
      PROVE  s.progress >= r.progress
  <2>1. Publishes(r, s, w) /\ worker[w].now \in Int
    BY <1>8 DEF Settles, SInv, IInv, TypeOK, WorkerState, r
  <2>2. CASE \E retryable \in BOOLEAN : s = FailRow(r, retryable, worker[w].now)
    <3>1. worker[w].now + RetryDelay \in Int /\ "handler_failed" \in Problems
      BY <2>1, DurationAssumption DEF Problems
    <3> QED BY <1>1, <1>2, <1>3, <1>4, <2>2, <3>1 DEF FailRow, r
  <2>3. CASE s = SucceedRow(r, r.attempt_count)
    BY <1>1, <2>3 DEF SucceedRow, ClearLease, JobRow
  <2>4. CASE s = CancelledRow(r)
    BY <1>1, <1>2, <2>4
  <2> QED BY <2>1, <2>2, <2>3, <2>4 DEF Publishes
<1>9. ~\E w : ClaimedBy(r, s, w)
  BY DEF ClaimedBy, Eligible, r
<1> QED BY <1>1, <1>5, <1>6, <1>7, <1>8, <1>9 DEF WorkerMove, r

\* Within one attempt the progress a client reads never moves backwards:
\* neither the heartbeat, which writes the row beside report_progress, nor a
\* cancellation request, nor a replaced worker's late write lowers it.
THEOREM ProgressNeverFalls == Spec => ProgressMonotone
<1> DEFINE Step ==
      \A j \in Jobs :
        (jobs[j].status = "running" /\ jobs'[j].attempt_count = jobs[j].attempt_count
         /\ jobs'[j].status # "queued") => jobs'[j].progress >= jobs[j].progress
<1>1. SInv /\ [Next]_vars => Step
  <2> SUFFICES ASSUME SInv, [Next]_vars, NEW j \in Jobs, jobs[j].status = "running",
                      jobs'[j].status # "queued"
               PROVE  jobs'[j].progress >= jobs[j].progress
    OBVIOUS
  <2>1. CASE jobs'[j] = jobs[j]
    <3>1. jobs[j].progress \in Int
      BY DEF SInv, IInv, TypeOK, JobRow
    <3> QED BY <2>1, <3>1
  <2>2. CASE jobs'[j] # jobs[j]
    <3>1. \/ ClientMove(jobs[j], jobs'[j], clock)
          \/ \E w \in Workers : WorkerMove(j, w)
      BY <2>2, StepMoves DEF ClientStep, StepOf, Tick, vars
    <3> QED BY <3>1, RowProgress
  <2> QED BY <2>1, <2>2
<1>2. [Next]_vars /\ SInv => [Step]_vars
  BY <1>1
<1>3. Spec => [][Step]_vars
  BY <1>2, StepInvariant, PTL DEF Spec
<1> QED BY <1>3 DEF ProgressMonotone
-----------------------------------------------------------------------------
(* Leases *)

LEMMA LeaseMoves ==
  ASSUME SInv, [Next]_vars, NEW j \in Jobs, NEW w \in Workers,
         jobs[j].lease_owner = w, jobs'[j].lease_owner # w,
         jobs[j].lease_expires_at > clock
  PROVE  Settles(j, w)
<1> DEFINE r == jobs[j]
           s == jobs'[j]
<1>1. r \in JobRow /\ RowInv(r) /\ clock \in Nat /\ w # NoWorker
  BY NoWorkerAssumption DEF SInv, IInv, TypeOK
<1>2. r.status = "running"
  BY <1>1 DEF RowInv, RowConsistent
<1>3. s # r
  OBVIOUS
<1>4. ~ClientMove(r, s, clock)
  <2>1. RequestCancellationRow(r).lease_owner = w
    BY <1>1, <1>2 DEF RequestCancellationRow, Terminal, JobRow
  <2> QED BY <1>2, <2>1 DEF ClientMove
<1>5. ~Recovers(r, s)
  <2> SUFFICES ASSUME NEW now \in 0..clock, Expired(r, now) PROVE FALSE
    BY DEF Recovers
  <2>1. r.lease_expires_at <= now /\ r.lease_expires_at > clock
    BY DEF Expired
  <2>2. r.lease_expires_at \in Int /\ now \in Int /\ now <= clock
    <3>1. r.lease_expires_at \in Times
      BY <1>1 DEF JobRow
    <3>2. clock \in Nat
      BY <1>1
    <3> QED BY <3>1, <3>2 DEF Times, NoTime
  <2>3. clock \in Int
    BY <1>1
  <2> HIDE DEF r
  <2> QED BY <2>1, <2>2, <2>3
<1>6. ASSUME NEW v \in Workers
      PROVE  ~ClaimedBy(r, s, v) /\ ~Renews(r, s, v)
  <2>1. ~ClaimedBy(r, s, v)
    BY <1>2 DEF ClaimedBy, Eligible
  <2>2. \A now, p : HeartbeatRow(r, now).lease_owner = w
                    /\ ReportRow(r, p, now).lease_owner = w
    BY <1>1 DEF HeartbeatRow, ReportRow, JobRow
  <2> QED BY <2>1, <2>2 DEF Renews
<1>7. PICK v \in Workers : Settles(j, v)
  BY <1>3, <1>4, <1>5, <1>6, StepMoves DEF ClientStep, StepOf, WorkerMove, Tick, vars
<1>8. v = w
  BY <1>7 DEF Settles, Publishes, OwnsValidLease
<1> QED BY <1>7, <1>8

\* A lease that has not run out in real time is given up by nobody but its
\* owner, and only by recording the outcome of the attempt it was claimed
\* for: recovery, which compares the expiry with a `current` sampled before
\* its transaction, can only be late.
THEOREM LiveLeasesAreRespected == Spec => LiveLeaseIsRespected
<1> DEFINE Step ==
      \A j \in Jobs, w \in Workers :
        (/\ jobs[j].lease_owner = w /\ jobs'[j].lease_owner # w
         /\ jobs[j].lease_expires_at > clock) =>
        /\ Holding(w) /\ worker[w].job = j
        /\ worker[w].attempt = jobs[j].attempt_count
        /\ ~Holding(w)'
<1>1. SInv /\ [Next]_vars => [Step]_vars
  BY LeaseMoves DEF Settles, Holding
<1>2. Spec => [][Step]_vars
  BY <1>1, StepInvariant, PTL DEF Spec
<1> QED BY <1>2 DEF LiveLeaseIsRespected
-----------------------------------------------------------------------------
(* The refinement of the documented lifecycle, row by row *)

\* What JobLifecycle sees of a row.
Life(r) == [status |-> r.status, attempts |-> r.attempt_count,
            cancel |-> r.cancellation_requested]

\* Only the status changes, to the given one.
Becomes(r, s, status) ==
  /\ s.status = status
  /\ s.attempt_count = r.attempt_count
  /\ s.cancellation_requested = r.cancellation_requested

LEMMA LifeBecomes ==
  ASSUME NEW r, NEW s, NEW status, Becomes(r, s, status)
  PROVE  Life(s) = [Life(r) EXCEPT !.status = status]
BY DEF Becomes, Life

\* The arrows of the diagram, in terms of the columns.
LEMMA StatusMove ==
  ASSUME NEW r, NEW s, NEW status, Becomes(r, s, status),
         \/ r.status = "absent" /\ status = "queued"
         \/ r.status = "running" /\ status = "succeeded"
         \/ r.status = "running" /\ status = "cancelled" /\ r.cancellation_requested
         \/ r.status = "running" /\ status = "failed" /\ ~r.cancellation_requested
         \/ /\ r.status = "running" /\ status = "queued" /\ ~r.cancellation_requested
            /\ r.attempt_count < MaxAttempts
  PROVE  Lifecycle!Move(Life(r), Life(s))
<1>1. Life(s) = [Life(r) EXCEPT !.status = status]
  BY LifeBecomes
<1>2. /\ Life(r).status = r.status /\ Life(r).attempts = r.attempt_count
      /\ Life(r).cancel = r.cancellation_requested
  BY DEF Life
<1> QED
  BY <1>1, <1>2 DEF Lifecycle!Move, Lifecycle!Accepted, Lifecycle!Succeeded,
     Lifecycle!Cancelled, Lifecycle!Failed, Lifecycle!Retried

Closed(a, status, cancel) == [a EXCEPT !.status = status, !.cancel = cancel]

LEMMA LifeAsked ==
  ASSUME NEW r, NEW s, NEW status, NEW asked, s.status = status,
         s.attempt_count = r.attempt_count, s.cancellation_requested = asked
  PROVE  Life(s) = Closed(Life(r), status, asked)
<1> DEFINE closed == [Life(r) EXCEPT !.status = status]
<1>1. /\ Life(s) = [status |-> status, attempts |-> r.attempt_count, cancel |-> asked]
      /\ closed = [status |-> status, attempts |-> r.attempt_count,
                   cancel |-> r.cancellation_requested]
  BY DEF Life
<1> HIDE DEF closed
<1>2. Life(s) = [closed EXCEPT !.cancel = asked]
  BY <1>1
<1> QED BY <1>2 DEF closed, Closed

LEMMA LifeMarked ==
  ASSUME NEW r, NEW s, NEW asked, s.status = r.status,
         s.attempt_count = r.attempt_count, s.cancellation_requested = asked
  PROVE  Life(s) = [Life(r) EXCEPT !.cancel = asked]
BY DEF Life

\* A row that carries the cancellation request and the given status.
Asked(r, s, status) ==
  /\ s.status = status
  /\ s.attempt_count = r.attempt_count
  /\ s.cancellation_requested = TRUE

LEMMA RequestMove ==
  ASSUME NEW r, NEW s,
         \/ r.status = "queued" /\ Asked(r, s, "cancelled")
         \/ r.status = "running" /\ Asked(r, s, "running")
  PROVE  Lifecycle!Move(Life(r), Life(s))
<1> DEFINE asked == TRUE
<1>1. Life(r).status = r.status
  BY DEF Life
<1>2. s.cancellation_requested = asked /\ s.attempt_count = r.attempt_count
  BY DEF Asked
<1>3. CASE r.status = "queued" /\ Asked(r, s, "cancelled")
  <2>1. Life(s) = Closed(Life(r), "cancelled", asked)
    <3>1. s.status = "cancelled"
      BY <1>3 DEF Asked
    <3> HIDE DEF asked
    <3> QED BY <1>2, <3>1, LifeAsked
  <2>2. Life(r).status = "queued"
    BY <1>1, <1>3
  <2>3. Lifecycle!CancelAsked(Life(r), Life(s))
    BY <2>1, <2>2 DEF Lifecycle!CancelAsked, Closed
  <2> QED BY <2>3 DEF Lifecycle!Move
<1>4. CASE r.status = "running" /\ Asked(r, s, "running")
  <2>1. Life(s) = [Life(r) EXCEPT !.cancel = asked]
    <3>1. s.status = r.status
      BY <1>4 DEF Asked
    <3> HIDE DEF asked
    <3> QED BY <1>2, <3>1, LifeMarked
  <2>2. Life(r).status = "running"
    BY <1>1, <1>4
  <2>3. Lifecycle!CancelAsked(Life(r), Life(s))
    BY <2>1, <2>2 DEF Lifecycle!CancelAsked
  <2> QED BY <2>3 DEF Lifecycle!Move
<1> QED BY <1>3, <1>4

LEMMA AttemptMove ==
  ASSUME NEW r, NEW s, r.status = "queued", s.status = "running",
         ~r.cancellation_requested, s.cancellation_requested = r.cancellation_requested,
         r.attempt_count < MaxAttempts, s.attempt_count = r.attempt_count + 1
  PROVE  Lifecycle!Move(Life(r), Life(s))
<1>1. /\ Life(r) = [status |-> r.status, attempts |-> r.attempt_count,
                    cancel |-> r.cancellation_requested]
      /\ Life(s) = [status |-> "running", attempts |-> r.attempt_count + 1,
                    cancel |-> r.cancellation_requested]
  BY DEF Life
<1> DEFINE started == [Life(r) EXCEPT !.status = "running"]
<1>2. Life(s) = [started EXCEPT !.attempts = started.attempts + 1]
  <2>1. started = [status |-> "running", attempts |-> r.attempt_count,
                   cancel |-> r.cancellation_requested]
    BY <1>1
  <2> HIDE DEF started
  <2> QED BY <1>1, <2>1
<1>3. /\ Life(r).status = r.status /\ Life(r).attempts = r.attempt_count
      /\ Life(r).cancel = r.cancellation_requested
  BY <1>1
<1> QED BY <1>2, <1>3 DEF Lifecycle!Move, Lifecycle!Attempted

\* The columns after the writes that end an attempt.
LEMMA EndColumns ==
  ASSUME NEW r \in JobRow
  PROVE  /\ Becomes(r, CancelledRow(r), "cancelled")
         /\ \A next : Becomes(r, RequeuedRow(r, next), "queued")
         /\ \A p : Becomes(r, FailedRow(r, p), "failed")
         /\ \A a : Becomes(r, SucceedRow(r, a), "succeeded")
<1>1. Becomes(r, CancelledRow(r), "cancelled")
  BY DEF CancelledRow, ClearLease, JobRow, Becomes
<1>2. \A next : Becomes(r, RequeuedRow(r, next), "queued")
  BY DEF RequeuedRow, ClearLease, JobRow, Becomes
<1>3. \A p : Becomes(r, FailedRow(r, p), "failed")
  BY DEF FailedRow, ClearLease, JobRow, Becomes
<1>4. \A a : Becomes(r, SucceedRow(r, a), "succeeded")
  BY DEF SucceedRow, ClearLease, JobRow, Becomes
<1> QED BY <1>1, <1>2, <1>3, <1>4

LEMMA ClientLife ==
  ASSUME NEW r, GoodRow(r), NEW t \in Nat, NEW s, ClientMove(r, s, t)
  PROVE  Life(s) = Life(r) \/ Lifecycle!Move(Life(r), Life(s))
<1>1. r \in JobRow /\ RowInv(r)
  BY DEF GoodRow
<1>2. CASE r.status = "absent" /\ s = NewRecord(t)
  <2>1. r.attempt_count = 0 /\ r.cancellation_requested = FALSE
    BY <1>1, <1>2 DEF RowInv, JobRow
  <2>2. Becomes(r, s, "queued")
    BY <1>2, <2>1 DEF Becomes, NewRecord, Absent
  <2> QED BY <1>2, <2>2, StatusMove
<1>3. CASE r.status # "absent" /\ s = RequestCancellationRow(r)
  <2> DEFINE asked == [r EXCEPT !.cancellation_requested = TRUE]
  <2>1. /\ asked \in JobRow /\ asked.status = r.status
        /\ asked.attempt_count = r.attempt_count /\ asked.cancellation_requested = TRUE
    BY <1>1 DEF JobRow
  <2>2. CASE r.status \in Terminal
    BY <1>3, <2>2 DEF RequestCancellationRow, Terminal
  <2>3. CASE r.status = "queued"
    <3>1. s = CancelledRow(asked)
      BY <1>3, <2>3 DEF RequestCancellationRow, Terminal
    <3> HIDE DEF asked
    <3>2. Becomes(asked, s, "cancelled")
      BY <2>1, <3>1, EndColumns
    <3> QED BY <2>1, <2>3, <3>2, RequestMove DEF Becomes, Asked
  <2>4. CASE r.status = "running"
    <3>1. s = asked
      BY <1>3, <2>4 DEF RequestCancellationRow, Terminal
    <3> HIDE DEF asked
    <3> QED BY <2>1, <2>4, <3>1, RequestMove DEF Asked
  <2> QED BY <1>1, <1>3, <2>2, <2>3, <2>4 DEF JobRow, Statuses
<1> QED BY <1>2, <1>3 DEF ClientMove

\* An attempt that ends without a result: cancelled, queued again or failed.
LEMMA EndedLife ==
  ASSUME NEW r \in JobRow, r.status = "running", NEW s,
         \/ r.cancellation_requested /\ s = CancelledRow(r)
         \/ /\ ~r.cancellation_requested /\ r.attempt_count < MaxAttempts
            /\ \E next : s = RequeuedRow(r, next)
         \/ ~r.cancellation_requested /\ \E p : s = FailedRow(r, p)
  PROVE  Lifecycle!Move(Life(r), Life(s))
<1>1. CASE r.cancellation_requested /\ s = CancelledRow(r)
  <2>1. Becomes(r, s, "cancelled")
    BY <1>1, EndColumns
  <2> QED BY <1>1, <2>1, StatusMove
<1>2. CASE /\ ~r.cancellation_requested /\ r.attempt_count < MaxAttempts
           /\ \E next : s = RequeuedRow(r, next)
  <2>1. Becomes(r, s, "queued")
    BY <1>2, EndColumns
  <2> QED BY <1>2, <2>1, StatusMove
<1>3. CASE ~r.cancellation_requested /\ \E p : s = FailedRow(r, p)
  <2>1. Becomes(r, s, "failed")
    BY <1>3, EndColumns
  <2> QED BY <1>3, <2>1, StatusMove
<1> QED BY <1>1, <1>2, <1>3

LEMMA RecoverLife ==
  ASSUME NEW r \in JobRow, NEW now, Expired(r, now)
  PROVE  Lifecycle!Move(Life(r), Life(RecoverRow(r, now)))
<1>1. r.status = "running"
  BY DEF Expired
<1>2. \/ r.cancellation_requested /\ RecoverRow(r, now) = CancelledRow(r)
      \/ /\ ~r.cancellation_requested /\ r.attempt_count < MaxAttempts
         /\ RecoverRow(r, now) = RequeuedRow(r, now)
      \/ /\ ~r.cancellation_requested
         /\ RecoverRow(r, now) = FailedRow(r, "lease_expired")
  BY DEF RecoverRow
<1> QED BY <1>1, <1>2, EndedLife

LEMMA PublishLife ==
  ASSUME NEW r \in JobRow, NEW w, NEW s, Publishes(r, s, w)
  PROVE  Lifecycle!Move(Life(r), Life(s))
<1>1. r.status = "running"
  BY DEF Publishes, OwnsValidLease
<1>2. CASE s = SucceedRow(r, r.attempt_count)
  <2>1. Becomes(r, s, "succeeded")
    BY <1>2, EndColumns
  <2> QED BY <1>1, <2>1, StatusMove
<1>3. ASSUME NEW retryable \in BOOLEAN, s = FailRow(r, retryable, worker[w].now)
      PROVE  Lifecycle!Move(Life(r), Life(s))
  <2>1. \/ r.cancellation_requested /\ s = CancelledRow(r)
        \/ /\ ~r.cancellation_requested /\ r.attempt_count < MaxAttempts
           /\ s = RequeuedRow(r, worker[w].now + RetryDelay)
        \/ ~r.cancellation_requested /\ s = FailedRow(r, "handler_failed")
    BY <1>3 DEF FailRow
  <2> QED BY <1>1, <2>1, EndedLife
<1> QED BY <1>1, <1>2, <1>3, EndedLife DEF Publishes

LEMMA WorkerLife ==
  ASSUME IInv, NEW j \in Jobs, NEW w \in Workers, WorkerMove(j, w)
  PROVE  Life(jobs'[j]) = Life(jobs[j]) \/ Lifecycle!Move(Life(jobs[j]), Life(jobs'[j]))
<1> DEFINE r == jobs[j]
           s == jobs'[j]
<1>1. r \in JobRow /\ RowInv(r)
  BY DEF IInv, TypeOK
<1>2. CASE Recovers(r, s)
  BY <1>1, <1>2, RecoverLife DEF Recovers
<1>3. CASE ClaimedBy(r, s, w)
  <2>1. PICK now : Eligible(r, now) /\ s = ClaimRecord(r, w, now)
    BY <1>3 DEF ClaimedBy
  <2>2. /\ s.status = "running" /\ s.attempt_count = r.attempt_count + 1
        /\ s.cancellation_requested = r.cancellation_requested
        /\ r.status = "queued" /\ ~r.cancellation_requested
    BY <1>1, <2>1 DEF ClaimRecord, Eligible, JobRow
  <2>3. r.attempt_count < MaxAttempts
    BY <1>1, <2>2 DEF RowInv
  <2> QED BY <2>2, <2>3, AttemptMove
<1>4. CASE Renews(r, s, w)
  <2>1. \E now, p : s = HeartbeatRow(r, now) \/ s = ReportRow(r, p, now)
    BY <1>4 DEF Renews
  <2>2. /\ s.status = r.status /\ s.attempt_count = r.attempt_count
        /\ s.cancellation_requested = r.cancellation_requested
    BY <1>1, <2>1 DEF HeartbeatRow, ReportRow, JobRow
  <2> QED BY <2>2 DEF Life
<1>5. CASE Settles(j, w)
  BY <1>1, <1>5, PublishLife DEF Settles
<1> QED BY <1>2, <1>3, <1>4, <1>5 DEF WorkerMove

LEMMA LifeStep ==
  ASSUME SInv, [Next]_vars, NEW j \in Jobs
  PROVE  Life(jobs'[j]) = Life(jobs[j]) \/ Lifecycle!Move(Life(jobs[j]), Life(jobs'[j]))
<1>1. CASE jobs'[j] = jobs[j]
  BY <1>1
<1>2. CASE ClientMove(jobs[j], jobs'[j], clock)
  BY <1>2, ClientLife DEF SInv, IInv, TypeOK, GoodRow
<1>3. CASE \E w \in Workers : WorkerMove(j, w)
  BY <1>3, WorkerLife DEF SInv
<1> QED BY <1>1, <1>2, <1>3, StepMoves DEF ClientStep, StepOf, Tick, vars

\* The queue implements the lifecycle of docs/jobs.md: whatever its clocks,
\* leases, retries and recoveries do, each job moves along the arrows of the
\* documented diagram, within its attempt budget, and only towards
\* "cancelled" or "succeeded" once a cancellation was requested.
THEOREM QueueImplementsLifecycle == Spec => LifecycleSpec
<1> DEFINE life == [j \in Jobs |-> [status |-> jobs[j].status,
                                    attempts |-> jobs[j].attempt_count,
                                    cancel |-> jobs[j].cancellation_requested]]
<1>1. Init => Lifecycle!LifeInit
  BY DEF Init, Absent, Lifecycle!LifeInit
<1>2. SInv /\ [Next]_vars => [Lifecycle!LifeNext]_life
  <2> SUFFICES ASSUME SInv, [Next]_vars PROVE Lifecycle!LifeNext
    OBVIOUS
  <2>1. \A j \in Jobs : life[j] = Life(jobs[j]) /\ life'[j] = Life(jobs'[j])
    BY DEF Life
  <2>2. \A j \in Jobs : life'[j] = life[j] \/ Lifecycle!Move(life[j], life'[j])
    BY <2>1, LifeStep
  <2>3. DOMAIN life' = Jobs
    OBVIOUS
  <2> QED BY <2>2, <2>3 DEF Lifecycle!LifeNext
<1> QED BY <1>1, <1>2, StepInvariant, PTL DEF Spec, LifecycleSpec, Lifecycle!LifeSpec
-----------------------------------------------------------------------------
(* A punctual worker keeps its job *)

\* The durations that suffice, when no thread is late by more than Lag: a
\* heartbeat may come Lag late, with a `now` that is Lag old, and the lease
\* must outlive the last one by the Lag that the outcome may take.
PunctualDurations ==
  ClockMode = "timely" /\ HeartbeatEvery + 3 * Lag < Lease

InHandler == {"executing", "reporting", "ended"}
InWrite == {"settling", "committing"}

\* The thread state s is not late at time t.
Pace(s, t) ==
  /\ s.pc \in {"recovering", "claiming"} \cup InWrite => t <= s.now + Lag
  /\ s.beating => t <= s.due + Lag

\* The row r of the job held in state s is leased to w, far enough ahead.
Leased(w, s, r) ==
  /\ r.status = "running"
  /\ r.lease_owner = w
  /\ s.pc \in InHandler => s.beating /\ r.lease_expires_at > s.due + 2 * Lag
  /\ s.pc \in InWrite => r.lease_expires_at > s.now + Lag

Timely ==
  \A w \in Workers :
    /\ Pace(worker[w], clock)
    /\ worker[w].pc \in Active /\ ~worker[w].lost => Leased(w, worker[w], RowOf(w))

TInv == SInv /\ Timely

\* Before the outcome is written the lease outlives the present.
LEMMA LeaseAhead ==
  ASSUME TInv, NEW w \in Workers, worker[w].pc \in Active, ~worker[w].lost
  PROVE  /\ Leased(w, worker[w], RowOf(w))
         /\ RowOf(w).lease_expires_at > clock
         /\ RowOf(w) \in JobRow /\ RowOf(w).lease_expires_at \in Int
<1>1. /\ Pace(worker[w], clock) /\ Leased(w, worker[w], RowOf(w))
      /\ clock \in Nat /\ Lag \in Nat /\ worker[w].now \in Nat /\ worker[w].due \in Nat
  BY LagAssumption DEF TInv, SInv, Timely, IInv, TypeOK, WorkerState
<1>2. RowOf(w) \in JobRow
  BY HolderFacts DEF TInv, SInv, GoodRow
<1>3. RowOf(w).lease_expires_at \in Int
  <2>1. RowOf(w).lease_expires_at \in Times
    BY <1>2 DEF JobRow
  <2> QED BY <2>1 DEF Times, NoTime
<1>4. CASE worker[w].pc \in InHandler
  <2>1. /\ clock <= worker[w].due + Lag
        /\ RowOf(w).lease_expires_at > worker[w].due + 2 * Lag
    BY <1>1, <1>4 DEF Leased, Pace
  <2> QED BY <1>1, <1>2, <1>3, <2>1
<1>5. CASE worker[w].pc \in InWrite
  <2>1. /\ clock <= worker[w].now + Lag
        /\ RowOf(w).lease_expires_at > worker[w].now + Lag
    BY <1>1, <1>5 DEF Leased, Pace
  <2> QED BY <1>1, <1>2, <1>3, <2>1
<1> QED BY <1>4, <1>5 DEF Active, InHandler, InWrite

\* What others do: nobody else may write the row, and recovery passes it by.
LEMMA OthersLeave ==
  ASSUME TInv, NEW v \in Workers, StepOf(v), NEW w \in Workers \ {v}
  PROVE  /\ Pace(worker'[w], clock')
         /\ worker'[w].pc \in Active /\ ~worker'[w].lost =>
              Leased(w, worker'[w], jobs'[worker'[w].job])
<1>1. worker'[w] = worker[w] /\ clock' = clock
  BY DEF StepOf
<1>2. Pace(worker'[w], clock')
  BY <1>1 DEF TInv, Timely
<1>3. ASSUME worker[w].pc \in Active, ~worker[w].lost
      PROVE  jobs'[worker[w].job] = RowOf(w) /\ Leased(w, worker[w], RowOf(w))
  <2> DEFINE j == worker[w].job
             r == RowOf(w)
  <2>1. j \in Jobs /\ r = jobs[j] /\ clock \in Nat
    BY <1>3, HolderFacts DEF TInv, SInv, IInv, TypeOK
  <2>2. /\ Leased(w, worker[w], r) /\ r.lease_expires_at > clock
        /\ r.lease_expires_at \in Int
    BY <1>3, LeaseAhead
  <2>3. r.status = "running" /\ r.lease_owner = w
    BY <2>2 DEF Leased
  <2>4. WorkerMove(j, v)
    BY <2>1 DEF StepOf
  <2>5. ~Recovers(r, jobs'[j])
    <3> SUFFICES ASSUME NEW now \in 0..clock, r.lease_expires_at <= now PROVE FALSE
      BY DEF Recovers, Expired
    <3>1. now \in Int /\ now <= clock
      BY <2>1
    <3> QED BY <2>1, <2>2, <3>1
  <2>6. ~ClaimedBy(r, jobs'[j], v) /\ ~Renews(r, jobs'[j], v) /\ ~Settles(j, v)
    BY <2>1, <2>3 DEF ClaimedBy, Eligible, Renews, Settles, Publishes, OwnsValidLease
  <2> QED BY <2>1, <2>2, <2>4, <2>5, <2>6 DEF WorkerMove
<1> QED BY <1>1, <1>2, <1>3
\* It remains to look at what a worker does to its own claim.
LEMMA OwnStep ==
  ASSUME TInv, NEW w \in Workers, StepOf(w), NEW t, worker' = [worker EXCEPT ![w] = t],
         Pace(t, clock),
         t.pc \in Active /\ ~t.lost => Leased(w, t, jobs'[t.job])
  PROVE  Timely'
<1>1. worker'[w] = t /\ clock' = clock
  BY DEF TInv, SInv, IInv, TypeOK, StepOf
<1>2. ASSUME NEW v \in Workers
      PROVE  /\ Pace(worker'[v], clock')
             /\ worker'[v].pc \in Active /\ ~worker'[v].lost =>
                  Leased(v, worker'[v], jobs'[worker'[v].job])
  BY <1>1, OthersLeave
<1> QED BY <1>2 DEF Timely, RowOf

LEMMA RestTimely ==
  ASSUME TInv, NEW w \in Workers, StepOf(w), NEW pc \in {"idle", "dead"},
         worker' = [worker EXCEPT ![w] = Resting(pc)]
  PROVE  Timely'
<1>1. Resting(pc).pc \notin Active \cup {"recovering", "claiming"} /\ ~Resting(pc).beating
  BY DEF Resting, Active
<1>2. Pace(Resting(pc), clock)
  BY <1>1 DEF Pace, InWrite, Active
<1> QED BY <1>1, <1>2, OwnStep

\* A thread that goes on without touching the table, its wait or its clock.
LEMMA QuietTimely ==
  ASSUME TInv, NEW w \in Workers, StepOf(w), NEW t, worker' = [worker EXCEPT ![w] = t],
         UNCHANGED jobs,
         t.beating = worker[w].beating, t.due = worker[w].due, t.now = worker[w].now,
         t.lost = worker[w].lost, t.job = worker[w].job,
         \/ worker[w].pc \in InHandler /\ t.pc \in InHandler
         \/ worker[w].pc \in InWrite /\ t.pc \in InWrite
  PROVE  Timely'
<1>1. Pace(worker[w], clock)
  BY DEF TInv, Timely
<1>2. Pace(t, clock)
  BY <1>1 DEF Pace, InHandler, InWrite
<1>3. ASSUME ~t.lost
      PROVE  Leased(w, t, jobs'[t.job])
  <2>1. Leased(w, worker[w], RowOf(w))
    BY <1>3, LeaseAhead DEF Active, InHandler, InWrite
  <2> QED BY <2>1 DEF Leased, InHandler, InWrite, RowOf
<1> QED BY <1>2, <1>3, OwnStep

LEMMA EndHandlerTimely ==
  ASSUME TInv, NEW w \in Workers, StepOf(w), NEW outcome, EndHandler(w, outcome),
         UNCHANGED jobs, worker[w].pc \in {"executing", "reporting"}
  PROVE  Timely'
<1> DEFINE t == [worker[w] EXCEPT !.pc = "ended", !.outcome = outcome]
<1>1. worker[w] \in WorkerState /\ worker' = [worker EXCEPT ![w] = t]
  BY DEF EndHandler, TInv, SInv, IInv, TypeOK
<1>2. /\ t.beating = worker[w].beating /\ t.due = worker[w].due /\ t.now = worker[w].now
      /\ t.lost = worker[w].lost /\ t.job = worker[w].job /\ t.pc = "ended"
  BY <1>1 DEF WorkerState
<1> HIDE DEF t
<1> QED BY <1>1, <1>2, QuietTimely DEF InHandler

\* A lease taken or renewed now outlives the next wait of the heartbeat.
LEMMA RenewedLease ==
  ASSUME PunctualDurations, NEW c \in Nat, NEW now \in Nat, NEW due \in Nat,
         c <= now + Lag, due <= c + HeartbeatEvery
  PROVE  now + Lease > due + 2 * Lag
BY LagAssumption, HeartbeatAssumption, DurationAssumption DEF PunctualDurations

\* What a leased write commits.
LEMMA RenewedColumns ==
  ASSUME NEW r \in JobRow, NEW now
  PROVE  /\ HeartbeatRow(r, now).status = r.status
         /\ HeartbeatRow(r, now).lease_owner = r.lease_owner
         /\ HeartbeatRow(r, now).lease_expires_at = now + Lease
         /\ \A p : /\ ReportRow(r, p, now).status = r.status
                   /\ ReportRow(r, p, now).lease_owner = r.lease_owner
                   /\ ReportRow(r, p, now).lease_expires_at = now + Lease
         /\ \A w : /\ ClaimRecord(r, w, now).status = "running"
                   /\ ClaimRecord(r, w, now).lease_owner = w
                   /\ ClaimRecord(r, w, now).lease_expires_at = now + Lease
<1>1. /\ HeartbeatRow(r, now).status = r.status
      /\ HeartbeatRow(r, now).lease_owner = r.lease_owner
      /\ HeartbeatRow(r, now).lease_expires_at = now + Lease
  BY DEF HeartbeatRow, JobRow
<1>2. ASSUME NEW p
      PROVE  /\ ReportRow(r, p, now).status = r.status
             /\ ReportRow(r, p, now).lease_owner = r.lease_owner
             /\ ReportRow(r, p, now).lease_expires_at = now + Lease
  BY DEF ReportRow, JobRow
<1>3. ASSUME NEW w
      PROVE  /\ ClaimRecord(r, w, now).status = "running"
             /\ ClaimRecord(r, w, now).lease_owner = w
             /\ ClaimRecord(r, w, now).lease_expires_at = now + Lease
  BY DEF ClaimRecord, JobRow
<1> QED BY <1>1, <1>2, <1>3

LEMMA RunOnceTimely ==
  ASSUME PunctualDurations, TInv, NEW w \in Workers, RunOnce(w)
  PROVE  Timely'
<1>1. /\ StepOf(w) /\ worker[w] \in WorkerState /\ Pace(worker[w], clock)
      /\ clock \in Nat /\ worker[w].now \in Nat /\ WorkerInv(w)
      /\ worker[w].due \in Nat
      /\ jobs \in [Jobs -> JobRow]
  BY RunOnceMoves DEF TInv, SInv, IInv, TypeOK, Timely, WorkerState
<1>2. CASE Poll(w)
  <2> DEFINE t == [worker[w] EXCEPT !.pc = "recovering", !.now = clock]
  <2>1. worker' = [worker EXCEPT ![w] = t] /\ worker[w].pc = "idle"
    BY <1>2 DEF Poll
  <2>2. t.pc = "recovering" /\ t.now = clock /\ t.beating = FALSE
    BY <1>1, <2>1 DEF WorkerInv, Sound, WorkerState
  <2>3. clock <= clock + Lag
    BY <1>1, LagAssumption
  <2> HIDE DEF t
  <2>4. Pace(t, clock)
    BY <2>2, <2>3 DEF Pace
  <2> QED BY <1>1, <2>1, <2>2, <2>4, OwnStep DEF Active
<1>3. CASE RecoverExpiredLeases(w)
  <2> DEFINE t == [worker[w] EXCEPT !.pc = "claiming"]
  <2>1. worker' = [worker EXCEPT ![w] = t] /\ worker[w].pc = "recovering"
    BY <1>3 DEF RecoverExpiredLeases
  <2>2. t.pc = "claiming" /\ t.now = worker[w].now /\ t.beating = FALSE
    BY <1>1, <2>1 DEF WorkerInv, Sound, WorkerState
  <2> HIDE DEF t
  <2>3. Pace(t, clock)
    BY <1>1, <2>1, <2>2 DEF Pace
  <2> QED BY <1>1, <2>1, <2>2, <2>3, OwnStep DEF Active
<1>4. CASE ClaimNext(w)
  <2> DEFINE now == worker[w].now
             t(j) == [Resting("executing") EXCEPT
                        !.job = j, !.attempt = jobs[j].attempt_count + 1,
                        !.beating = TRUE, !.due = clock + HeartbeatEvery]
  <2>1. PICK j \in Jobs : /\ jobs' = [jobs EXCEPT ![j] = ClaimRecord(@, w, now)]
                          /\ worker' = [worker EXCEPT ![w] = t(j)]
    BY <1>4 DEF ClaimNext
  <2>2. /\ t(j).pc = "executing" /\ t(j).beating /\ t(j).job = j
        /\ t(j).due = clock + HeartbeatEvery
    BY DEF Resting
  <2>3. /\ clock + HeartbeatEvery \in Nat /\ clock <= clock + HeartbeatEvery + Lag
        /\ clock <= now + Lag
    BY <1>1, <1>4, HeartbeatAssumption, LagAssumption DEF Pace, ClaimNext
  <2>4. jobs'[j] = ClaimRecord(jobs[j], w, now) /\ jobs[j] \in JobRow
    BY <1>1, <2>1
  <2>5. now + Lease > clock + HeartbeatEvery + 2 * Lag
    BY <1>1, <2>3, RenewedLease
  <2> HIDE DEF t
  <2>6. Leased(w, t(j), jobs'[j])
    BY <2>2, <2>4, <2>5, RenewedColumns DEF Leased, InWrite
  <2>7. Pace(t(j), clock)
    BY <2>2, <2>3 DEF Pace, InWrite
  <2> QED BY <1>1, <2>1, <2>2, <2>6, <2>7, OwnStep
<1>5. CASE ClaimNothing(w)
  BY <1>1, <1>5, RestTimely DEF ClaimNothing
<1> QED BY <1>2, <1>3, <1>4, <1>5 DEF RunOnce

LEMMA HeartbeatTimely ==
  ASSUME PunctualDurations, TInv, NEW w \in Workers, Heartbeat(w) \/ HeartbeatError(w)
  PROVE  Timely'
<1> DEFINE renewed == [worker[w] EXCEPT !.due = clock + HeartbeatEvery]
           gone == [worker[w] EXCEPT !.lost = TRUE, !.beating = FALSE]
<1>1. /\ StepOf(w) /\ worker[w] \in WorkerState /\ Pace(worker[w], clock)
      /\ clock \in Nat /\ WorkerInv(w) /\ jobs \in [Jobs -> JobRow]
      /\ worker[w].beating /\ clock + HeartbeatEvery \in Nat
  BY HeartbeatMoves, StartMoves, HeartbeatAssumption
     DEF TInv, SInv, IInv, TypeOK, Timely, Heartbeat, HeartbeatError, Beating
<1>2. /\ worker[w].pc \in InHandler /\ worker[w].job \in Jobs
      /\ RowOf(w) = jobs[worker[w].job] /\ RowOf(w) \in JobRow
  BY <1>1 DEF WorkerInv, Sound, InHandler, Active, RowOf
<1>3. /\ renewed.pc = worker[w].pc /\ renewed.beating /\ renewed.job = worker[w].job
      /\ renewed.due = clock + HeartbeatEvery
      /\ gone.pc = worker[w].pc /\ ~gone.beating /\ gone.lost
  BY <1>1 DEF WorkerState
<1>4. CASE worker' = [worker EXCEPT ![w] = gone]
  <2> HIDE DEF gone
  <2>1. Pace(gone, clock)
    BY <1>2, <1>3 DEF Pace, InHandler, InWrite
  <2> QED BY <1>1, <1>3, <1>4, <2>1, OwnStep
<1>5. ASSUME NEW now \in OperationTimes, OwnsValidLease(RowOf(w), w, now),
             jobs' = [jobs EXCEPT ![worker[w].job] = HeartbeatRow(@, now)],
             worker' = [worker EXCEPT ![w] = renewed]
      PROVE  Timely'
  <2>1. now \in Nat /\ clock <= now + Lag
    BY <1>1 DEF OperationTimes
  <2>2. now + Lease > clock + HeartbeatEvery + 2 * Lag
    <3>1. clock + HeartbeatEvery <= clock + HeartbeatEvery
      BY <1>1
    <3> QED BY <1>1, <2>1, <3>1, RenewedLease
  <2>3. jobs'[worker[w].job] = HeartbeatRow(RowOf(w), now)
    BY <1>1, <1>2, <1>5
  <2>4. RowOf(w).status = "running" /\ RowOf(w).lease_owner = w
    BY <1>5 DEF OwnsValidLease
  <2>5. clock <= clock + HeartbeatEvery + Lag
    BY <1>1, LagAssumption, HeartbeatAssumption
  <2> HIDE DEF renewed
  <2>6. Leased(w, renewed, jobs'[worker[w].job])
    BY <1>2, <1>3, <2>2, <2>3, <2>4, RenewedColumns DEF Leased, InHandler, InWrite
  <2>7. Pace(renewed, clock)
    BY <1>2, <1>3, <2>5 DEF Pace, InHandler, InWrite
  <2> QED BY <1>1, <1>3, <1>5, <2>6, <2>7, OwnStep
<1> QED BY <1>4, <1>5 DEF Heartbeat, HeartbeatError
LEMMA HandlerTimely ==
  ASSUME PunctualDurations, TInv, NEW w \in Workers, Handler(w)
  PROVE  Timely'
<1>1. /\ StepOf(w) /\ worker[w] \in WorkerState /\ Pace(worker[w], clock)
      /\ clock \in Nat /\ jobs \in [Jobs -> JobRow]
      /\ worker[w].due \in Nat /\ worker[w].due <= clock + HeartbeatEvery
  BY HandlerMoves DEF TInv, SInv, IInv, TypeOK, Timely, WorkerState, Clocked, WorkerClock
<1> DEFINE asking == [worker[w] EXCEPT !.pc = "reporting"]
           going == [worker[w] EXCEPT !.pc = "executing", !.stage = @ + 1]
           stopped(outcome) == [worker[w] EXCEPT !.pc = "ended", !.outcome = outcome]
<1>2. \A outcome : EndHandler(w, outcome) => worker' = [worker EXCEPT ![w] = stopped(outcome)]
  BY DEF EndHandler
<1>3. /\ asking.beating = worker[w].beating /\ asking.due = worker[w].due
      /\ asking.now = worker[w].now /\ asking.lost = worker[w].lost
      /\ asking.job = worker[w].job /\ asking.pc = "reporting"
  BY <1>1 DEF WorkerState
<1>4. CASE Probe(w)
  <2>1. /\ worker[w].pc = "executing" /\ UNCHANGED jobs
        /\ \/ EndHandler(w, "cancelled")
           \/ worker' = [worker EXCEPT ![w] = asking]
    BY <1>4 DEF Probe
  <2> HIDE DEF asking
  <2> QED BY <1>1, <1>3, <2>1, EndHandlerTimely, QuietTimely DEF InHandler
<1>5. CASE HandlerRaises(w) \/ HandlerReturns(w)
  BY <1>1, <1>5, EndHandlerTimely DEF HandlerRaises, HandlerReturns
<1>6. CASE ReportProgress(w)
  <2> DEFINE progress == Stages[worker[w].stage + 1]
             accepted(now) == OwnsValidLease(RowOf(w), w, now) /\ RowOf(w).progress <= progress
  <2>1. worker[w].pc = "reporting" /\ worker[w].pc \in Active
    BY <1>6 DEF ReportProgress, Active
  <2>2. worker[w].job \in Jobs /\ RowOf(w) = jobs[worker[w].job] /\ RowOf(w) \in JobRow
    BY <2>1, HolderFacts DEF TInv, SInv, GoodRow
  <2>3. PICK now \in OperationTimes :
          IF accepted(now)
          THEN /\ jobs' = [jobs EXCEPT ![worker[w].job] = ReportRow(@, progress, now)]
               /\ \/ EndHandler(w, "cancelled")
                  \/ worker' = [worker EXCEPT ![w] = going]
          ELSE EndHandler(w, "retryable") /\ UNCHANGED jobs
    BY <1>6 DEF ReportProgress
  <2>4. CASE accepted(now)
    <3> DEFINE t == worker'[w]
    <3>1. /\ t.pc \in {"executing", "ended"} /\ t.beating = worker[w].beating
          /\ t.due = worker[w].due /\ t.lost = worker[w].lost /\ t.job = worker[w].job
          /\ worker' = [worker EXCEPT ![w] = t]
      <4>1. worker \in [Workers -> WorkerState]
        BY DEF TInv, SInv, IInv, TypeOK
      <4>2. \/ worker' = [worker EXCEPT ![w] = stopped("cancelled")]
            \/ worker' = [worker EXCEPT ![w] = going]
        BY <1>2, <2>3, <2>4
      <4>3. /\ going.pc = "executing" /\ going.beating = worker[w].beating
            /\ going.due = worker[w].due /\ going.lost = worker[w].lost
            /\ going.job = worker[w].job
        BY <1>1 DEF WorkerState
      <4>4. LET s == stopped("cancelled")
            IN  /\ s.pc = "ended" /\ s.beating = worker[w].beating
                /\ s.due = worker[w].due /\ s.lost = worker[w].lost
                /\ s.job = worker[w].job
        BY <1>1 DEF WorkerState
      <4> HIDE DEF going, stopped
      <4> QED BY <4>1, <4>2, <4>3, <4>4
    <3>2. now \in Nat /\ clock <= now + Lag
      BY <1>1 DEF OperationTimes
    <3>3. now + Lease > worker[w].due + 2 * Lag
      BY <1>1, <3>2, RenewedLease
    <3>4. jobs'[worker[w].job] = ReportRow(RowOf(w), progress, now)
      BY <1>1, <2>2, <2>3, <2>4
    <3>5. RowOf(w).status = "running" /\ RowOf(w).lease_owner = w
      BY <2>4 DEF OwnsValidLease
    <3> HIDE DEF t, progress
    <3>6. ASSUME ~t.lost
          PROVE  Leased(w, t, jobs'[t.job])
      <4>1. worker[w].beating
        BY <2>1, <3>1, <3>6, LeaseAhead DEF Leased, InHandler
      <4> QED BY <2>2, <3>1, <3>3, <3>4, <3>5, <4>1, RenewedColumns
              DEF Leased, InHandler, InWrite
    <3>7. Pace(t, clock)
      BY <1>1, <3>1 DEF Pace, InWrite
    <3> QED BY <1>1, <3>1, <3>6, <3>7, OwnStep
  <2>5. CASE ~accepted(now)
    BY <1>1, <2>1, <2>3, <2>5, EndHandlerTimely
  <2> QED BY <2>4, <2>5
<1> QED BY <1>4, <1>5, <1>6 DEF Handler

LEMMA OutcomeTimely ==
  ASSUME PunctualDurations, TInv, NEW w \in Workers, Outcome(w)
  PROVE  Timely'
<1>1. /\ StepOf(w) /\ worker[w] \in WorkerState /\ Pace(worker[w], clock)
      /\ clock \in Nat
  BY OutcomeMoves DEF TInv, SInv, IInv, TypeOK, Timely
<1>2. CASE Settle(w)
  <2>1. PICK now \in OperationTimes :
          worker' = [worker EXCEPT ![w] =
            IF @.lost
            THEN Resting("idle")
            ELSE [@ EXCEPT !.pc = "settling", !.now = now, !.beating = FALSE]]
    BY <1>2 DEF Settle
  <2>2. CASE worker[w].lost
    <3>1. worker' = [worker EXCEPT ![w] = Resting("idle")]
      BY <2>1, <2>2
    <3> QED BY <1>1, <3>1, RestTimely
  <2>3. CASE ~worker[w].lost
    <3> DEFINE t == [worker[w] EXCEPT !.pc = "settling", !.now = now, !.beating = FALSE]
    <3>1. worker' = [worker EXCEPT ![w] = t]
      BY <2>1, <2>3
    <3>2. /\ t.pc = "settling" /\ t.now = now /\ ~t.beating /\ t.job = worker[w].job
      BY <1>1 DEF WorkerState
    <3>3. now \in Nat /\ clock <= now + Lag /\ now <= clock /\ Lag \in Nat
      BY <1>1, LagAssumption DEF OperationTimes
    <3>4. worker[w].pc = "ended" /\ UNCHANGED jobs /\ worker[w].pc \in Active
      BY <1>2 DEF Settle, Active
    <3>5. /\ Leased(w, worker[w], RowOf(w)) /\ RowOf(w).lease_expires_at \in Int
          /\ RowOf(w) = jobs[worker[w].job]
      BY <2>3, <3>4, LeaseAhead DEF RowOf
    <3>6. RowOf(w).lease_expires_at > now + Lag
      <4>1. /\ clock <= worker[w].due + Lag /\ worker[w].due \in Nat
            /\ RowOf(w).lease_expires_at > worker[w].due + 2 * Lag
        BY <1>1, <3>4, <3>5 DEF Pace, Leased, InHandler, WorkerState
      <4> QED BY <1>1, <3>3, <3>5, <4>1
    <3> HIDE DEF t
    <3>7. Leased(w, t, jobs'[t.job])
      BY <3>2, <3>4, <3>5, <3>6 DEF Leased, InHandler, InWrite
    <3>8. Pace(t, clock)
      BY <3>2, <3>3 DEF Pace, InWrite
    <3> QED BY <1>1, <3>1, <3>7, <3>8, OwnStep
  <2> QED BY <2>2, <2>3
<1>3. CASE ReadBeforeSuccess(w)
  <2> DEFINE t == IF RowOf(w).cancellation_requested
                  THEN [worker[w] EXCEPT !.outcome = "cancelled"]
                  ELSE [worker[w] EXCEPT !.pc = "committing"]
  <2>1. /\ worker' = [worker EXCEPT ![w] = t] /\ worker[w].pc = "settling"
        /\ UNCHANGED jobs
    BY <1>3 DEF ReadBeforeSuccess
  <2>2. /\ t.beating = worker[w].beating /\ t.due = worker[w].due /\ t.now = worker[w].now
        /\ t.lost = worker[w].lost /\ t.job = worker[w].job
        /\ t.pc \in {"settling", "committing"}
    BY <1>1, <2>1 DEF WorkerState
  <2> HIDE DEF t
  <2> QED BY <1>1, <2>1, <2>2, QuietTimely DEF InWrite
<1>4. CASE SettleCancelled(w) \/ SettleFailed(w) \/ Succeed(w)
  BY <1>1, <1>4, RestTimely DEF SettleCancelled, SettleFailed, Succeed, WriteAndRest
<1> QED BY <1>2, <1>3, <1>4 DEF Outcome

LEMMA ClientTimely ==
  ASSUME TInv, Client
  PROVE  Timely'
<1>1. ClientStep
  BY ClientMoves DEF TInv, SInv
<1>2. ASSUME NEW w \in Workers, worker[w].pc \in Active, ~worker[w].lost
      PROVE  Leased(w, worker[w], jobs'[worker[w].job])
  <2> DEFINE j == worker[w].job
             r == RowOf(w)
  <2>1. j \in Jobs /\ r = jobs[j] /\ r \in JobRow /\ Leased(w, worker[w], r)
    BY <1>2, HolderFacts, LeaseAhead DEF TInv, SInv, GoodRow
  <2>2. jobs'[j] = r \/ jobs'[j] = [r EXCEPT !.cancellation_requested = TRUE]
    BY <1>1, <2>1 DEF ClientStep, ClientMove, Leased, RequestCancellationRow, Terminal
  <2>3. /\ jobs'[j].status = r.status /\ jobs'[j].lease_owner = r.lease_owner
        /\ jobs'[j].lease_expires_at = r.lease_expires_at
    BY <2>1, <2>2 DEF JobRow
  <2> QED BY <2>1, <2>3 DEF Leased
<1> QED BY <1>1, <1>2 DEF ClientStep, TInv, Timely, RowOf

\* Time passes only while no thread is late.
LEMMA TickTimely ==
  ASSUME PunctualDurations, TInv, Tick
  PROVE  Timely'
<1>1. /\ UNCHANGED <<jobs, worker>> /\ clock' = clock + 1 /\ clock \in Nat
      /\ \A w \in Workers : Punctual(w) /\ worker[w].now \in Nat /\ worker[w].due \in Nat
  BY DEF Tick, PunctualDurations, TInv, SInv, IInv, TypeOK, WorkerState
<1>2. ASSUME NEW w \in Workers
      PROVE  Pace(worker[w], clock')
  <2>1. ASSUME worker[w].pc \in {"recovering", "claiming"} \cup InWrite
        PROVE  clock + 1 <= worker[w].now + Lag
    <3>1. clock < worker[w].now + Lag
      BY <1>1, <2>1 DEF Punctual, InWrite
    <3> QED BY <1>1, <3>1, LagAssumption
  <2>2. ASSUME worker[w].beating
        PROVE  clock + 1 <= worker[w].due + Lag
    <3>1. clock < worker[w].due + Lag
      BY <1>1, <2>2 DEF Punctual
    <3> QED BY <1>1, <3>1, LagAssumption
  <2> QED BY <1>1, <2>1, <2>2 DEF Pace
<1> QED BY <1>1, <1>2 DEF TInv, Timely, RowOf

LEMMA TimelyPreserved ==
  ASSUME PunctualDurations, TInv, [Next]_vars
  PROVE  Timely'
<1>1. CASE UNCHANGED vars
  BY <1>1 DEF vars, TInv, Timely, RowOf
<1>2. ASSUME NEW w \in Workers, Start(w) \/ Crash(w)
      PROVE  Timely'
  BY <1>2, StartMoves, RestTimely DEF Start, Crash, TInv, SInv
<1> QED BY <1>1, <1>2, ClientTimely, TickTimely, RunOnceTimely, HeartbeatTimely,
        HandlerTimely, OutcomeTimely DEF Next

\* While no thread is late by more than Lag, and the lease outlives the
\* heartbeat interval by more than three times Lag, a worker that has not
\* been told that its lease is lost owns it: nothing recovers, cancels or
\* claims the row it is working on before it has recorded the outcome.
THEOREM PunctualWorkersKeepTheirJob ==
  PunctualDurations => (Spec => []PunctualWorkerKeepsJob)
<1> SUFFICES ASSUME PunctualDurations
             PROVE  Spec => []PunctualWorkerKeepsJob
  OBVIOUS
<1>1. Init => Timely
  <2> SUFFICES ASSUME Init, NEW w \in Workers
               PROVE  Pace(worker[w], clock) /\ worker[w].pc \notin Active
    BY DEF Timely
  <2>1. worker[w].pc = "stopped" /\ ~worker[w].beating
    BY DEF Init, Resting
  <2> QED BY <2>1 DEF Pace, Active, InWrite
<1>2. SInv /\ Timely /\ [Next]_vars => Timely'
  BY TimelyPreserved DEF TInv
<1>3. SInv /\ Timely => PunctualWorkerKeepsJob
  <2> SUFFICES ASSUME TInv, NEW w \in Workers, worker[w].pc \in Active, ~worker[w].lost
               PROVE  /\ RowOf(w).status = "running" /\ RowOf(w).lease_owner = w
                      /\ RowOf(w).attempt_count = worker[w].attempt
    BY DEF TInv, PunctualWorkerKeepsJob, Holding, Active
  <2>1. RowOf(w).status = "running" /\ RowOf(w).lease_owner = w
    BY LeaseAhead DEF Leased
  <2>2. Claims(w, worker[w], RowOf(w))
    BY HolderFacts DEF TInv, SInv
  <2> QED BY <2>1, <2>2 DEF Claims
<1> QED BY <1>1, <1>2, <1>3, StepInvariant, PTL DEF Spec
=============================================================================
