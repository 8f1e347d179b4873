------------------------------ MODULE JobStore ------------------------------
(***************************************************************************)
(* The job row and the transitions that SqlJobRepository performs on it,   *)
(* one operator per repository operation.  An operator maps a row (and the *)
(* `now` the caller passes) to the row the transaction commits; the guard  *)
(* of a leased write is OwnsValidLease.  The module has no variables: the  *)
(* queue and the experiment modules apply these operators to their tables. *)
(*                                                                         *)
(* Abstractions.  A column that is NULL or not NULL, and whose value no    *)
(* property needs, is a Boolean (started_at, finished_at,                  *)
(* cancellation_requested_at).  heartbeat_at is NULL exactly when          *)
(* lease_owner is and is left out, as are stage (a label), updated_at,     *)
(* the payload and the tenant.  The result digest of a job is the number   *)
(* of the attempt whose handler produced it, 0 for NULL.                   *)
(***************************************************************************)
EXTENDS Integers

CONSTANTS
  Workers,       \* worker identities; each is used by one process lifetime
  NoWorker,      \* NULL in the lease_owner column
  MaxAttempts,   \* the max_attempts column, 1..10
  Lease,         \* lease_duration, in clock units
  RetryDelay     \* retry_delay of the worker, in clock units

ASSUME NoWorkerAssumption == NoWorker \notin Workers
ASSUME AttemptsAssumption == MaxAttempts \in 1..10
ASSUME DurationAssumption == Lease \in Nat \ {0} /\ RetryDelay \in Nat

NoTime == -1                       \* NULL in a timestamp column
Times == Nat \cup {NoTime}

Terminal == {"succeeded", "failed", "cancelled"}
Statuses == {"absent", "queued", "running"} \cup Terminal
Problems == {"none", "lease_expired", "handler_failed"}

JobRow ==
  [status : Statuses,
   attempt_count : 0..MaxAttempts,
   progress : 0..100,
   lease_owner : Workers \cup {NoWorker},
   lease_expires_at : Times,
   cancellation_requested : BOOLEAN,
   next_attempt_at : Times,
   started : BOOLEAN,
   finished : BOOLEAN,
   result : 0..MaxAttempts,
   problem : Problems,
   created_at : Times]

Absent ==                          \* the row before it is inserted
  [status |-> "absent", attempt_count |-> 0, progress |-> 0,
   lease_owner |-> NoWorker, lease_expires_at |-> NoTime,
   cancellation_requested |-> FALSE, next_attempt_at |-> NoTime,
   started |-> FALSE, finished |-> FALSE, result |-> 0,
   problem |-> "none", created_at |-> NoTime]

NewRecord(now) == [Absent EXCEPT !.status = "queued", !.created_at = now]
-----------------------------------------------------------------------------
(* Wrong variants, named for the bug they plant.  Each stands for one of   *)
(* the operators below in a mutation run, where the named property of      *)
(* JobQueue or ExperimentJobs must fail; nothing else uses them.           *)

LeaseOwnerNotCompared(r, w, now) == r.status = "running"
RecoversEveryRunningRow(r, now) == r.status = "running"
RecoverySkipsCancelled(r, now) ==
  r.status = "running" /\ ~r.cancellation_requested /\ r.lease_expires_at <= now
HeartbeatRewritesProgress(r, now) ==
  [r EXCEPT !.lease_expires_at = now + Lease, !.progress = 0]
HeartbeatKeepsExpiry(r, now) == r
LateRequestRecorded(r) ==
  [r EXCEPT !.cancellation_requested = TRUE,
            !.status = IF @ = "queued" THEN "cancelled" ELSE @,
            !.finished = (r.status # "running")]
-----------------------------------------------------------------------------
(* Guards *)

OwnsValidLease(r, w, now) ==
  /\ r.status = "running"
  /\ r.lease_owner = w
  /\ r.lease_expires_at > now

\* next_attempt_at NULL or reached; NoTime lies below every clock value.
Eligible(r, now) ==
  /\ r.status = "queued"
  /\ ~r.cancellation_requested
  /\ r.next_attempt_at <= now

Expired(r, now) == r.status = "running" /\ r.lease_expires_at <= now
-----------------------------------------------------------------------------
(* Transitions *)

ClearLease(r) ==
  [r EXCEPT !.lease_owner = NoWorker, !.lease_expires_at = NoTime]

ClaimRecord(r, w, now) ==
  [r EXCEPT !.status = "running", !.attempt_count = @ + 1, !.progress = 0,
            !.lease_owner = w, !.lease_expires_at = now + Lease,
            !.next_attempt_at = NoTime, !.started = TRUE]

HeartbeatRow(r, now) == [r EXCEPT !.lease_expires_at = now + Lease]

ReportRow(r, progress, now) ==
  [r EXCEPT !.progress = progress, !.lease_expires_at = now + Lease]

CancelledRow(r) ==
  [ClearLease(r) EXCEPT !.status = "cancelled", !.finished = TRUE,
                        !.next_attempt_at = NoTime]

RequeuedRow(r, next) ==
  [ClearLease(r) EXCEPT !.status = "queued", !.progress = 0,
                        !.next_attempt_at = next]

FailedRow(r, problem) ==
  [ClearLease(r) EXCEPT !.status = "failed", !.finished = TRUE,
                        !.next_attempt_at = NoTime, !.problem = problem]

SucceedRow(r, attempt) ==
  [ClearLease(r) EXCEPT !.status = "succeeded", !.progress = 100,
                        !.finished = TRUE, !.result = attempt]

\* request_cancellation: a terminal row is returned as it is, a queued one
\* is cancelled at once, a running one only carries the request.
RequestCancellationRow(r) ==
  LET asked == [r EXCEPT !.cancellation_requested = TRUE]
  IN  CASE r.status \in Terminal -> r
        [] r.status = "queued"   -> CancelledRow(asked)
        [] OTHER                 -> asked

\* Wrong variants of fail() and recover_expired_leases(), as above.
RetryBeforeCancel(r, retryable, now) ==
  CASE retryable /\ r.attempt_count < MaxAttempts -> RequeuedRow(r, now + RetryDelay)
    [] r.cancellation_requested /\ ~(retryable /\ r.attempt_count < MaxAttempts) ->
         CancelledRow(r)
    [] OTHER -> FailedRow(r, "handler_failed")
RecoveryWithoutBudget(r, now) ==
  IF r.cancellation_requested THEN CancelledRow(r) ELSE RequeuedRow(r, now)

FailRow(r, retryable, now) ==
  CASE r.cancellation_requested -> CancelledRow(r)
    [] ~r.cancellation_requested /\ retryable /\ r.attempt_count < MaxAttempts ->
         RequeuedRow(r, now + RetryDelay)
    [] OTHER -> FailedRow(r, "handler_failed")

RecoverRow(r, now) ==
  CASE r.cancellation_requested -> CancelledRow(r)
    [] ~r.cancellation_requested /\ r.attempt_count < MaxAttempts ->
         RequeuedRow(r, now)
    [] OTHER -> FailedRow(r, "lease_expired")
-----------------------------------------------------------------------------
(* The CHECK constraint lifecycle_consistency of the jobs table.  A        *)
(* transaction that broke it would be refused by the database with an      *)
(* IntegrityError that no caller of the repository handles.                *)
RowConsistent(r) ==
  /\ r.status # "running" => r.lease_owner = NoWorker /\ r.lease_expires_at = NoTime
  /\ r.status = "running" => r.lease_owner # NoWorker /\ r.lease_expires_at # NoTime
  /\ r.status \in {"running", "succeeded", "failed"} => r.started
  /\ r.finished <=> r.status \in Terminal
  /\ r.result # 0 <=> r.status = "succeeded"
  /\ r.problem # "none" <=> r.status = "failed"
  /\ r.status = "succeeded" => r.progress = 100
=============================================================================
