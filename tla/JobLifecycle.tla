---------------------------- MODULE JobLifecycle ----------------------------
(***************************************************************************)
(* What the durable queue promises about one job, whatever the workers,    *)
(* the clock and the leases do: the state diagram of docs/jobs.md with the *)
(* attempt budget and the meaning of a cancellation request.  JobQueue     *)
(* implements it (JobQueue!Lifecycle).                                     *)
(*                                                                         *)
(* One step may move several jobs: lease recovery commits all its rows in  *)
(* one transaction.                                                        *)
(***************************************************************************)
EXTENDS Naturals

CONSTANTS
  Jobs,          \* job identifiers
  MaxAttempts    \* attempt budget of a job

VARIABLE life    \* job -> [status, attempts, cancel]

Ended == {"succeeded", "failed", "cancelled"}

LifeInit ==
  life = [j \in Jobs |-> [status |-> "absent", attempts |-> 0, cancel |-> FALSE]]

\* [*] --> queued
Accepted(a, b) ==
  a.status = "absent" /\ b = [a EXCEPT !.status = "queued"]

\* queued --> running: a new attempt, within the budget, not after a request
Attempted(a, b) ==
  /\ a.status = "queued" /\ ~a.cancel /\ a.attempts < MaxAttempts
  /\ b = [a EXCEPT !.status = "running", !.attempts = @ + 1]

\* running --> queued: budget left and nobody asked to cancel
Retried(a, b) ==
  /\ a.status = "running" /\ ~a.cancel /\ a.attempts < MaxAttempts
  /\ b = [a EXCEPT !.status = "queued"]

\* running --> succeeded; a request that arrives too late does not undo it
Succeeded(a, b) ==
  a.status = "running" /\ b = [a EXCEPT !.status = "succeeded"]

\* running --> failed: never once a cancellation was requested
Failed(a, b) ==
  a.status = "running" /\ ~a.cancel /\ b = [a EXCEPT !.status = "failed"]

\* queued --> cancelled, at once; a running job only records the request
CancelAsked(a, b) ==
  \/ a.status = "queued" /\ b = [a EXCEPT !.status = "cancelled", !.cancel = TRUE]
  \/ a.status = "running" /\ b = [a EXCEPT !.cancel = TRUE]

\* running --> cancelled: only when it was requested
Cancelled(a, b) ==
  a.status = "running" /\ a.cancel /\ b = [a EXCEPT !.status = "cancelled"]

Move(a, b) ==
  \/ Accepted(a, b)
  \/ Attempted(a, b)
  \/ Retried(a, b)
  \/ Succeeded(a, b)
  \/ Failed(a, b)
  \/ CancelAsked(a, b)
  \/ Cancelled(a, b)

LifeNext ==
  /\ DOMAIN life' = Jobs
  /\ \A j \in Jobs : life'[j] = life[j] \/ Move(life[j], life'[j])

LifeSpec == LifeInit /\ [][LifeNext]_life
=============================================================================
