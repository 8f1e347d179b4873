---------------------------- MODULE BoundedRunner ----------------------------
(***************************************************************************)
(* BoundedExperimentRunner, the in-process alternative to the durable      *)
(* queue: a thread pool behind a semaphore of slots.  submit and the done  *)
(* callback that ends an execution take the state lock several times and   *)
(* the semaphore outside it; the callback reads the queued rows and        *)
(* submits the next one itself.  Clients, the startup recovery, the pool's *)
(* threads and shutdown interleave between these steps.                    *)
(*                                                                         *)
(* The pool and its futures are concurrent.futures' (external): a callback *)
(* added to a done future runs at once, in the thread that adds it.  The   *)
(* database answers; an execution that fails marks its row like one that   *)
(* completes.                                                              *)
(***************************************************************************)
EXTENDS Integers, FiniteSets, Sequences, FiniteSetsExt

CONSTANTS
  Experiments,   \* ids, in order of creation; a client thread submits each
  PoolThreads,   \* max_workers of them
  QueueSize      \* max_queue_size

ASSUME RunnerAssumption ==
  /\ Experiments \subseteq Nat \ {0} /\ IsFiniteSet(Experiments)
  /\ PoolThreads # {} /\ IsFiniteSet(PoolThreads)
  /\ PoolThreads \cap (Experiments \cup {0}) = {}   \* threads of their own
  /\ QueueSize \in Nat

Capacity == Cardinality(PoolThreads) + QueueSize
Startup == 0                       \* the thread of recover_pending
RunnerThreads == Experiments \cup PoolThreads \cup {Startup}

VARIABLES
  row,         \* experiment -> its status
  slots,       \* permits of the semaphore
  scheduled,   \* _scheduled_ids
  executor,    \* ids waiting in the pool's queue
  future,      \* id -> state of its future, and whether it has its callback
  actor,       \* thread -> its place in the code, and the id it works on
  todo,        \* ids recover_pending has still to submit
  shut         \* "boot" until recovery ended, then "no", "flagged"
               \* (_shutting_down), "down" (the executor too)

runnerVars == <<row, slots, scheduled, executor, future, actor, todo, shut>>

\* inserting, acquiring, registering, enqueueing, tracking: submit
\* starting, executing, ending: _execute in a pool thread
\* releasing, returning, querying: _release_slot; choosing: next pending
Away == [pc |-> "away", id |-> 0, should_schedule |-> FALSE, seen |-> {}]
NoFuture == [state |-> "none", callback |-> FALSE]

RunnerInit ==
  /\ row = [e \in Experiments |-> "none"]
  /\ slots = Capacity
  /\ scheduled = {}
  /\ executor = <<>>
  /\ future = [e \in Experiments |-> NoFuture]
  /\ actor = [t \in RunnerThreads |-> Away]
  /\ todo = {}
  /\ shut = "boot"

Does(t, pc) == actor[t].pc = pc
Id(t) == actor[t].id
Then(t, pc) == actor' = [actor EXCEPT ![t].pc = pc]
Return(t) == actor' = [actor EXCEPT ![t] = Away]
Queued == {e \in Experiments : row[e] = "queued"}
-----------------------------------------------------------------------------
(* Wrong variants, each named for the bug it plants, for mutation runs.    *)

DuplicateKeepsSlot(t) ==
  /\ Does(t, "registering")
  /\ IF shut # "no" \/ Id(t) \in scheduled
     THEN UNCHANGED <<slots, scheduled>> /\ Return(t)
     ELSE scheduled' = scheduled \cup {Id(t)} /\ Then(t, "enqueueing") /\ UNCHANGED slots
  /\ UNCHANGED <<row, executor, future, todo, shut>>
SlotReturnedAfterQuery(t) ==
  /\ Does(t, "returning")
  /\ IF actor[t].should_schedule
     THEN /\ actor' = [actor EXCEPT ![t].should_schedule = FALSE, ![t].seen = Queued \cup {0}]
          /\ UNCHANGED slots
     ELSE /\ slots' = slots + 1
          /\ IF actor[t].seen = {} THEN Return(t)
             ELSE actor' = [actor EXCEPT ![t].pc = "choosing", ![t].seen = @ \ {0}]
  /\ UNCHANGED <<row, scheduled, executor, future, todo, shut>>
-----------------------------------------------------------------------------
(* Startup and clients *)

\* The rows an earlier process left; recover_pending puts its running ones
\* back, then submits what is queued until the queue is full.
RecoverPending ==
  /\ shut = "boot" /\ shut' = "no"
  /\ \E left \in SUBSET Experiments :
       /\ row' = [e \in Experiments |-> IF e \in left THEN "queued" ELSE "none"]
       /\ todo' = left
  /\ UNCHANGED <<slots, scheduled, executor, future, actor>>

SubmitRecovered ==
  /\ Does(Startup, "away") /\ todo # {}
  /\ LET first == Min(todo)
     IN /\ todo' = todo \ {first}
        /\ actor' = [actor EXCEPT ![Startup] = [Away EXCEPT !.pc = "acquiring", !.id = first]]
  /\ UNCHANGED <<row, slots, scheduled, executor, future, shut>>

\* A client commits the queued row, then calls submit.
CreateRow(e) ==
  /\ shut # "boot" /\ row[e] = "none"
  /\ row' = [row EXCEPT ![e] = "queued"]
  /\ actor' = [actor EXCEPT ![e] = [Away EXCEPT !.pc = "acquiring", !.id = e]]
  /\ UNCHANGED <<slots, scheduled, executor, future, todo, shut>>
-----------------------------------------------------------------------------
(* submit *)

AcquireSlot(t) ==
  /\ Does(t, "acquiring") /\ slots > 0
  /\ slots' = slots - 1
  /\ Then(t, "registering")
  /\ UNCHANGED <<row, scheduled, executor, future, todo, shut>>

\* ExperimentQueueFullError: the recovery stops, the others return.
QueueFull(t) ==
  /\ Does(t, "acquiring") /\ slots = 0
  /\ Return(t)
  /\ todo' = IF t = Startup THEN {} ELSE todo
  /\ UNCHANGED <<row, slots, scheduled, executor, future, shut>>

Register(t) ==
  /\ Does(t, "registering")
  /\ IF shut # "no" \/ Id(t) \in scheduled
     THEN slots' = slots + 1 /\ Return(t) /\ UNCHANGED scheduled
     ELSE scheduled' = scheduled \cup {Id(t)} /\ Then(t, "enqueueing") /\ UNCHANGED slots
  /\ UNCHANGED <<row, executor, future, todo, shut>>

Enqueue(t) ==
  /\ Does(t, "enqueueing") /\ shut # "down"
  /\ executor' = Append(executor, Id(t))
  /\ future' = [future EXCEPT ![Id(t)] = [state |-> "pending", callback |-> FALSE]]
  /\ Then(t, "tracking")
  /\ UNCHANGED <<row, slots, scheduled, todo, shut>>

ExecutorRefuses(t) ==
  /\ Does(t, "enqueueing") /\ shut = "down"
  /\ scheduled' = scheduled \ {Id(t)}
  /\ Then(t, "returning")
  /\ UNCHANGED <<row, slots, executor, future, todo, shut>>

\* _futures.add and add_done_callback.
AddCallback(t) ==
  /\ Does(t, "tracking")
  /\ IF future[Id(t)].state = "done"
     THEN Then(t, "releasing") /\ UNCHANGED future
     ELSE Return(t) /\ future' = [future EXCEPT ![Id(t)].callback = TRUE]
  /\ UNCHANGED <<row, slots, scheduled, executor, todo, shut>>
-----------------------------------------------------------------------------
(* _execute in a pool thread *)

TakeWork(p) ==
  /\ Does(p, "away") /\ executor # <<>>
  /\ executor' = Tail(executor)
  /\ future' = [future EXCEPT ![Head(executor)].state = "running"]
  /\ actor' = [actor EXCEPT ![p] = [Away EXCEPT !.pc = "starting", !.id = Head(executor)]]
  /\ UNCHANGED <<row, slots, scheduled, todo, shut>>

\* claim_queued finds the row queued, or there is nothing to do.
StartJob(p) ==
  /\ Does(p, "starting")
  /\ IF row[Id(p)] = "queued"
     THEN row' = [row EXCEPT ![Id(p)] = "running"] /\ Then(p, "executing")
     ELSE Then(p, "ending") /\ UNCHANGED row
  /\ UNCHANGED <<slots, scheduled, executor, future, todo, shut>>

CompleteOrFail(p) ==
  /\ Does(p, "executing")
  /\ row' = [row EXCEPT ![Id(p)] = "over"]
  /\ Then(p, "ending")
  /\ UNCHANGED <<slots, scheduled, executor, future, todo, shut>>

\* The future is done: its callback runs here if it is there already.
EndFuture(p) ==
  /\ Does(p, "ending")
  /\ future' = [future EXCEPT ![Id(p)].state = "done"]
  /\ IF future[Id(p)].callback THEN Then(p, "releasing") ELSE Return(p)
  /\ UNCHANGED <<row, slots, scheduled, executor, todo, shut>>
-----------------------------------------------------------------------------
(* _release_slot and _schedule_next_pending *)

Release(t) ==
  /\ Does(t, "releasing")
  /\ future' = [future EXCEPT ![Id(t)] = NoFuture]
  /\ scheduled' = scheduled \ {Id(t)}
  /\ actor' = [actor EXCEPT ![t].pc = "returning",
                            ![t].should_schedule = shut = "no"]
  /\ UNCHANGED <<row, slots, executor, todo, shut>>

ReturnSlot(t) ==
  /\ Does(t, "returning")
  /\ slots' = slots + 1
  /\ IF actor[t].should_schedule THEN Then(t, "querying") ELSE Return(t)
  /\ UNCHANGED <<row, scheduled, executor, future, todo, shut>>

QueryPending(t) ==
  /\ Does(t, "querying")
  /\ actor' = [actor EXCEPT ![t].pc = "choosing", ![t].seen = Queued]
  /\ UNCHANGED <<row, slots, scheduled, executor, future, todo, shut>>

\* The first one not in the snapshot of scheduled ids is submitted.
ChooseNext(t) ==
  /\ Does(t, "choosing")
  /\ LET pending == actor[t].seen \ scheduled
     IN actor' = [actor EXCEPT ![t] =
          IF pending = {} THEN Away
          ELSE [Away EXCEPT !.pc = "acquiring", !.id = Min(pending)]]
  /\ UNCHANGED <<row, slots, scheduled, executor, future, todo, shut>>
-----------------------------------------------------------------------------
(* shutdown: flag, wait with a timeout, cancel what has not started *)

FlagShutdown ==
  /\ shut = "no"
  /\ shut' = "flagged"
  /\ UNCHANGED <<row, slots, scheduled, executor, future, actor, todo>>

\* executor.shutdown, after the timeout or once nothing runs.
ExecutorDown ==
  /\ shut = "flagged"
  /\ shut' = "down"
  /\ UNCHANGED <<row, slots, scheduled, executor, future, actor, todo>>

\* A cancelled future is done; its callback, if there is one, runs in the
\* thread of shutdown, where nobody else's step matters any more.
CancelPending ==
  /\ shut # "no" /\ executor # <<>>
  /\ LET e == Head(executor)
     IN IF future[e].callback
        THEN /\ future' = [future EXCEPT ![e] = NoFuture]
             /\ scheduled' = scheduled \ {e}
             /\ slots' = slots + 1
        ELSE /\ future' = [future EXCEPT ![e].state = "done"]
             /\ UNCHANGED <<scheduled, slots>>
  /\ executor' = Tail(executor)
  /\ UNCHANGED <<row, actor, todo, shut>>

SubmitStep(t) ==
  AcquireSlot(t) \/ QueueFull(t) \/ Register(t) \/ Enqueue(t) \/ ExecutorRefuses(t) \/ AddCallback(t)
CallbackStep(t) == Release(t) \/ ReturnSlot(t) \/ QueryPending(t) \/ ChooseNext(t)

RunnerNext ==
  \/ RecoverPending \/ SubmitRecovered
  \/ \E e \in Experiments : CreateRow(e)
  \/ \E t \in RunnerThreads : SubmitStep(t) \/ CallbackStep(t)
  \/ \E p \in PoolThreads : TakeWork(p) \/ StartJob(p) \/ CompleteOrFail(p) \/ EndFuture(p)
  \/ FlagShutdown \/ ExecutorDown \/ CancelPending

RunnerSpec == RunnerInit /\ [][RunnerNext]_runnerVars
-----------------------------------------------------------------------------
\* Slots are neither lost nor returned twice (BoundedSemaphore would raise):
\* each one not in the semaphore belongs to a scheduled id, or to a thread
\* that has yet to register its id or to return the slot of a discarded one.
SlotsAccounted ==
  slots + Cardinality(scheduled)
    + Cardinality({t \in RunnerThreads : actor[t].pc \in {"registering", "returning"}})
    = Capacity

\* A queued experiment is never forgotten: whenever every thread is at rest
\* and the runner is not shutting down, nothing is queued, although a client
\* whose submission met a full queue never submits again.
NoQueuedExperimentForgotten ==
  (shut = "no" /\ executor = <<>> /\ todo = {} /\ \A t \in RunnerThreads : Does(t, "away"))
    => Queued = {}
=============================================================================
