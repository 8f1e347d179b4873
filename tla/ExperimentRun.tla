---------------------------- MODULE ExperimentRun ----------------------------
(***************************************************************************)
(* The policy studio's client: useScenarioExperiment runs the baseline's   *)
(* experiment and then the candidate's, useJob watches the job of the      *)
(* step.  runScenario and advance are asynchronous; between their requests *)
(* the page renders, polls, and may be left.  An effect advances the run,  *)
(* but only in a render that changes one of its dependencies.              *)
(*                                                                         *)
(* A job is named by its idempotency key: a POST under a key that has a    *)
(* job answers with that job as it is now.  A seed stands for the seed and *)
(* the number of iterations.  A cancelled job is treated as a failed one,  *)
(* as the effect does.  External: react-query's cache (one entry for each  *)
(* job, kept while it is watched and for some minutes after; initialData   *)
(* only fills an empty entry) and React's effects.                         *)
(***************************************************************************)
EXTENDS Naturals

CONSTANTS Seeds, Drafts

Inputs == [seed : Seeds, draft : Drafts]
NoInput == [seed |-> "none", draft |-> "none"]

BaselineKey(input) == <<"baseline", input.seed>>
CandidateKey(input) == <<"candidate", input.seed, input.draft>>
JobKeys == {BaselineKey(i) : i \in Inputs} \cup {CandidateKey(i) : i \in Inputs}
NoKey == <<>>

VARIABLES
  scenarios,   \* draft -> the service's scenario of that id: "absent", "same", "other"
  server,      \* job -> its status at the service
  cache,       \* job -> the status react-query has cached, or "none"
  view,        \* the hook's state: phase, activeStep, activeJob, lastCompleted
  refs,        \* the hook's refs: pendingCandidate, transitioningJobId
  deps,        \* the dependencies of the effect's last run
  task,        \* the asynchronous function in progress
  asked        \* what this run was started for, and how (ghost)

studioVars == <<scenarios, server, cache, view, refs, deps, task, asked>>

Active == {"queued", "running"}
NoActiveJob == [key |-> NoKey, status |-> "none"]
NewView == [phase |-> "idle", step |-> "none", job |-> NoActiveJob, completed |-> NoInput]
NewRefs == [pending |-> NoInput, transitioning |-> NoKey]
NoTask == [by |-> "nobody", at |-> "done", input |-> NoInput]

\* A page that is mounted has run its effect once, with nothing to observe.
Mounted == view' = NewView /\ refs' = NewRefs /\ task' = NoTask /\ deps' = <<"none", NoActiveJob>>

StudioInit ==
  /\ scenarios = [d \in Drafts |-> "absent"]
  /\ server = [k \in JobKeys |-> "none"]
  /\ cache = [k \in JobKeys |-> "none"]
  /\ view = NewView /\ refs = NewRefs /\ task = NoTask
  /\ deps = <<"none", NoActiveJob>>
  /\ asked = [input |-> NoInput, how |-> "fresh"]

IsRunning == view.phase \notin {"idle", "completed", "failed"}

\* jobQuery.data ?? activeJob; the cache's entry is filled when the job is first shown.
Observed ==
  IF view.job = NoActiveJob THEN NoActiveJob
  ELSE [key |-> view.job.key, status |-> cache[view.job.key]]

EffectIsDue == <<view.step, Observed>> # deps

\* enabled looks at the job that was submitted, refetchInterval at the cached one.
Polls == view.job.status \in Active /\ Observed.status \in Active
-----------------------------------------------------------------------------
(* Wrong variant for a mutation run: a failed advance is not caught.        *)

Uncaught == task' = NoTask /\ UNCHANGED view
-----------------------------------------------------------------------------
(* ensureScenario: look, create, and after a conflict look again.  The     *)
(* baseline's scenario is the service's own.                               *)

Throw == view' = [view EXCEPT !.phase = "failed"] /\ task' = NoTask

Proceed(phase) == view' = [view EXCEPT !.phase = phase] /\ task' = [task EXCEPT !.at = "submit"]

Ensured(outcome) ==
  IF outcome = "same"
  THEN Proceed(IF task.by = "runScenario" THEN "running_baseline" ELSE "running_candidate")
  ELSE Throw

ScenarioOf == IF task.by = "runScenario" THEN "same" ELSE scenarios[task.input.draft]

Lookup ==
  /\ task.at = "lookup"
  /\ IF ScenarioOf = "absent" THEN task' = [task EXCEPT !.at = "create"] /\ UNCHANGED view
     ELSE Ensured(ScenarioOf)
  /\ UNCHANGED <<scenarios, server, cache, refs, deps, asked>>

Create ==
  /\ task.at = "create"
  /\ IF ScenarioOf = "absent"
     THEN scenarios' = [scenarios EXCEPT ![task.input.draft] = "same"] /\ Ensured("same")
     ELSE task' = [task EXCEPT !.at = "reread"] /\ UNCHANGED <<scenarios, view>>
  /\ UNCHANGED <<server, cache, refs, deps, asked>>

Reread ==
  /\ task.at = "reread"
  /\ Ensured(ScenarioOf)
  /\ UNCHANGED <<scenarios, server, cache, refs, deps, asked>>

\* Any request may fail or be refused.
RequestFails ==
  /\ task # NoTask
  /\ Throw
  /\ UNCHANGED <<scenarios, server, cache, refs, deps, asked>>
-----------------------------------------------------------------------------
(* runScenario *)

\* The ghost's word for a run: the job of a failed run is still shown, the cache holds a
\* job as it was some time ago, or neither.
Manner ==
  CASE view.job # NoActiveJob -> "retry"
    [] view.job = NoActiveJob /\ \E k \in JobKeys : cache[k] \in Active -> "stale"
    [] OTHER -> "fresh"

\* submitScenario refuses while a run is in progress.
RunScenario(input) ==
  /\ ~IsRunning
  /\ view' = [view EXCEPT !.phase = "saving_baseline"]
  /\ task' = [by |-> "runScenario", at |-> "lookup", input |-> input]
  /\ asked' = [input |-> input, how |-> Manner]
  /\ UNCHANGED <<scenarios, server, cache, refs, deps>>

\* The answer to a POST under a key, and its first rendering.
Posted(key) == [key |-> key, status |-> IF server[key] = "none" THEN "queued" ELSE server[key]]

Shown(step, key) ==
  /\ server' = [server EXCEPT ![key] = Posted(key).status]
  /\ cache' = [cache EXCEPT ![key] = IF @ = "none" THEN Posted(key).status ELSE @]
  /\ view' = [view EXCEPT !.step = step, !.job = Posted(key)]
  /\ task' = NoTask

\* The refs of a run whose baseline is submitted.
Pending(input) == [pending |-> input, transitioning |-> NoKey]

SubmitBaseline ==
  /\ task.by = "runScenario" /\ task.at = "submit"
  /\ Shown("baseline", BaselineKey(task.input))
  /\ refs' = Pending(task.input)
  /\ UNCHANGED <<scenarios, deps, asked>>
-----------------------------------------------------------------------------
(* The effect, and its advance *)

Complete ==
  /\ view' = [phase |-> "completed", step |-> "none", job |-> NoActiveJob, completed |-> refs.pending]
  /\ refs' = [pending |-> NoInput, transitioning |-> Observed.key]
  /\ UNCHANGED task

Advance ==
  /\ view' = [view EXCEPT !.phase = "saving_candidate"]
  /\ task' = [by |-> "advance", at |-> "lookup", input |-> refs.pending]
  /\ refs' = [refs EXCEPT !.transitioning = Observed.key]

JobFailed ==
  /\ view' = [view EXCEPT !.phase = "failed"]
  /\ refs' = [refs EXCEPT !.transitioning = Observed.key]
  /\ UNCHANGED task

Ignored ==
  \/ Observed = NoActiveJob \/ view.step = "none"
  \/ refs.transitioning = Observed.key
  \/ Observed.status \in Active

\* The pending candidate is there: only a completion clears it.
Effect ==
  /\ EffectIsDue
  /\ deps' = <<view.step, Observed>>
  /\ \/ Ignored /\ UNCHANGED <<view, refs, task>>
     \/ ~Ignored /\ Observed.status = "failed" /\ JobFailed
     \/ ~Ignored /\ Observed.status = "succeeded" /\ view.step = "baseline" /\ Advance
     \/ ~Ignored /\ Observed.status = "succeeded" /\ view.step = "candidate" /\ Complete
  /\ UNCHANGED <<scenarios, server, cache, asked>>

\* The service refuses a candidate without its baseline's results.
SubmitCandidate ==
  /\ task.by = "advance" /\ task.at = "submit"
  /\ server[BaselineKey(task.input)] = "succeeded"
  /\ Shown("candidate", CandidateKey(task.input))
  /\ refs' = [refs EXCEPT !.transitioning = NoKey]
  /\ UNCHANGED <<scenarios, deps, asked>>
-----------------------------------------------------------------------------
(* useJob, and leaving the page *)

Refetch ==
  /\ Polls
  /\ cache' = [cache EXCEPT ![view.job.key] = server[view.job.key]]
  /\ UNCHANGED <<scenarios, server, view, refs, deps, task, asked>>

\* The entry of a job nobody has watched for the cache's time is dropped.
GarbageCollect(key) ==
  /\ cache[key] # "none" /\ view.job.key # key
  /\ cache' = [cache EXCEPT ![key] = "none"]
  /\ UNCHANGED <<scenarios, server, view, refs, deps, task, asked>>

\* What its last requests still do at the service, the others do as well.
Leave ==
  /\ view.phase # "idle"
  /\ Mounted
  /\ UNCHANGED <<scenarios, server, cache, asked>>

\* The jobs page shows the answer to a cancellation to the other pages too.
CancelElsewhere(key) ==
  /\ view = NewView /\ server[key] \in Active
  /\ server' = [server EXCEPT ![key] = IF @ = "queued" THEN "failed" ELSE @]
  /\ cache' = [cache EXCEPT ![key] = server'[key]]
  /\ UNCHANGED <<scenarios, view, refs, deps, task, asked>>
-----------------------------------------------------------------------------
(* The service: other clients, and the workers *)

OtherCreates(draft) ==
  /\ scenarios[draft] = "absent"
  /\ \E other \in {"same", "other"} : scenarios' = [scenarios EXCEPT ![draft] = other]
  /\ UNCHANGED <<server, cache, view, refs, deps, task, asked>>

OtherSubmits(input) ==
  /\ \E key \in {BaselineKey(input), CandidateKey(input)} :
       /\ server[key] = "none"
       /\ key = CandidateKey(input) => server[BaselineKey(input)] = "succeeded"
       /\ server' = [server EXCEPT ![key] = "queued"]
  /\ UNCHANGED <<scenarios, cache, view, refs, deps, task, asked>>

JobRuns(key) ==
  /\ server[key] \in Active
  /\ \E s \in {"queued", "running", "succeeded", "failed"} \ {server[key]} :
       /\ s = "succeeded" => server[key] = "running"
       /\ server' = [server EXCEPT ![key] = s]
  /\ UNCHANGED <<scenarios, cache, view, refs, deps, task, asked>>

StudioNext ==
  \/ \E i \in Inputs : RunScenario(i) \/ OtherSubmits(i)
  \/ Lookup \/ Create \/ Reread \/ RequestFails \/ SubmitBaseline \/ SubmitCandidate
  \/ Effect \/ Refetch \/ Leave
  \/ \E k \in JobKeys : GarbageCollect(k) \/ CancelElsewhere(k) \/ JobRuns(k)
  \/ \E d \in Drafts : OtherCreates(d)

StudioSpec == StudioInit /\ [][StudioNext]_studioVars
-----------------------------------------------------------------------------
(* Properties *)

\* Somebody will take the run further: a function, the effect, or the poll.
Watched == task # NoTask \/ EffectIsDue \/ Polls

\* "Review the model limits and retry the experiment": a retry that the studio shows
\* as running is watched.
RetryIsWatched == IsRunning /\ asked.how = "retry" => Watched

\* A run that is no retry and meets no stale entry in the cache is watched to its
\* end; and whatever run completes shows the candidate that was asked for, whose
\* experiment and baseline of the same seed have both succeeded.
RunsArrive ==
  /\ IsRunning /\ asked.how = "fresh" => Watched
  /\ view.phase = "completed" =>
       /\ view.completed = asked.input
       /\ server[BaselineKey(asked.input)] = "succeeded"
       /\ server[CandidateKey(asked.input)] = "succeeded"
=============================================================================
