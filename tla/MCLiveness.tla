------------------------------ MODULE MCLiveness ------------------------------
(* The two liveness questions, one instance of each for TLC: jobs that end, *)
(* and old experiments that get a job.  The durable queue and the submission*)
(* are checked apart; "part" picks the one that runs, and fairness is       *)
(* assumed of that one only.                                                *)
EXTENDS JobQueue

CONSTANTS Clients, Starters, Keys, NoKey, Payloads, Blank, Experiments, Legacy,
          NewJobs, Unlinked, Nobody

VARIABLES part, experiments, submitted, session

S == INSTANCE Submission WITH jobs <- submitted, Jobs <- NewJobs, NoJob <- Unlinked

OneStage == <<85>>

rowVars == <<experiments, submitted, session>>
allVars == <<part, vars, rowVars>>

\* One initial state of the submission is enough where the queue runs.  Of the
\* submission's, those without an active experiment ask nothing, and where only one is
\* active it may be the first.
LivenessInit ==
  /\ part \in {"queue", "submission"}
  /\ Init /\ S!SubmissionInit
  /\ part = "queue" => \A e \in Legacy : experiments[e].key = NoKey /\ ~experiments[e].active
  /\ part = "submission" => experiments[1].active

LivenessNext ==
  \/ part = "queue" /\ Next /\ UNCHANGED <<part, rowVars>>
  \/ part = "submission" /\ S!SubmissionNext /\ UNCHANGED <<part, vars>>

LivenessSpec ==
  /\ LivenessInit /\ [][LivenessNext]_allVars
  /\ part = "queue" => Fairness
  /\ part = "submission" => S!SubmissionFairness

\* As in Submission, for the behaviours in which it runs.
EveryExperimentGetsAJob == part = "submission" => S!EveryExperimentGetsAJob
=============================================================================
