------------------------------ MODULE MCServices ------------------------------
(* The models of what runs in one process, one instance of each for TLC: the *)
(* durable workers with punctual threads, the tenant rotation, the in-process*)
(* runner, the artifact store, the key cache, the evidence snapshots, the    *)
(* monitoring reports, and the client's runs of an experiment.  They share   *)
(* no state; "part" picks the one that runs, the others stay at their        *)
(* initial states.                                                           *)
EXTENDS JobQueue, JwksCache, TenantRotation, ArtifactStore, BoundedRunner, DecisionEvidence,
        OutcomeMonitoring, ExperimentRun, TLC

VARIABLE part

TwoStages == <<5, 85>>

Record(day, value) == [as_of |-> day, value |-> value]
MCPredictions ==
  "otif" :> [mean |-> 10, lower |-> 8, upper |-> 11, direction |-> "higher",
             hard |-> TRUE, bound |-> 7]
  @@ "backlog" :> [mean |-> 0, lower |-> 0, upper |-> 0, direction |-> "lower",
                   hard |-> FALSE, bound |-> 0]
MCBatches ==
  {"otif" :> <<Record(1, v)>> : v \in {5, 7, 12}}
  \cup {"otif" :> <<Record(2, 9), Record(1, 6), Record(2, 7)>>}
  \cup {"otif" :> <<Record(1, v)>> @@ "backlog" :> <<Record(1, u)>> :
          v \in {6, 10}, u \in {1, 3}}

ServicesInit ==
  /\ part \in {"workers", "jwks", "rotation", "artifacts", "runner", "evidence",
              "monitoring", "studio"}
  /\ Init /\ JwksInit /\ RotationInit /\ ArtifactInit /\ RunnerInit /\ EvidenceInit
  /\ MonitoringInit /\ StudioInit

Others(running) ==
  /\ part = running
  /\ UNCHANGED part
  /\ running # "workers" => UNCHANGED vars
  /\ running # "jwks" => UNCHANGED jwksVars
  /\ running # "rotation" => UNCHANGED rotationVars
  /\ running # "artifacts" => UNCHANGED artifactVars
  /\ running # "runner" => UNCHANGED runnerVars
  /\ running # "evidence" => UNCHANGED evidenceVars
  /\ running # "monitoring" => UNCHANGED monitoringVars
  /\ running # "studio" => UNCHANGED studioVars

ServicesNext ==
  \/ Others("workers") /\ Next
  \/ Others("jwks") /\ JwksNext
  \/ Others("rotation") /\ RotationNext
  \/ Others("artifacts") /\ ArtifactNext
  \/ Others("runner") /\ RunnerNext
  \/ Others("evidence") /\ EvidenceNext
  \/ Others("monitoring") /\ MonitoringNext
  \/ Others("studio") /\ StudioNext

ServicesSpec ==
  ServicesInit /\ [][ServicesNext]_<<part, vars, jwksVars, rotationVars, artifactVars,
                                      runnerVars, evidenceVars, monitoringVars, studioVars>>
=============================================================================
