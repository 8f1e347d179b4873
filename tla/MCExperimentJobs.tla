-------------------------- MODULE MCExperimentJobs --------------------------
(* Instances of ExperimentJobs for TLC, with the handler's own checkpoints. *)
EXTENDS ExperimentJobs, TLC

ThreeStages == <<5, 15, 85>>

WorkerSymmetry == Permutations(Workers)
=============================================================================
