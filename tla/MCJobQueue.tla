----------------------------- MODULE MCJobQueue -----------------------------
(* Instances of JobQueue for TLC.  Two checkpoints stand for the two to     *)
(* three of the real handlers; 5 and 85 are those of the experiment.        *)
EXTENDS JobQueue, TLC

OneStage == <<85>>
TwoStages == <<5, 85>>

WorkerSymmetry == Permutations(Workers)
=============================================================================
