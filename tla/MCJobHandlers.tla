--------------------------- MODULE MCJobHandlers ---------------------------
(* Instances of JobHandlers for TLC: three checkpoints, as the experiment  *)
(* handler has; the other handlers pass the first two.                     *)
EXTENDS JobHandlers, TLC

ThreeStages == <<5, 15, 85>>

WorkerSymmetry == Permutations(Workers)
=============================================================================
