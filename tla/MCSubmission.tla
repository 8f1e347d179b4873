---------------------------- MODULE MCSubmission ----------------------------
(* Instances of the submission for TLC. *)
EXTENDS Submission, TLC

MCSymmetry ==
  Permutations(Clients) \cup Permutations(Starters) \cup Permutations(Jobs)
    \cup Permutations(Payloads)
=============================================================================
