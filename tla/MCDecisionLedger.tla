--------------------------- MODULE MCDecisionLedger ---------------------------
(* An instance of the ledger for TLC: an analyst, and a chief who may both  *)
(* draft and approve, so that separation of duties has something to refuse. *)
EXTENDS DecisionLedger, TLC

CONSTANTS analyst, chief

MCSubjects == {analyst, chief}
MCRoles == analyst :> {"analyst"} @@ chief :> {"analyst", "approver"}
MCSymmetry == Permutations(Clients) \cup Permutations(Contents)
=============================================================================
