-------------------------- MODULE GovernedDecision --------------------------
(***************************************************************************)
(* What the decision ledger promises about one decision, as if every       *)
(* request were handled at once: it moves along the legal transitions, its *)
(* rationale changes only before review, and it is approved once, by an    *)
(* approver other than its owner, on the rationale it then keeps.          *)
(* DecisionLedger implements it (DecisionLedger!Governance).               *)
(***************************************************************************)
CONSTANTS Decisions, Subjects, Contents, Approvers, RequireSeparation, Nobody, Blank

VARIABLE governed    \* decision -> [state, owner, content, approver]

NotCreated ==
  [state |-> "absent", owner |-> Nobody, content |-> Blank, approver |-> Nobody]

GovInit == governed = [d \in Decisions |-> NotCreated]

Proposed(a, b) ==
  /\ a.state = NotCreated.state
  /\ \E s \in Subjects, x \in Contents :
       b = [state |-> "draft", owner |-> s, content |-> x, approver |-> Nobody]

Revised(a, b) ==
  /\ a.state \in {"draft", "evidence_ready"}
  /\ \E x \in Contents : b = [a EXCEPT !.content = x]

Approved(a, b) ==
  /\ a.state = "under_review"
  /\ \E s \in Approvers :
       /\ RequireSeparation => s # a.owner
       /\ b = [state |-> "approved", owner |-> a.owner, content |-> a.content, approver |-> s]

\* Before the approval; a decision may fall back to draft or be abandoned.
Prepared(a, b) ==
  \E next \in
      CASE a.state = "draft"          -> {"evidence_ready", "abandoned"}
        [] a.state = "evidence_ready" -> {"under_review", "draft", "abandoned"}
        [] a.state = "under_review"   -> {"draft", "abandoned"}
        [] OTHER                      -> {} :
    b = [a EXCEPT !.state = next]

\* After it: never back to a state in which the rationale could be revised.
CarriedOut(a, b) ==
  \E next \in
      CASE a.state = "approved"    -> {"implemented", "superseded", "abandoned"}
        [] a.state = "implemented" -> {"monitoring", "superseded"}
        [] a.state = "monitoring"  -> {"successful", "underperformed", "superseded"}
        [] a.state \in {"successful", "underperformed"} -> {"superseded"}
        [] OTHER                   -> {} :
    b = [a EXCEPT !.state = next]

GovNext ==
  \E d \in Decisions :
    LET a == governed[d]
        b == governed'[d]
    IN /\ Proposed(a, b) \/ Revised(a, b) \/ Approved(a, b) \/ Prepared(a, b) \/ CarriedOut(a, b)
       /\ governed' = [governed EXCEPT ![d] = b]

GovSpec == GovInit /\ [][GovNext]_governed
=============================================================================
