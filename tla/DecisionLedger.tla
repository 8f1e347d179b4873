--------------------------- MODULE DecisionLedger ---------------------------
(***************************************************************************)
(* The governed decision ledger of one tenant: DecisionLedgerService over  *)
(* SqlDecisionLedgerRepository, called by several requests at once.        *)
(*                                                                         *)
(* A request reads the decision in one session and writes it in another    *)
(* transaction, so each service operation is two steps: the read with all  *)
(* the service's checks, and the conditional UPDATE (or INSERT) with its   *)
(* event row.  What is carried between them is in request[c].  A refused   *)
(* request changes nothing and is the step not taken.  Even a load is two  *)
(* SELECTs under READ COMMITTED, the row and then its events: they are two *)
(* steps where the events matter, in the export of a packet.               *)
(*                                                                         *)
(* Content stands for the whole rationale with its evidence; equal digests *)
(* are equal contents.  Titles, notes, timestamps are left out.            *)
(***************************************************************************)
EXTENDS Naturals, Sequences

CONSTANTS
  Decisions,           \* decision ids
  Subjects,            \* authenticated subjects
  Roles,               \* subject -> its roles
  Contents,            \* rationales, identified with their digests
  Clients,             \* requests in flight
  RequireSeparation,   \* require_separation_of_duties
  Nobody, Blank,       \* no subject, no content
  MaxVersion           \* bound of the model on versions

ASSUME RolesAssumption == Roles \in [Subjects -> SUBSET {"viewer", "analyst", "approver", "admin"}]
ASSUME NobodyAssumption == Nobody \notin Subjects /\ Blank \notin Contents
ASSUME SeparationAssumption == RequireSeparation \in BOOLEAN
ASSUME VersionAssumption == MaxVersion \in Nat

VARIABLES
  decisions,   \* the decisions table
  events,      \* the decision_events table: decision -> its rows by sequence
  request      \* request -> what it carries between its transactions

ledgerVars == <<decisions, events, request>>

States ==
  {"draft", "evidence_ready", "under_review", "approved", "implemented",
   "monitoring", "successful", "underperformed", "superseded", "abandoned"}

ALLOWED_TRANSITIONS ==
  [s \in States |->
     CASE s = "draft"          -> {"evidence_ready", "abandoned"}
       [] s = "evidence_ready" -> {"under_review", "draft", "abandoned"}
       [] s = "under_review"   -> {"approved", "draft", "abandoned"}
       [] s = "approved"       -> {"implemented", "superseded", "abandoned"}
       [] s = "implemented"    -> {"monitoring", "superseded"}
       [] s = "monitoring"     -> {"successful", "underperformed", "superseded"}
       [] s \in {"successful", "underperformed"} -> {"superseded"}
       [] s \in {"superseded", "abandoned"} -> {}]

\* Wrong variant for a mutation run: editable until the approval.
EditableUntilApproved == {"draft", "evidence_ready", "under_review"}

EDITABLE_STATES == {"draft", "evidence_ready"}

\* The approval column of an event: NULL, or who approved which digest.
Approvals == [approver : Subjects, digest : Contents]
NoApproval == [approver |-> Nobody, digest |-> Blank]

DecisionRow ==
  [state : States \cup {"absent"}, version : Nat,
   owner : Subjects \cup {Nobody}, content : Contents \cup {Blank}]

NoRow == [state |-> "absent", version |-> 0, owner |-> Nobody, content |-> Blank]

DecisionEvent ==
  [from : States \cup {"absent"}, to : States, actor : Subjects, digest : Contents,
   approval : Approvals \cup {NoApproval}]

\* What a request carries from one transaction to the next.
RequestState ==
  [op : {"idle"}]
    \cup [op : {"create"}, id : Decisions, owner : Subjects, content : Contents]
    \cup [op : {"append"}, id : Decisions, expected : Nat \ {0}, content : Contents,
          event : DecisionEvent]
    \cup [op : {"load"}, id : Decisions, row : DecisionRow]
    \cup [op : {"packet"}, id : Decisions, row : DecisionRow, trail : Seq(DecisionEvent)]

Idle == [op |-> "idle"]

Drafting(s) == Roles[s] \cap {"analyst", "admin"} # {}
Approving(s) == Roles[s] \cap {"approver", "admin"} # {}

EventOf(from, to, actor, digest, approval) ==
  [from |-> from, to |-> to, actor |-> actor, digest |-> digest, approval |-> approval]

LedgerInit ==
  /\ decisions = [d \in Decisions |-> NoRow]
  /\ events = [d \in Decisions |-> << >>]
  /\ request = [c \in Clients |-> Idle]
-----------------------------------------------------------------------------
(* The service: read, check, and carry the write to the repository *)

CreateDecision(c) ==
  /\ request[c].op = "idle"
  /\ \E d \in Decisions, s \in Subjects, x \in Contents :
       /\ Drafting(s)
       /\ decisions[d].state = "absent"
       /\ request' = [request EXCEPT ![c] =
            [op |-> "create", id |-> d, owner |-> s, content |-> x]]
  /\ UNCHANGED <<decisions, events>>

UpdateContent(c) ==
  /\ request[c].op = "idle"
  /\ \E d \in Decisions, s \in Subjects, x \in Contents :
       LET row == decisions[d]
       IN /\ row.state \in EDITABLE_STATES
          /\ row.version < MaxVersion
          /\ request' = [request EXCEPT ![c] =
               [op |-> "append", id |-> d, expected |-> row.version, content |-> x,
                event |-> EventOf(row.state, row.state, s, x, NoApproval)]]
  /\ UNCHANGED <<decisions, events>>

\* Wrong variant for a mutation run: the digest the approver signed is not
\* compared with the rationale that was read.
AnyDigestApproved(row, a) ==
  /\ a \in Approvals
  /\ Approving(a.approver)
  /\ RequireSeparation => a.approver # row.owner

\* _validated_approval; the approver is the caller.
ValidApproval(row, a) ==
  /\ a \in Approvals
  /\ Approving(a.approver)
  /\ a.digest = row.content
  /\ RequireSeparation => a.approver # row.owner

Transition(c) ==
  /\ request[c].op = "idle"
  /\ \E d \in Decisions, s \in Subjects, target \in States,
        a \in Approvals \cup {NoApproval} :
       LET row == decisions[d]
       IN /\ row.state \in States /\ target \in ALLOWED_TRANSITIONS[row.state]
          /\ row.version < MaxVersion
          /\ IF target = "approved"
             THEN ValidApproval(row, a) /\ a.approver = s
             ELSE a = NoApproval /\ Drafting(s)
          /\ request' = [request EXCEPT ![c] =
               [op |-> "append", id |-> d, expected |-> row.version, content |-> row.content,
                event |-> EventOf(row.state, target, s, row.content, a)]]
  /\ UNCHANGED <<decisions, events>>
-----------------------------------------------------------------------------
(* The repository: one transaction each *)

\* Wrong variant for a mutation run: the creation event has no digest.
CreationUndigested(q) == <<EventOf("absent", "draft", q.owner, Blank, NoApproval)>>

CreationTrail(q) == <<EventOf("absent", "draft", q.owner, q.content, NoApproval)>>

\* The primary key decides between two creators; the loser's IntegrityError
\* becomes a LedgerConflictError.
Create(c) ==
  /\ request[c].op = "create"
  /\ LET q == request[c]
     IN IF decisions[q.id].state = "absent"
        THEN /\ decisions' = [decisions EXCEPT ![q.id] =
                  [state |-> "draft", version |-> 1, owner |-> q.owner, content |-> q.content]]
             /\ events' = [events EXCEPT ![q.id] = CreationTrail(q)]
        ELSE UNCHANGED <<decisions, events>>
  /\ request' = [request EXCEPT ![c] = Idle]

\* The UPDATE's values; the owner and title columns are not among them.
Updated(row, q, version) ==
  [row EXCEPT !.state = q.event.to, !.content = q.content, !.version = version]

\* Wrong variant for a mutation run: the transaction counts on from the version
\* it finds instead of asking for the version that was read.
LastWriterWins(row, trail, q) ==
  [row |-> Updated(row, q, row.version + 1), trail |-> Append(trail, q.event)]

\* UPDATE .. WHERE version = expected_version, and the event row with sequence
\* expected_version + 1, in one transaction; rowcount 0 is a LedgerConflictError
\* and nothing is written.
Committed(row, trail, q) ==
  IF row.version = q.expected
  THEN [row |-> Updated(row, q, q.expected + 1), trail |-> Append(trail, q.event)]
  ELSE [row |-> row, trail |-> trail]

AppendDecision(c) ==
  /\ request[c].op = "append"
  /\ LET q == request[c]
         after == Committed(decisions[q.id], events[q.id], q)
     IN /\ decisions' = [decisions EXCEPT ![q.id] = after.row]
        /\ events' = [events EXCEPT ![q.id] = after.trail]
  /\ request' = [request EXCEPT ![c] = Idle]

-----------------------------------------------------------------------------
(* The export of a packet: _load's two SELECTs and the answer *)

LoadRow(c) ==
  /\ request[c].op = "idle"
  /\ \E d \in Decisions :
       /\ decisions[d].state # "absent"
       /\ request' = [request EXCEPT ![c] = [op |-> "load", id |-> d, row |-> decisions[d]]]
  /\ UNCHANGED <<decisions, events>>

\* Wrong variant for a mutation run: no ORDER BY sequence, latest first.
LatestFirst(trail) == [i \in DOMAIN trail |-> trail[Len(trail) + 1 - i]]

\* ORDER BY sequence
BySequence(trail) == trail

LoadTrail(c) ==
  /\ request[c].op = "load"
  /\ LET q == request[c]
     IN request' = [request EXCEPT ![c] =
          [op |-> "packet", id |-> q.id, row |-> q.row, trail |-> BySequence(events[q.id])]]
  /\ UNCHANGED <<decisions, events>>

AnswerPacket(c) ==
  /\ request[c].op = "packet"
  /\ request' = [request EXCEPT ![c] = Idle]
  /\ UNCHANGED <<decisions, events>>

LedgerNext ==
  \E c \in Clients :
    \/ CreateDecision(c) \/ UpdateContent(c) \/ Transition(c)
    \/ Create(c) \/ AppendDecision(c)
    \/ LoadRow(c) \/ LoadTrail(c) \/ AnswerPacket(c)

LedgerSpec == LedgerInit /\ [][LedgerNext]_ledgerVars
-----------------------------------------------------------------------------
(* Properties *)

\* The columns and what the requests carry stay within their types.
LedgerTypeOK ==
  /\ decisions \in [Decisions -> DecisionRow]
  /\ events \in [Decisions -> Seq(DecisionEvent)]
  /\ request \in [Clients -> RequestState]

\* An event continues the one before it: from its target state, and with its
\* rationale unless the event is itself a revision.
Continues(e, next) ==
  /\ next.from = e.to
  /\ next.digest # e.digest => next.to = next.from

\* "the audit trail can never diverge from the snapshot": whatever requests race
\* for a decision, its events number its versions, each continues the one before
\* it, and the last one tells the state and the rationale of the row.
TrailMatchesSnapshot ==
  \A d \in Decisions :
    LET row == decisions[d]
        trail == events[d]
    IN /\ row.version = Len(trail)
       /\ (trail = << >>) <=> (row.state = "absent")
       /\ trail # << >> =>
            /\ trail[1].from = "absent" /\ trail[1].actor = row.owner
            /\ \A i \in 1 .. Len(trail) - 1 : Continues(trail[i], trail[i + 1])
            /\ trail[Len(trail)].to = row.state
            /\ trail[Len(trail)].digest = row.content

\* The events of a trail that carry an approval.
Given(trail) == {i \in 1 .. Len(trail) : trail[i].approval # NoApproval}

AfterApproval == {"approved", "implemented", "monitoring", "successful", "underperformed"}

\* Evidence is immutable once approved: a decision that was approved rests on one
\* approval, given by an approver other than its owner, of the very rationale the
\* row holds now, however long ago and past whatever concurrent revisions.
ApprovalBindsContent ==
  \A d \in Decisions :
    LET row == decisions[d]
        given == Given(events[d])
    IN /\ row.state \in AfterApproval => given # {}
       /\ \A i \in given :
            LET a == events[d][i].approval
            IN /\ given = {i}
               /\ events[d][i].to = "approved"
               /\ a.digest = row.content
               /\ Approving(a.approver)
               /\ RequireSeparation => a.approver # row.owner

\* An exported packet explains its snapshot: the trail that was read after the row
\* holds the event that produced that version of it, in its place.
PacketTrailCoversSnapshot ==
  \A c \in Clients :
    request[c].op = "packet" =>
      LET row == request[c].row
          trail == request[c].trail
      IN /\ row.version \in 1 .. Len(trail)
         /\ trail[row.version].to = row.state
         /\ trail[row.version].digest = row.content

\* What docs/identity-and-access.md says of the approval: a principal cannot
\* approve a decision that the same principal submitted to review.
SubmitterNeverApproves ==
  \A d \in Decisions : \A i \in 2 .. Len(events[d]) :
    events[d][i].to = "approved" =>
      events[d][i].approval.approver # events[d][i - 1].actor

ApproverOf(trail) ==
  IF Given(trail) = {} THEN Nobody
  ELSE trail[CHOOSE i \in Given(trail) : TRUE].approval.approver

\* The racing requests implement the ledger that handles one request at a time.
Governance ==
  INSTANCE GovernedDecision WITH
    Approvers <- {s \in Subjects : Approving(s)},
    governed <- [d \in Decisions |->
      [state |-> decisions[d].state, owner |-> decisions[d].owner,
       content |-> decisions[d].content, approver |-> ApproverOf(events[d])]]

GovernedSpec == Governance!GovSpec
=============================================================================
