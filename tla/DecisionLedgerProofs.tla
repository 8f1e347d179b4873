------------------------ MODULE DecisionLedgerProofs ------------------------
(***************************************************************************)
(* Safety of the decision ledger for every number of decisions, subjects,  *)
(* contents, requests and versions.                                        *)
(*                                                                         *)
(* The inductive invariant says of each decision that its row and its      *)
(* trail agree (TrailInv) and that an approval binds the content           *)
(* (ApprovalInv), and of each request what is left of what it read.  The   *)
(* heart of it is Fits: a write that still finds the version it expects    *)
(* finds the row the service checked, because versions only grow and two   *)
(* rows of one version are the same row.  So the checks made on a          *)
(* snapshot hold of the row that the UPDATE meets, or it meets none.       *)
(***************************************************************************)
EXTENDS DecisionLedger, SequenceTheorems, TLAPS

Ends == {"superseded", "abandoned"}

TrailInv(row, trail) ==
  /\ row.version = Len(trail)
  /\ (trail = << >>) <=> (row.state = "absent")
  /\ trail # << >> =>
       /\ trail[1].from = "absent" /\ trail[1].actor = row.owner
       /\ \A i \in 1 .. Len(trail) - 1 : Continues(trail[i], trail[i + 1])
       /\ trail[Len(trail)].to = row.state
       /\ trail[Len(trail)].digest = row.content

Binds(row, e) ==
  /\ e.to = "approved"
  /\ e.approval.digest = row.content
  /\ Approving(e.approval.approver)
  /\ RequireSeparation => e.approval.approver # row.owner

ApprovalInv(row, trail) ==
  /\ row.state \in AfterApproval => Given(trail) # {}
  /\ Given(trail) # {} => row.state \in AfterApproval \cup Ends
  /\ \A i \in Given(trail) : Given(trail) = {i} /\ Binds(row, trail[i])

\* The row and the trail of one decision.
Good(row, trail) ==
  /\ row \in DecisionRow /\ trail \in Seq(DecisionEvent)
  /\ TrailInv(row, trail)
  /\ ApprovalInv(row, trail)

\* What an append request was checked against.
Fits(row, q) ==
  /\ row.state \in States
  /\ q.event.from = row.state
  /\ q.event.digest = q.content
  /\ \/ /\ row.state \in EDITABLE_STATES /\ q.event.to = row.state
        /\ q.event.approval = NoApproval
     \/ /\ q.event.to \in ALLOWED_TRANSITIONS[row.state]
        /\ q.content = row.content
        /\ IF q.event.to = "approved"
           THEN ValidApproval(row, q.event.approval)
           ELSE q.event.approval = NoApproval

Shown(row, trail) ==
  /\ row.version \in 1 .. Len(trail)
  /\ trail[row.version].to = row.state
  /\ trail[row.version].digest = row.content

\* What a request knows of the row and the trail of its decision.
Knows(q, row, trail) ==
  /\ q.op = "append" => q.expected <= row.version /\ (q.expected = row.version => Fits(row, q))
  /\ q.op = "load" => Shown(q.row, trail)
  /\ q.op = "packet" => Shown(q.row, q.trail)

RequestInv(c) ==
  request[c].op # "idle" => Knows(request[c], decisions[request[c].id], events[request[c].id])

LedgerInv ==
  /\ LedgerTypeOK
  /\ \A d \in Decisions : Good(decisions[d], events[d])
  /\ \A c \in Clients : RequestInv(c)

\* How a transaction changes a row and its trail.
Grows(row, trail, row2, trail2) ==
  \/ row2 = row /\ trail2 = trail
  \/ /\ row2.version > row.version
     /\ Len(trail2) > Len(trail)
     /\ \A i \in 1 .. Len(trail) : trail2[i] = trail[i]
-----------------------------------------------------------------------------
(* Facts about the table of transitions *)

\* A decision reaches the states after approval through the approval alone,
\* is approved from review only, and never comes back.
LEMMA TransitionFacts ==
  ASSUME NEW s \in States, NEW t \in ALLOWED_TRANSITIONS[s]
  PROVE  /\ t \in States /\ t # s
         /\ t = "approved" => s = "under_review"
         /\ t \in AfterApproval => s \in AfterApproval \/ t = "approved"
         /\ s \in AfterApproval \cup Ends => t \in AfterApproval \cup Ends /\ t # "approved"
BY DEF States, ALLOWED_TRANSITIONS, AfterApproval, Ends

\* A rationale is edited before any approval only.
LEMMA EditableFacts ==
  /\ EDITABLE_STATES \subseteq States
  /\ EDITABLE_STATES \cap (AfterApproval \cup Ends) = {}
BY DEF States, EDITABLE_STATES, AfterApproval, Ends

\* A decision that does not exist is in none of the states.
LEMMA AbsentFacts ==
  "absent" \notin States /\ "absent" \notin AfterApproval
BY DEF States, AfterApproval

\* No approval record is the NULL of the column.
LEMMA ApprovalFacts == NoApproval \notin Approvals
BY NobodyAssumption DEF NoApproval, Approvals
-----------------------------------------------------------------------------
(* One decision *)

\* The creation of a decision makes a row and a trail that agree.
LEMMA CreationIsGood ==
  ASSUME NEW s \in Subjects, NEW x \in Contents,
         NEW q, q.owner = s, q.content = x
  PROVE  Good([state |-> "draft", version |-> 1, owner |-> s, content |-> x],
              CreationTrail(q))
<1> DEFINE e == EventOf("absent", "draft", s, x, NoApproval)
           row == [state |-> "draft", version |-> 1, owner |-> s, content |-> x]
<1>1. CreationTrail(q) = <<e>>
  BY DEF CreationTrail
<1>2. e \in DecisionEvent
  BY DEF EventOf, DecisionEvent, States
<1>3. /\ e.from = "absent" /\ e.to = "draft" /\ e.actor = s
      /\ e.digest = x /\ e.approval = NoApproval
  BY DEF EventOf
<1>4. <<e>> \in Seq(DecisionEvent) /\ Len(<<e>>) = 1 /\ <<e>>[1] = e
  BY <1>2
<1>5. row \in DecisionRow
  BY DEF DecisionRow, States
<1>6. TrailInv(row, <<e>>)
  BY <1>3, <1>4 DEF TrailInv
<1>7. Given(<<e>>) = {}
  BY <1>3, <1>4 DEF Given
<1>8. ApprovalInv(row, <<e>>)
  BY <1>7 DEF ApprovalInv, AfterApproval
<1> QED BY <1>1, <1>4, <1>5, <1>6, <1>8 DEF Good

\* A write of the version it expects, checked against the row it finds, leaves
\* the row and the trail in agreement.
LEMMA CommitIsGood ==
  ASSUME NEW row, NEW trail, Good(row, trail),
         NEW q, q.content \in Contents, q.event \in DecisionEvent,
         q.expected \in Nat, Fits(row, q), row.version = q.expected
  PROVE  Good(Updated(row, q, q.expected + 1), Append(trail, q.event))
<1> DEFINE row2 == Updated(row, q, q.expected + 1)
           trail2 == Append(trail, q.event)
           n == Len(trail)
<1>1. /\ row \in DecisionRow /\ trail \in Seq(DecisionEvent)
      /\ n = row.version /\ n \in Nat
      /\ trail # << >> /\ n > 0
  <2>1. row \in DecisionRow /\ trail \in Seq(DecisionEvent) /\ n = row.version
    BY DEF Good, TrailInv
  <2>2. row.state # "absent"
    BY AbsentFacts DEF Fits
  <2>3. trail # << >>
    BY <2>2 DEF Good, TrailInv
  <2> QED BY <2>1, <2>3, EmptySeq, LenProperties
<1>2. /\ trail2 \in Seq(DecisionEvent) /\ trail2 # << >> /\ Len(trail2) = n + 1
      /\ \A i \in 1 .. n : trail2[i] = trail[i]
      /\ trail2[n + 1] = q.event
  BY <1>1, AppendProperties
<1>3. /\ q.event.to \in States /\ q.event.from \in States \cup {"absent"}
      /\ q.event.digest \in Contents
  BY DEF DecisionEvent
<1>4. /\ row2 \in DecisionRow
      /\ row2.state = q.event.to /\ row2.content = q.content
      /\ row2.version = n + 1 /\ row2.owner = row.owner
  <2>1. PICK s \in States : s = q.event.to
    BY <1>3
  <2>2. row2 = [row EXCEPT !.state = s, !.content = q.content, !.version = n + 1]
    BY <1>1, <2>1 DEF Updated
  <2>3. n + 1 \in Nat
    BY <1>1
  <2> HIDE DEF row2, n
  <2> QED BY <1>1, <2>1, <2>2, <2>3 DEF DecisionRow
<1>5. /\ trail[n].to = row.state /\ trail[n].digest = row.content
      /\ q.event.from = row.state /\ q.event.digest = q.content
      /\ q.content # row.content => q.event.to = q.event.from
  BY <1>1 DEF Good, TrailInv, Fits
<1>6. TrailInv(row2, trail2)
  <2>1. ASSUME NEW i \in 1 .. Len(trail2) - 1
        PROVE  Continues(trail2[i], trail2[i + 1])
    <3>1. CASE i = n
      BY <1>1, <1>2, <1>5, <3>1 DEF Continues
    <3>2. CASE i # n
      <4>1. i \in 1 .. n - 1 /\ i \in 1 .. n /\ i + 1 \in 1 .. n
        BY <1>1, <1>2, <3>2
      <4>2. Continues(trail[i], trail[i + 1])
        BY <1>1, <4>1 DEF Good, TrailInv
      <4> QED BY <1>2, <4>1, <4>2
    <3> QED BY <3>1, <3>2
  <2>2. trail2[1].from = "absent" /\ trail2[1].actor = row2.owner
    BY <1>1, <1>2, <1>4 DEF Good, TrailInv
  <2>3. row2.state # "absent"
    BY <1>3, <1>4, AbsentFacts
  <2> QED BY <1>2, <1>4, <1>5, <2>1, <2>2, <2>3 DEF TrailInv
<1>7. Given(trail2) = Given(trail) \cup
        (IF q.event.approval = NoApproval THEN {} ELSE {n + 1})
  BY <1>1, <1>2 DEF Given
<1>8. ApprovalInv(row2, trail2)
  <2>0. ApprovalInv(row, trail)
    BY DEF Good
  <2>1. CASE /\ row.state \in EDITABLE_STATES /\ q.event.to = row.state
             /\ q.event.approval = NoApproval
    <3>1. row.state \notin AfterApproval \cup Ends
      BY <2>1, EditableFacts
    <3>2. Given(trail2) = {}
      BY <1>7, <2>0, <2>1, <3>1 DEF ApprovalInv
    <3> QED BY <1>4, <2>1, <3>1, <3>2 DEF ApprovalInv
  <2>2. CASE /\ q.event.to \in ALLOWED_TRANSITIONS[row.state]
             /\ q.content = row.content
             /\ q.event.to # "approved" /\ q.event.approval = NoApproval
    <3>1. Given(trail2) = Given(trail)
      BY <1>7, <2>2
    <3>2. row2.state \in AfterApproval => row.state \in AfterApproval
      BY <1>4, <2>2, TransitionFacts DEF Fits
    <3>3. row.state \in AfterApproval \cup Ends => row2.state \in AfterApproval \cup Ends
      BY <1>4, <2>2, TransitionFacts DEF Fits
    <3>4. ASSUME NEW i \in Given(trail)
          PROVE  Binds(row2, trail2[i])
      <4>1. Binds(row, trail[i])
        BY <2>0 DEF ApprovalInv
      <4>2. trail2[i] = trail[i]
        BY <1>2 DEF Given
      <4> QED BY <1>4, <2>2, <4>1, <4>2 DEF Binds
    <3> QED BY <2>0, <3>1, <3>2, <3>3, <3>4 DEF ApprovalInv
  <2>3. CASE /\ q.event.to \in ALLOWED_TRANSITIONS[row.state]
             /\ q.content = row.content
             /\ q.event.to = "approved" /\ ValidApproval(row, q.event.approval)
    <3>1. row.state = "under_review"
      BY <2>3, TransitionFacts DEF Fits
    <3>2. Given(trail) = {}
      BY <2>0, <3>1 DEF ApprovalInv, AfterApproval, Ends
    <3>3. q.event.approval # NoApproval
      BY <2>3, ApprovalFacts DEF ValidApproval
    <3>4. Given(trail2) = {n + 1}
      BY <1>7, <3>2, <3>3
    <3>5. Binds(row2, trail2[n + 1])
      BY <1>2, <1>4, <2>3 DEF Binds, ValidApproval
    <3>6. row2.state \in AfterApproval
      BY <1>4, <2>3 DEF AfterApproval
    <3> QED BY <3>4, <3>5, <3>6 DEF ApprovalInv
  <2> QED BY <2>1, <2>2, <2>3 DEF Fits
<1> QED BY <1>2, <1>4, <1>6, <1>8 DEF Good

\* Whatever an append request finds, its transaction leaves a good row, and
\* either changes nothing or makes the next version.
LEMMA CommittedIsGood ==
  ASSUME NEW row, NEW trail, Good(row, trail),
         NEW q, q.content \in Contents, q.event \in DecisionEvent,
         q.expected \in Nat, q.expected = row.version => Fits(row, q)
  PROVE  LET after == Committed(row, trail, q)
         IN Good(after.row, after.trail) /\ Grows(row, trail, after.row, after.trail)
<1> DEFINE after == Committed(row, trail, q)
<1>1. CASE row.version = q.expected
  <2>1. after.row = Updated(row, q, q.expected + 1) /\ after.trail = Append(trail, q.event)
    BY <1>1 DEF Committed
  <2>2. Good(after.row, after.trail)
    BY <1>1, <2>1, CommitIsGood
  <2>3. row \in DecisionRow /\ trail \in Seq(DecisionEvent)
    BY DEF Good
  <2>4. after.row.version = row.version + 1
    BY <1>1, <2>1, <2>3 DEF Updated, DecisionRow
  <2>5. Len(after.trail) = Len(trail) + 1 /\ \A i \in 1 .. Len(trail) : after.trail[i] = trail[i]
    BY <2>1, <2>3, AppendProperties
  <2>6. Len(trail) \in Nat /\ row.version \in Nat
    BY <2>3, LenProperties DEF DecisionRow
  <2> QED BY <2>2, <2>4, <2>5, <2>6 DEF Grows
<1>2. CASE row.version # q.expected
  BY <1>2 DEF Committed, Grows
<1> QED BY <1>1, <1>2
-----------------------------------------------------------------------------
(* One request *)

\* What a request in flight carries.
LEMMA RequestFields ==
  ASSUME NEW q \in RequestState
  PROVE  /\ q.op \in {"idle", "create", "append", "load", "packet"}
         /\ q.op = "idle" \/ q.id \in Decisions
         /\ q.op = "create" => q.owner \in Subjects /\ q.content \in Contents
         /\ q.op = "append" => /\ q.expected \in Nat /\ q.expected > 0
                               /\ q.content \in Contents /\ q.event \in DecisionEvent
         /\ q.op = "load" => q.row \in DecisionRow
         /\ q.op = "packet" => q.row \in DecisionRow /\ q.trail \in Seq(DecisionEvent)
BY DEF RequestState

\* The writes of others do not take away what a request knows.
LEMMA KnowledgePersists ==
  ASSUME NEW q \in RequestState, q.op # "idle",
         NEW row \in DecisionRow, NEW trail \in Seq(DecisionEvent),
         NEW row2 \in DecisionRow, NEW trail2 \in Seq(DecisionEvent),
         Knows(q, row, trail), Grows(row, trail, row2, trail2)
  PROVE  Knows(q, row2, trail2)
<1>1. CASE row2 = row /\ trail2 = trail
  BY <1>1
<1>2. CASE /\ row2.version > row.version
           /\ Len(trail2) > Len(trail)
           /\ \A i \in 1 .. Len(trail) : trail2[i] = trail[i]
  <2>1. /\ row.version \in Nat /\ row2.version \in Nat
        /\ Len(trail) \in Nat /\ Len(trail2) \in Nat
    BY LenProperties DEF DecisionRow
  <2>2. ASSUME q.op = "append"
        PROVE  q.expected <= row2.version /\ q.expected # row2.version
    <3>1. q.expected \in Nat /\ q.expected <= row.version
      BY <2>2, RequestFields DEF Knows
    <3> QED BY <1>2, <2>1, <3>1
  <2>3. ASSUME q.op = "load"
        PROVE  Shown(q.row, trail2)
    <3>1. Shown(q.row, trail)
      BY <2>3 DEF Knows
    <3>2. q.row.version \in 1 .. Len(trail2) /\ trail2[q.row.version] = trail[q.row.version]
      BY <1>2, <2>1, <3>1 DEF Shown
    <3> QED BY <3>1, <3>2 DEF Shown
  <2>4. q.op = "packet" => Shown(q.row, q.trail)
    BY DEF Knows
  <2> QED BY <2>2, <2>3, <2>4 DEF Knows
<1> QED BY <1>1, <1>2 DEF Grows

\* A step of one request that leaves every decision good keeps the invariant.
LEMMA StepKeepsLedger ==
  ASSUME LedgerInv, NEW c \in Clients, NEW q \in RequestState,
         request' = [request EXCEPT ![c] = q],
         decisions' \in [Decisions -> DecisionRow],
         events' \in [Decisions -> Seq(DecisionEvent)],
         \A d \in Decisions : /\ Good(decisions'[d], events'[d])
                              /\ Grows(decisions[d], events[d], decisions'[d], events'[d]),
         q.op # "idle" => Knows(q, decisions'[q.id], events'[q.id])
  PROVE  LedgerInv'
<1>1. /\ decisions \in [Decisions -> DecisionRow]
      /\ events \in [Decisions -> Seq(DecisionEvent)]
      /\ request \in [Clients -> RequestState]
  BY DEF LedgerInv, LedgerTypeOK
<1>2. LedgerTypeOK'
  BY <1>1 DEF LedgerTypeOK
<1>3. ASSUME NEW k \in Clients
      PROVE  RequestInv(k)'
  <2> SUFFICES ASSUME request'[k].op # "idle"
               PROVE  Knows(request'[k], decisions'[request'[k].id], events'[request'[k].id])
    BY DEF RequestInv
  <2>1. CASE k = c
    BY <1>1, <2>1
  <2>2. CASE k # c
    <3>1. request'[k] = request[k] /\ request[k] \in RequestState
      BY <1>1, <2>2
    <3> DEFINE d == request[k].id
    <3>2. d \in Decisions
      BY <3>1, RequestFields
    <3>3. Knows(request[k], decisions[d], events[d])
      BY <3>1 DEF LedgerInv, RequestInv
    <3>4. /\ decisions[d] \in DecisionRow /\ events[d] \in Seq(DecisionEvent)
          /\ decisions'[d] \in DecisionRow /\ events'[d] \in Seq(DecisionEvent)
      BY <1>1, <3>2
    <3>5. Grows(decisions[d], events[d], decisions'[d], events'[d])
      BY <3>2
    <3>6. Knows(request[k], decisions'[d], events'[d])
      BY <3>1, <3>3, <3>4, <3>5, KnowledgePersists
    <3> QED BY <3>1, <3>6
  <2> QED BY <2>1, <2>2
<1> QED BY <1>2, <1>3 DEF LedgerInv

\* A step of one request that writes nothing.
LEMMA ReadKeepsLedger ==
  ASSUME LedgerInv, NEW c \in Clients, NEW q \in RequestState,
         request' = [request EXCEPT ![c] = q],
         UNCHANGED <<decisions, events>>,
         q.op # "idle" => Knows(q, decisions[q.id], events[q.id])
  PROVE  LedgerInv'
<1>1. /\ decisions' \in [Decisions -> DecisionRow]
      /\ events' \in [Decisions -> Seq(DecisionEvent)]
  BY DEF LedgerInv, LedgerTypeOK
<1>2. \A d \in Decisions : /\ Good(decisions'[d], events'[d])
                           /\ Grows(decisions[d], events[d], decisions'[d], events'[d])
  BY DEF LedgerInv, Grows
<1>3. q.op # "idle" => Knows(q, decisions'[q.id], events'[q.id])
  OBVIOUS
<1> QED BY <1>1, <1>2, <1>3, StepKeepsLedger
-----------------------------------------------------------------------------
(* The invariant, action by action *)

\* A request that carries nothing.
LEMMA IdleFits == Idle \in RequestState /\ Idle.op = "idle"
BY DEF Idle, RequestState

\* Before any request nothing exists and nothing is known.
LEMMA LedgerInitEstablishes == LedgerInit => LedgerInv
<1> SUFFICES ASSUME LedgerInit PROVE LedgerInv
  OBVIOUS
<1>1. NoRow \in DecisionRow /\ << >> \in Seq(DecisionEvent)
  BY EmptySeq DEF NoRow, DecisionRow
<1>2. LedgerTypeOK
  BY <1>1, IdleFits DEF LedgerInit, LedgerTypeOK
<1>3. Good(NoRow, << >>)
  <2>1. TrailInv(NoRow, << >>)
    BY EmptySeq DEF TrailInv, NoRow
  <2>2. Given(<< >>) = {}
    BY EmptySeq DEF Given
  <2>3. NoRow.state \notin AfterApproval
    BY AbsentFacts DEF NoRow
  <2> QED BY <1>1, <2>1, <2>2, <2>3 DEF Good, ApprovalInv
<1>4. \A d \in Decisions : Good(decisions[d], events[d])
  BY <1>3 DEF LedgerInit
<1>5. \A c \in Clients : RequestInv(c)
  BY IdleFits DEF LedgerInit, RequestInv
<1> QED BY <1>2, <1>4, <1>5 DEF LedgerInv

\* A decision that is not absent has a version, and one in States is not absent.
LEMMA PresentRow ==
  ASSUME LedgerInv, NEW d \in Decisions, decisions[d].state # "absent"
  PROVE  /\ decisions[d] \in DecisionRow /\ events[d] \in Seq(DecisionEvent)
         /\ decisions[d].state \in States /\ decisions[d].content \in Contents
         /\ decisions[d].version \in Nat \ {0}
         /\ Shown(decisions[d], events[d])
<1>1. /\ decisions[d] \in DecisionRow /\ events[d] \in Seq(DecisionEvent)
      /\ TrailInv(decisions[d], events[d])
  BY DEF LedgerInv, Good
<1>2. events[d] # << >> /\ decisions[d].version = Len(events[d])
  BY <1>1 DEF TrailInv
<1>3. Len(events[d]) \in Nat \ {0}
  BY <1>1, <1>2, EmptySeq, LenProperties
<1>4. events[d][Len(events[d])] \in DecisionEvent
  BY <1>1, <1>3, ElementOfSeq
<1>5. Shown(decisions[d], events[d])
  BY <1>1, <1>2, <1>3 DEF TrailInv, Shown
<1>6. decisions[d].state \in States /\ decisions[d].content \in Contents
  BY <1>1, <1>2, <1>4 DEF TrailInv, DecisionEvent
<1> QED BY <1>1, <1>2, <1>3, <1>5, <1>6

\* create_decision finds the decision absent and carries its creation.
LEMMA CreateDecisionKeeps ==
  ASSUME LedgerInv, NEW c \in Clients, CreateDecision(c)
  PROVE  LedgerInv'
<1>1. PICK d \in Decisions, s \in Subjects, x \in Contents :
        request' = [request EXCEPT ![c] =
          [op |-> "create", id |-> d, owner |-> s, content |-> x]]
  BY DEF CreateDecision
<1> DEFINE q == [op |-> "create", id |-> d, owner |-> s, content |-> x]
<1>2. q \in RequestState
  BY DEF RequestState
<1>3. Knows(q, decisions[q.id], events[q.id])
  BY DEF Knows
<1>4. UNCHANGED <<decisions, events>>
  BY DEF CreateDecision
<1> HIDE DEF q
<1> QED BY <1>1, <1>2, <1>3, <1>4, ReadKeepsLedger DEF q

\* update_content carries a revision checked against the row it read.
LEMMA UpdateContentKeeps ==
  ASSUME LedgerInv, NEW c \in Clients, UpdateContent(c)
  PROVE  LedgerInv'
<1>1. PICK d \in Decisions, s \in Subjects, x \in Contents :
        /\ decisions[d].state \in EDITABLE_STATES
        /\ request' = [request EXCEPT ![c] =
             [op |-> "append", id |-> d, expected |-> decisions[d].version, content |-> x,
              event |-> EventOf(decisions[d].state, decisions[d].state, s, x, NoApproval)]]
  BY DEF UpdateContent
<1> DEFINE row == decisions[d]
           e == EventOf(row.state, row.state, s, x, NoApproval)
           q == [op |-> "append", id |-> d, expected |-> row.version, content |-> x, event |-> e]
<1>2. /\ row.state \in States /\ row.version \in Nat \ {0} /\ row \in DecisionRow
  BY <1>1, EditableFacts, AbsentFacts, PresentRow
<1>3. e \in DecisionEvent
  BY <1>2 DEF EventOf, DecisionEvent
<1>4. q \in RequestState
  BY <1>2, <1>3 DEF RequestState
<1>5. /\ e.from = row.state /\ e.to = row.state /\ e.digest = x /\ e.approval = NoApproval
  BY DEF EventOf
<1>6. /\ q.op = "append" /\ q.id = d /\ q.expected = row.version
      /\ q.content = x /\ q.event = e
  OBVIOUS
<1>7. UNCHANGED <<decisions, events>>
  BY DEF UpdateContent
<1>8. request' = [request EXCEPT ![c] = q]
  BY <1>1
<1> HIDE DEF q, e
<1>9. Fits(row, q)
  BY <1>1, <1>2, <1>5, <1>6 DEF Fits
<1>10. Knows(q, row, events[d])
  BY <1>2, <1>6, <1>9 DEF Knows
<1> QED BY <1>4, <1>6, <1>7, <1>8, <1>10, ReadKeepsLedger

\* transition carries a move checked against the row it read.
LEMMA TransitionKeeps ==
  ASSUME LedgerInv, NEW c \in Clients, Transition(c)
  PROVE  LedgerInv'
<1>1. PICK d \in Decisions, s \in Subjects, target \in States,
           a \in Approvals \cup {NoApproval} :
        /\ decisions[d].state \in States /\ target \in ALLOWED_TRANSITIONS[decisions[d].state]
        /\ IF target = "approved"
           THEN ValidApproval(decisions[d], a) /\ a.approver = s
           ELSE a = NoApproval /\ Drafting(s)
        /\ request' = [request EXCEPT ![c] =
             [op |-> "append", id |-> d, expected |-> decisions[d].version,
              content |-> decisions[d].content,
              event |-> EventOf(decisions[d].state, target, s, decisions[d].content, a)]]
  BY DEF Transition
<1> DEFINE row == decisions[d]
           e == EventOf(row.state, target, s, row.content, a)
           q == [op |-> "append", id |-> d, expected |-> row.version,
                 content |-> row.content, event |-> e]
<1>2. /\ row.version \in Nat \ {0} /\ row \in DecisionRow
      /\ row.content \in Contents
  BY <1>1, AbsentFacts, PresentRow
<1>3. e \in DecisionEvent
  BY <1>1, <1>2 DEF EventOf, DecisionEvent
<1>4. q \in RequestState
  BY <1>2, <1>3 DEF RequestState
<1>5. /\ e.from = row.state /\ e.to = target /\ e.digest = row.content /\ e.approval = a
  BY DEF EventOf
<1>6. /\ q.op = "append" /\ q.id = d /\ q.expected = row.version
      /\ q.content = row.content /\ q.event = e
  OBVIOUS
<1>7. UNCHANGED <<decisions, events>>
  BY DEF Transition
<1>8. request' = [request EXCEPT ![c] = q]
  BY <1>1
<1> HIDE DEF q, e
<1>9. Fits(row, q)
  BY <1>1, <1>5, <1>6 DEF Fits
<1>10. Knows(q, row, events[d])
  BY <1>2, <1>6, <1>9 DEF Knows
<1> QED BY <1>4, <1>6, <1>7, <1>8, <1>10, ReadKeepsLedger

\* The INSERT of a decision: the first creator wins, the others change nothing.
LEMMA CreateKeeps ==
  ASSUME LedgerInv, NEW c \in Clients, Create(c)
  PROVE  LedgerInv'
<1> DEFINE q == request[c]
           row2 == [state |-> "draft", version |-> 1, owner |-> q.owner, content |-> q.content]
<1>1. /\ decisions \in [Decisions -> DecisionRow]
      /\ events \in [Decisions -> Seq(DecisionEvent)]
      /\ q \in RequestState /\ q.op = "create"
      /\ request' = [request EXCEPT ![c] = Idle]
  BY DEF LedgerInv, LedgerTypeOK, Create
<1>2. q.id \in Decisions /\ q.owner \in Subjects /\ q.content \in Contents
  BY <1>1, RequestFields
<1>3. CASE decisions[q.id].state = "absent"
  <2>1. /\ decisions' = [decisions EXCEPT ![q.id] = row2]
        /\ events' = [events EXCEPT ![q.id] = CreationTrail(q)]
    BY <1>3 DEF Create
  <2>2. Good(row2, CreationTrail(q))
    BY <1>2, CreationIsGood
  <2>3. row2 \in DecisionRow /\ CreationTrail(q) \in Seq(DecisionEvent)
    BY <2>2 DEF Good
  <2>4. TrailInv(decisions[q.id], events[q.id])
    BY <1>2 DEF LedgerInv, Good
  <2>5. events[q.id] = << >> /\ decisions[q.id].version = 0 /\ Len(events[q.id]) = 0
    BY <1>3, <2>4, EmptySeq DEF TrailInv
  <2>6. row2.version = 1 /\ Len(CreationTrail(q)) = 1
    BY DEF CreationTrail
  <2>7. Grows(decisions[q.id], events[q.id], row2, CreationTrail(q))
    BY <2>5, <2>6 DEF Grows
  <2> HIDE DEF row2
  <2>8. \A d \in Decisions : /\ Good(decisions'[d], events'[d])
                             /\ Grows(decisions[d], events[d], decisions'[d], events'[d])
    <3> TAKE d \in Decisions
    <3>1. CASE d = q.id
      BY <1>1, <2>1, <2>2, <2>7, <3>1
    <3>2. CASE d # q.id
      <4>1. decisions'[d] = decisions[d] /\ events'[d] = events[d]
        BY <1>1, <2>1, <3>2
      <4>2. Good(decisions[d], events[d])
        BY DEF LedgerInv
      <4> QED BY <4>1, <4>2 DEF Grows
    <3> QED BY <3>1, <3>2
  <2>9. /\ decisions' \in [Decisions -> DecisionRow]
        /\ events' \in [Decisions -> Seq(DecisionEvent)]
    BY <1>1, <1>2, <2>1, <2>3
  <2> QED BY <1>1, <2>8, <2>9, IdleFits, StepKeepsLedger
<1>4. CASE decisions[q.id].state # "absent"
  <2>1. UNCHANGED <<decisions, events>>
    BY <1>4 DEF Create
  <2> QED BY <1>1, <2>1, IdleFits, ReadKeepsLedger
<1> QED BY <1>3, <1>4

\* The conditional UPDATE: what was checked holds of the row it finds.
LEMMA AppendDecisionKeeps ==
  ASSUME LedgerInv, NEW c \in Clients, AppendDecision(c)
  PROVE  LedgerInv'
<1> DEFINE q == request[c]
           after == Committed(decisions[q.id], events[q.id], q)
<1>1. /\ decisions \in [Decisions -> DecisionRow]
      /\ events \in [Decisions -> Seq(DecisionEvent)]
      /\ q \in RequestState /\ q.op = "append"
      /\ request' = [request EXCEPT ![c] = Idle]
      /\ decisions' = [decisions EXCEPT ![q.id] = after.row]
      /\ events' = [events EXCEPT ![q.id] = after.trail]
  BY DEF LedgerInv, LedgerTypeOK, AppendDecision
<1>2. /\ q.id \in Decisions /\ q.expected \in Nat
      /\ q.content \in Contents /\ q.event \in DecisionEvent
  BY <1>1, RequestFields
<1>3. q.expected = decisions[q.id].version => Fits(decisions[q.id], q)
  BY <1>1 DEF LedgerInv, RequestInv, Knows
<1>4. Good(decisions[q.id], events[q.id])
  BY <1>2 DEF LedgerInv
<1>5. /\ Good(after.row, after.trail)
      /\ Grows(decisions[q.id], events[q.id], after.row, after.trail)
  BY <1>2, <1>3, <1>4, CommittedIsGood
<1>6. after.row \in DecisionRow /\ after.trail \in Seq(DecisionEvent)
  BY <1>5 DEF Good
<1> HIDE DEF after
<1>7. \A d \in Decisions : /\ Good(decisions'[d], events'[d])
                           /\ Grows(decisions[d], events[d], decisions'[d], events'[d])
  <2> TAKE d \in Decisions
  <2>1. CASE d = q.id
    BY <1>1, <1>5, <2>1
  <2>2. CASE d # q.id
    <3>1. decisions'[d] = decisions[d] /\ events'[d] = events[d]
      BY <1>1, <2>2
    <3>2. Good(decisions[d], events[d])
      BY DEF LedgerInv
    <3> QED BY <3>1, <3>2 DEF Grows
  <2> QED BY <2>1, <2>2
<1>8. /\ decisions' \in [Decisions -> DecisionRow]
      /\ events' \in [Decisions -> Seq(DecisionEvent)]
  BY <1>1, <1>6
<1> QED BY <1>1, <1>7, <1>8, IdleFits, StepKeepsLedger

\* The first SELECT of a load: the trail covers the row that was read.
LEMMA LoadRowKeeps ==
  ASSUME LedgerInv, NEW c \in Clients, LoadRow(c)
  PROVE  LedgerInv'
<1>1. PICK d \in Decisions :
        /\ decisions[d].state # "absent"
        /\ request' = [request EXCEPT ![c] = [op |-> "load", id |-> d, row |-> decisions[d]]]
  BY DEF LoadRow
<1> DEFINE q == [op |-> "load", id |-> d, row |-> decisions[d]]
<1>2. decisions[d] \in DecisionRow /\ Shown(decisions[d], events[d])
  BY <1>1, PresentRow
<1>3. q \in RequestState
  BY <1>2 DEF RequestState
<1>4. q.op = "load" /\ q.id = d /\ q.row = decisions[d]
  OBVIOUS
<1>5. UNCHANGED <<decisions, events>> /\ request' = [request EXCEPT ![c] = q]
  BY <1>1 DEF LoadRow
<1> HIDE DEF q
<1>6. Knows(q, decisions[d], events[d])
  BY <1>2, <1>4 DEF Knows
<1> QED BY <1>3, <1>4, <1>5, <1>6, ReadKeepsLedger

\* The second SELECT: the trail has only grown since.
LEMMA LoadTrailKeeps ==
  ASSUME LedgerInv, NEW c \in Clients, LoadTrail(c)
  PROVE  LedgerInv'
<1> DEFINE p == request[c]
           q == [op |-> "packet", id |-> p.id, row |-> p.row, trail |-> events[p.id]]
<1>1. /\ p \in RequestState /\ p.op = "load"
      /\ events \in [Decisions -> Seq(DecisionEvent)]
  BY DEF LedgerInv, LedgerTypeOK, LoadTrail
<1>2. p.id \in Decisions /\ p.row \in DecisionRow
  BY <1>1, RequestFields
<1>3. Shown(p.row, events[p.id])
  BY <1>1 DEF LedgerInv, RequestInv, Knows
<1>4. q \in RequestState
  BY <1>1, <1>2 DEF RequestState
<1>5. q.op = "packet" /\ q.id = p.id /\ q.row = p.row /\ q.trail = events[p.id]
  OBVIOUS
<1>6. UNCHANGED <<decisions, events>> /\ request' = [request EXCEPT ![c] = q]
  BY DEF LoadTrail, BySequence
<1> HIDE DEF q
<1>7. Knows(q, decisions[q.id], events[q.id])
  BY <1>3, <1>5 DEF Knows
<1> QED BY <1>4, <1>6, <1>7, ReadKeepsLedger

\* The answer writes nothing.
LEMMA AnswerPacketKeeps ==
  ASSUME LedgerInv, NEW c \in Clients, AnswerPacket(c)
  PROVE  LedgerInv'
BY IdleFits, ReadKeepsLedger DEF AnswerPacket

\* No step of the ledger leaves the invariant.
LEMMA LedgerNextPreserves == LedgerInv /\ [LedgerNext]_ledgerVars => LedgerInv'
<1> SUFFICES ASSUME LedgerInv, [LedgerNext]_ledgerVars PROVE LedgerInv'
  OBVIOUS
<1>1. CASE UNCHANGED ledgerVars
  BY <1>1 DEF ledgerVars, LedgerInv, LedgerTypeOK, RequestInv
<1>2. ASSUME NEW c \in Clients,
             \/ CreateDecision(c) \/ UpdateContent(c) \/ Transition(c)
             \/ Create(c) \/ AppendDecision(c)
             \/ LoadRow(c) \/ LoadTrail(c) \/ AnswerPacket(c)
      PROVE  LedgerInv'
  BY <1>2, CreateDecisionKeeps, UpdateContentKeeps, TransitionKeeps, CreateKeeps,
     AppendDecisionKeeps, LoadRowKeeps, LoadTrailKeeps, AnswerPacketKeeps
<1> QED BY <1>1, <1>2 DEF LedgerNext
-----------------------------------------------------------------------------
(* The theorems *)

\* The ledger never leaves its inductive invariant.
THEOREM LedgerInvariant == LedgerSpec => []LedgerInv
<1> QED BY LedgerInitEstablishes, LedgerNextPreserves, PTL DEF LedgerSpec

\* Rows, events and what requests carry keep their types.
THEOREM LedgerTypeCorrect == LedgerSpec => []LedgerTypeOK
<1>1. LedgerInv => LedgerTypeOK
  BY DEF LedgerInv
<1> QED BY <1>1, LedgerInvariant, PTL

\* However many requests race, the trail numbers the versions of the row, each
\* event continues the one before it, and the last tells what the row holds.
THEOREM TrailNeverDiverges == LedgerSpec => []TrailMatchesSnapshot
<1>1. LedgerInv => TrailMatchesSnapshot
  BY DEF LedgerInv, Good, TrailInv, TrailMatchesSnapshot
<1> QED BY <1>1, LedgerInvariant, PTL

\* A decision that was approved keeps the content its one approval signed, and
\* the approver is not its owner when separation of duties is required.
THEOREM ApprovedContentIsFrozen == LedgerSpec => []ApprovalBindsContent
<1>1. LedgerInv => ApprovalBindsContent
  BY DEF LedgerInv, Good, ApprovalInv, Binds, Given, ApprovalBindsContent
<1> QED BY <1>1, LedgerInvariant, PTL

\* The trail of an exported packet covers the snapshot it shows.
THEOREM PacketsExplainThemselves == LedgerSpec => []PacketTrailCoversSnapshot
<1>1. LedgerInv => PacketTrailCoversSnapshot
  BY DEF LedgerInv, RequestInv, Knows, Shown, PacketTrailCoversSnapshot
<1> QED BY <1>1, LedgerInvariant, PTL
-----------------------------------------------------------------------------
(* Refinement: the ledger implements the one that serves a request at a time *)

\* What Governance sees of a decision.
View(row, trail) ==
  [state |-> row.state, owner |-> row.owner, content |-> row.content,
   approver |-> ApproverOf(trail)]

Move(a, b) ==
  \/ Governance!Proposed(a, b) \/ Governance!Revised(a, b) \/ Governance!Approved(a, b)
  \/ Governance!Prepared(a, b) \/ Governance!CarriedOut(a, b)

\* An event without an approval leaves the approver, an approval names it.
LEMMA ApproverOfAppend ==
  ASSUME NEW trail \in Seq(DecisionEvent), NEW e \in DecisionEvent
  PROVE  /\ e.approval = NoApproval => ApproverOf(Append(trail, e)) = ApproverOf(trail)
         /\ e.approval # NoApproval /\ Given(trail) = {} =>
              ApproverOf(Append(trail, e)) = e.approval.approver
<1> DEFINE trail2 == Append(trail, e)
           n == Len(trail)
<1>1. /\ n \in Nat /\ Len(trail2) = n + 1
      /\ \A i \in 1 .. n : trail2[i] = trail[i]
      /\ trail2[n + 1] = e
  BY AppendProperties, LenProperties
<1>2. Given(trail2) = Given(trail) \cup (IF e.approval = NoApproval THEN {} ELSE {n + 1})
  BY <1>1 DEF Given
<1> HIDE DEF trail2
<1>3. /\ ApproverOf(trail) = IF Given(trail) = {} THEN Nobody
                             ELSE trail[CHOOSE i \in Given(trail) : TRUE].approval.approver
      /\ ApproverOf(trail2) = IF Given(trail2) = {} THEN Nobody
                              ELSE trail2[CHOOSE i \in Given(trail2) : TRUE].approval.approver
  BY DEF ApproverOf
<1>4. ASSUME e.approval = NoApproval
      PROVE  ApproverOf(trail2) = ApproverOf(trail)
  <2>1. Given(trail2) = Given(trail)
    BY <1>2, <1>4
  <2>2. CASE Given(trail) = {}
    BY <1>3, <2>1, <2>2
  <2>3. CASE Given(trail) # {}
    <3> DEFINE k == CHOOSE i \in Given(trail) : TRUE
    <3>1. k \in Given(trail)
      BY <2>3
    <3>2. trail2[k] = trail[k]
      BY <1>1, <3>1 DEF Given
    <3> QED BY <1>3, <2>1, <2>3, <3>2
  <2> QED BY <2>2, <2>3
<1>5. ASSUME e.approval # NoApproval, Given(trail) = {}
      PROVE  ApproverOf(trail2) = e.approval.approver
  <2>1. Given(trail2) = {n + 1}
    BY <1>2, <1>5
  <2>2. (CHOOSE i \in Given(trail2) : TRUE) = n + 1
    BY <2>1
  <2> QED BY <1>1, <1>3, <2>1, <2>2
<1> QED BY <1>4, <1>5 DEF trail2

\* A write that succeeds is a move of the abstract ledger.
LEMMA CommitMoves ==
  ASSUME NEW row, NEW trail, Good(row, trail),
         NEW q, q.content \in Contents, q.event \in DecisionEvent, Fits(row, q), NEW v
  PROVE  Move(View(row, trail), View(Updated(row, q, v), Append(trail, q.event)))
<1> DEFINE e == q.event
           row2 == Updated(row, q, v)
           a == View(row, trail)
           b == View(row2, Append(trail, e))
<1>1. /\ row \in DecisionRow /\ trail \in Seq(DecisionEvent)
      /\ ApprovalInv(row, trail)
  BY DEF Good
<1>2. /\ row2.state = e.to /\ row2.content = q.content /\ row2.owner = row.owner
  BY <1>1 DEF Updated, DecisionRow
<1>3. /\ a.state = row.state /\ a.owner = row.owner /\ a.content = row.content
      /\ a.approver = ApproverOf(trail)
      /\ a = [state |-> row.state, owner |-> row.owner, content |-> row.content,
              approver |-> ApproverOf(trail)]
  BY DEF View
<1>4. b = [state |-> e.to, owner |-> row.owner, content |-> q.content,
           approver |-> ApproverOf(Append(trail, e))]
  BY <1>2 DEF View
<1> HIDE DEF a, b, row2, e
<1>5. CASE /\ row.state \in EDITABLE_STATES /\ e.to = row.state /\ e.approval = NoApproval
  <2>1. ApproverOf(Append(trail, e)) = ApproverOf(trail)
    BY <1>1, <1>5, ApproverOfAppend DEF e
  <2>2. b = [a EXCEPT !.content = q.content]
    BY <1>3, <1>4, <1>5, <2>1
  <2>3. Governance!Revised(a, b)
    BY <1>3, <1>5, <2>2 DEF Governance!Revised, EDITABLE_STATES
  <2> QED BY <2>3 DEF Move, a, b, row2, e
<1>6. CASE /\ e.to \in ALLOWED_TRANSITIONS[row.state] /\ q.content = row.content
           /\ e.to = "approved" /\ ValidApproval(row, e.approval)
  <2>1. row.state = "under_review"
    BY <1>6, TransitionFacts DEF Fits
  <2>2. Given(trail) = {}
    BY <1>1, <2>1 DEF ApprovalInv, AfterApproval, Ends
  <2>3. e.approval # NoApproval
    BY <1>6, ApprovalFacts DEF ValidApproval
  <2>4. ApproverOf(Append(trail, e)) = e.approval.approver
    BY <1>1, <2>2, <2>3, ApproverOfAppend DEF e
  <2>5. b = [state |-> "approved", owner |-> a.owner, content |-> a.content,
             approver |-> e.approval.approver]
    BY <1>3, <1>4, <1>6, <2>4
  <2>6. /\ a.state = "under_review" /\ a.owner = row.owner
        /\ e.approval.approver \in {s \in Subjects : Approving(s)}
        /\ RequireSeparation => e.approval.approver # a.owner
    BY <1>3, <1>6, <2>1 DEF ValidApproval, Approvals
  <2>7. Governance!Approved(a, b)
    BY <2>5, <2>6 DEF Governance!Approved
  <2> QED BY <2>7 DEF Move, a, b, row2, e
<1>7. CASE /\ e.to \in ALLOWED_TRANSITIONS[row.state] /\ q.content = row.content
           /\ e.to # "approved" /\ e.approval = NoApproval
  <2>1. ApproverOf(Append(trail, e)) = ApproverOf(trail)
    BY <1>1, <1>7, ApproverOfAppend DEF e
  <2>2. b = [a EXCEPT !.state = e.to]
    BY <1>3, <1>4, <1>7, <2>1
  <2>3. row.state \in States
    BY DEF Fits
  <2>4. Governance!Prepared(a, b) \/ Governance!CarriedOut(a, b)
    BY <1>3, <1>7, <2>2, <2>3
       DEF Governance!Prepared, Governance!CarriedOut, ALLOWED_TRANSITIONS, States
  <2> QED BY <2>4 DEF Move, a, b, row2, e
<1> QED BY <1>5, <1>6, <1>7 DEF Fits, e

\* The abstract state, as Governance's substitution defines it.
GovernedNow == [d \in Decisions |-> View(decisions[d], events[d])]

\* The empty ledger is the empty abstract ledger.
LEMMA InitRefines == LedgerInit => Governance!GovInit
<1> SUFFICES ASSUME LedgerInit PROVE Governance!GovInit
  OBVIOUS
<1>1. Given(<< >>) = {}
  BY EmptySeq DEF Given
<1>2. ApproverOf(<< >>) = Nobody
  BY <1>1 DEF ApproverOf
<1>3. \A d \in Decisions : View(decisions[d], events[d]) = Governance!NotCreated
  BY <1>2 DEF LedgerInit, View, NoRow, Governance!NotCreated
<1> QED BY <1>3 DEF View, Governance!GovInit

\* A step that changes one decision by a move is a step of Governance.
LEMMA MoveRefines ==
  ASSUME NEW d \in Decisions,
         Move(View(decisions[d], events[d]), View(decisions'[d], events'[d])),
         \A e \in Decisions \ {d} : decisions'[e] = decisions[e] /\ events'[e] = events[e]
  PROVE  Governance!GovNext
<1>1. Move(GovernedNow[d], GovernedNow'[d])
  BY DEF GovernedNow
<1>2. GovernedNow' = [GovernedNow EXCEPT ![d] = GovernedNow'[d]]
  BY DEF GovernedNow
<1> QED BY <1>1, <1>2 DEF Governance!GovNext, Move, GovernedNow, View

\* Every step of the ledger is a step of Governance or leaves it unchanged.
LEMMA NextRefines ==
  ASSUME LedgerInv, [LedgerNext]_ledgerVars
  PROVE  Governance!GovNext \/ GovernedNow' = GovernedNow
<1>0. /\ decisions \in [Decisions -> DecisionRow]
      /\ events \in [Decisions -> Seq(DecisionEvent)]
      /\ request \in [Clients -> RequestState]
  BY DEF LedgerInv, LedgerTypeOK
<1>1. CASE UNCHANGED <<decisions, events>>
  BY <1>1 DEF GovernedNow
<1>2. ASSUME NEW c \in Clients, Create(c)
      PROVE  Governance!GovNext \/ GovernedNow' = GovernedNow
  <2> DEFINE q == request[c]
             row2 == [state |-> "draft", version |-> 1, owner |-> q.owner, content |-> q.content]
  <2>1. q.op = "create" /\ q.id \in Decisions /\ q.owner \in Subjects /\ q.content \in Contents
    BY <1>0, <1>2, RequestFields DEF Create
  <2>2. CASE decisions[q.id].state = "absent"
    <3>1. /\ decisions' = [decisions EXCEPT ![q.id] = row2]
          /\ events' = [events EXCEPT ![q.id] = CreationTrail(q)]
      BY <1>2, <2>2 DEF Create
    <3>2. Good(decisions[q.id], events[q.id])
      BY <2>1 DEF LedgerInv
    <3>3. events[q.id] = << >>
      BY <2>2, <3>2 DEF Good, TrailInv
    <3>4. Given(CreationTrail(q)) = {}
      BY DEF Given, CreationTrail, EventOf
    <3>5. ApproverOf(CreationTrail(q)) = Nobody
      BY <3>4 DEF ApproverOf
    <3>6. /\ decisions'[q.id] = row2 /\ events'[q.id] = CreationTrail(q)
          /\ \A e \in Decisions \ {q.id} : decisions'[e] = decisions[e] /\ events'[e] = events[e]
      BY <1>0, <2>1, <3>1
    <3>7. View(decisions'[q.id], events'[q.id]) =
            [state |-> "draft", owner |-> q.owner, content |-> q.content, approver |-> Nobody]
      BY <3>5, <3>6 DEF View
    <3>8. View(decisions[q.id], events[q.id]).state = "absent"
      BY <2>2 DEF View
    <3>9. Governance!Proposed(View(decisions[q.id], events[q.id]),
                              View(decisions'[q.id], events'[q.id]))
      BY <2>1, <3>7, <3>8 DEF Governance!Proposed, Governance!NotCreated
    <3> QED BY <2>1, <3>6, <3>9, MoveRefines DEF Move
  <2>3. CASE decisions[q.id].state # "absent"
    BY <1>1, <1>2, <2>3 DEF Create
  <2> QED BY <2>2, <2>3
<1>3. ASSUME NEW c \in Clients, AppendDecision(c)
      PROVE  Governance!GovNext \/ GovernedNow' = GovernedNow
  <2> DEFINE q == request[c]
             row == decisions[q.id]
             trail == events[q.id]
             after == Committed(row, trail, q)
  <2>1. /\ q.op = "append" /\ q.id \in Decisions
        /\ q.content \in Contents /\ q.event \in DecisionEvent
    BY <1>0, <1>3, RequestFields DEF AppendDecision
  <2>2. /\ decisions' = [decisions EXCEPT ![q.id] = after.row]
        /\ events' = [events EXCEPT ![q.id] = after.trail]
    BY <1>3 DEF AppendDecision
  <2>3. CASE row.version = q.expected
    <3>1. after.row = Updated(row, q, q.expected + 1) /\ after.trail = Append(trail, q.event)
      BY <2>3 DEF Committed
    <3>2. Good(row, trail) /\ Fits(row, q)
      BY <2>1, <2>3 DEF LedgerInv, RequestInv, Knows
    <3>3. Move(View(row, trail), View(after.row, after.trail))
      BY <2>1, <3>1, <3>2, CommitMoves
    <3> HIDE DEF after
    <3>4. /\ decisions'[q.id] = after.row /\ events'[q.id] = after.trail
          /\ \A e \in Decisions \ {q.id} : decisions'[e] = decisions[e] /\ events'[e] = events[e]
      BY <1>0, <2>1, <2>2
    <3> QED BY <2>1, <3>3, <3>4, MoveRefines
  <2>4. CASE row.version # q.expected
    <3>1. after.row = row /\ after.trail = trail
      BY <2>4 DEF Committed
    <3> HIDE DEF after
    <3>2. UNCHANGED <<decisions, events>>
      BY <1>0, <2>1, <2>2, <3>1
    <3> QED BY <1>1, <3>2
  <2> QED BY <2>3, <2>4
<1>4. ASSUME NEW c \in Clients,
             \/ CreateDecision(c) \/ UpdateContent(c) \/ Transition(c)
             \/ LoadRow(c) \/ LoadTrail(c) \/ AnswerPacket(c)
      PROVE  UNCHANGED <<decisions, events>>
  BY <1>4 DEF CreateDecision, UpdateContent, Transition, LoadRow, LoadTrail, AnswerPacket
<1>5. CASE UNCHANGED ledgerVars
  BY <1>1, <1>5 DEF ledgerVars
<1> QED BY <1>1, <1>2, <1>3, <1>4, <1>5 DEF LedgerNext

\* The racing requests implement the ledger that serves a request at a time.
THEOREM LedgerImplementsGovernance == LedgerSpec => GovernedSpec
<1>1. LedgerInv /\ [LedgerNext]_ledgerVars =>
        Governance!GovNext \/ GovernedNow' = GovernedNow
  BY NextRefines
<1>2. LedgerInv /\ [LedgerNext]_ledgerVars =>
        [Governance!GovNext]_([d \in Decisions |->
          [state |-> decisions[d].state, owner |-> decisions[d].owner,
           content |-> decisions[d].content, approver |-> ApproverOf(events[d])]])
  BY <1>1 DEF GovernedNow, View
<1> QED BY <1>2, InitRefines, LedgerInvariant, PTL
       DEF LedgerSpec, GovernedSpec, Governance!GovSpec
=============================================================================
