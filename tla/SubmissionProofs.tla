-------------------------- MODULE SubmissionProofs --------------------------
(***************************************************************************)
(* Proofs about the submission of work: whatever requests, starting        *)
(* processes, rollbacks and deadlocks do, an experiment has at most one    *)
(* job, and a request is never answered with another request's job.        *)
(*                                                                         *)
(* The inductive invariant says of every row who may be writing it and     *)
(* what that transaction holds, and of every transaction which rows stand  *)
(* behind what it holds.  Most of a step's effect is a frame: the rows and *)
(* sessions of other transactions stay, committed experiments keep their   *)
(* request and their job, committed jobs do not change.                    *)
(***************************************************************************)
EXTENDS Submission, WellFoundedInduction, TLAPS

(* The inductive invariant *)

Preparing == {"find", "insert", "link", "commit"}

\* A row of the experiments table and whoever is writing it.
ExperimentInv(e) ==
  LET x == experiments[e]
  IN /\ x.state = "absent" => x = NoExperiment
     /\ x.state = "inserted" =>
          /\ x.writer \in Clients /\ x.source = NoJob
          /\ session[x.writer].record = e /\ session[x.writer].at \in Preparing
     /\ x.state = "committed" =>
          \/ x.writer \in Starters \cup {Nobody}
          \/ /\ x.writer \in Clients
             /\ session[x.writer].at = "commit" /\ session[x.writer].record = e
             /\ session[x.writer].source = NoJob
     /\ x.writer = Nobody => x.draft = x.source
     /\ x.writer \in Starters =>
          /\ x.state = "committed" /\ x.source = NoJob
          /\ session[x.writer].at \in {"find", "insert"}
          /\ e \in session[x.writer].todo => x.draft = NoJob
          /\ x.draft # NoJob =>
               /\ jobs[x.draft].state = "inserted" /\ jobs[x.draft].payload = e
               /\ jobs[x.draft].writer = x.writer
     /\ x.source # NoJob =>
          /\ x.state = "committed"
          /\ jobs[x.source].state = "committed" /\ jobs[x.source].kind = "experiment"
          /\ jobs[x.source].payload = e

\* A row of the jobs table and whoever is writing it.
JobInv(j) ==
  LET r == jobs[j]
  IN /\ r.state # "inserted" => r.writer = Nobody
     /\ r.state = "inserted" => r.kind = "experiment"
     /\ r.state # "absent" /\ r.kind = "experiment" =>
          /\ r.payload \in Experiments
          /\ r.key = experiments[r.payload].key
     /\ r.state = "committed" /\ r.kind = "experiment" =>
          experiments[r.payload].state = "committed" /\ experiments[r.payload].source = j
     /\ r.state = "inserted" =>
          /\ experiments[r.payload].source = NoJob
          /\ \/ /\ r.writer \in Clients
                /\ session[r.writer].at \in {"link", "commit"} /\ session[r.writer].job = j
                /\ session[r.writer].record = r.payload
             \/ /\ r.writer \in Starters
                /\ experiments[r.payload].writer = r.writer
                /\ experiments[r.payload].draft = j

\* No two open transactions make a job for one experiment.
OneWriter ==
  \A i, j \in Jobs :
    jobs[i].state = "inserted" /\ jobs[j].state = "inserted" /\ jobs[i].payload = jobs[j].payload
      => i = j

UniqueKeys ==
  \A e, f \in Experiments :
    (/\ experiments[e].state # "absent" /\ experiments[f].state # "absent"
     /\ experiments[e].key # NoKey /\ experiments[e].key = experiments[f].key) => e = f

\* What a request holds between two statements.
ClientInv(c) ==
  LET s == session[c]
      x == experiments[s.record]
  IN /\ s.at \in {"create"} \cup Preparing => s.kind = "experiment"
     /\ s.at = "create" => s.source = NoJob
     /\ s.at \in {"submit", "reread"} => s.kind = "analysis"
     /\ s.at # "idle" => s.answer = "none"
     /\ s.at \in Preparing =>
          /\ s.record \in Experiments /\ x.key = s.key /\ x.payload = s.payload
          /\ \/ x.state = "inserted" /\ x.writer = c /\ s.source = NoJob
             \/ x.state = "committed" /\ s.key # NoKey /\ s.source \in {NoJob, x.source}
     /\ s.at \in {"link", "commit"} =>
          /\ s.job \in Jobs /\ jobs[s.job].kind = "experiment"
          /\ jobs[s.job].payload = s.record
          /\ \/ jobs[s.job].state = "committed"
             \/ jobs[s.job].state = "inserted" /\ jobs[s.job].writer = c
     /\ s.at = "commit" /\ s.source = NoJob => x.writer = c /\ x.draft = s.job
     /\ s.at = "reread" => JobsWith("analysis", s.key) # {}

StarterInv(s) ==
  /\ session[s].at \in {"find", "insert"} =>
       \A e \in session[s].todo : experiments[e].writer = s
  /\ session[s].at = "insert" => session[s].todo # {}

\* What AnswersAgree says of one client.
AnswerAgrees(c) ==
  LET s == session[c]
  IN /\ s.answer = "accepted" =>
          /\ s.job \in Jobs
          /\ jobs[s.job].state = "committed" /\ jobs[s.job].kind = s.kind
          /\ jobs[s.job].key = s.key /\ RequestOf(s.job) = s.payload
     /\ s.answer = "conflict" => KeyHolders(s) \ {s.payload} # {}
     /\ s.answer = "error" => s.kind = "experiment"

SubInv ==
  /\ SubmissionTypeOK
  /\ \A e \in Experiments : ExperimentInv(e)
  /\ \A j \in Jobs : JobInv(j)
  /\ OneWriter /\ UniqueKeys
  /\ \A c \in Clients : ClientInv(c)
  /\ \A s \in Starters : StarterInv(s)
  /\ \A c \in Clients : AnswerAgrees(c)
-----------------------------------------------------------------------------
(* Helpers *)

\* A starting process takes the experiments it locked in the order of their ids.
LEMMA EarliestInTodo ==
  ASSUME NEW todo, todo \subseteq Nat, todo # {}
  PROVE  Earliest(todo) \in todo /\ \A f \in todo : Earliest(todo) <= f
<1> DEFINE R == {ss \in Nat \X Nat : ss[1] < ss[2]}
<1>1. IsWellFoundedOn(R, Nat)
  BY NatLessThanWellFounded, Zenon DEF OpToRel
<1>2. PICK x \in todo : \A y \in todo : ~(<<y, x>> \in R)
  <2> HIDE DEF R
  <2> QED BY <1>1, WFMin, Zenon
<1>3. ASSUME NEW y \in todo PROVE x <= y
  <2>1. x \in Nat /\ y \in Nat /\ ~(<<y, x>> \in R)
    BY <1>2
  <2>2. ~(y < x)
    <3>1. y < x => <<y, x>> \in R
      <4>1. <<y, x>>[1] = y /\ <<y, x>>[2] = x /\ <<y, x>> \in Nat \X Nat
        BY <2>1
      <4> QED BY <4>1
    <3> QED BY <3>1, <2>1
  <2> QED BY <2>1, <2>2
<1> QED
  BY <1>3 DEF Earliest
\* What a step of transaction t leaves alone: the sessions and the rows of the others,
\* the request and the job of a committed experiment, and committed jobs.
SameSessions(t) ==
  /\ DOMAIN session' = Transactions
  /\ \A u \in Transactions \ {t} : session'[u] = session[u]

ExperimentFrame(t, e) ==
  LET x == experiments[e]
      y == experiments'[e]
  IN /\ x.writer \notin {t, Nobody} => y = x
     /\ x.state = "committed" =>
          /\ y.state = "committed" /\ y.key = x.key /\ y.payload = x.payload
          /\ x.source # NoJob => y.source = x.source

JobFrame(t, j) ==
  jobs[j].state = "committed" \/ jobs[j].writer \notin {t, Nobody} => jobs'[j] = jobs[j]

Frame(t) ==
  /\ SameSessions(t)
  /\ \A e \in Experiments : ExperimentFrame(t, e)
  /\ \A j \in Jobs : JobFrame(t, j)

LEMMA RowTypes ==
  ASSUME SubInv
  PROVE  /\ \A e \in Experiments : experiments[e] \in ExperimentRow
         /\ \A j \in Jobs : jobs[j] \in JobRow
         /\ \A c \in Clients : session[c] \in ClientState
         /\ \A s \in Starters : session[s] \in StarterState
BY DEF SubInv, SubmissionTypeOK

\* A committed experiment's job has an experiment that is committed.
LEMMA CommittedJobsExperiment ==
  ASSUME SubInv, NEW j \in Jobs, jobs[j].state = "committed", jobs[j].kind = "experiment"
  PROVE  /\ jobs[j].payload \in Experiments
         /\ experiments[jobs[j].payload].state = "committed"
         /\ experiments[jobs[j].payload].source = j
         /\ experiments[jobs[j].payload].key = jobs[j].key
BY DEF SubInv, JobInv

\* What another client holds stays true.
LEMMA OtherClientsKeep ==
  ASSUME SubmissionAssumption, SubInv, NEW t \in Transactions, Frame(t),
         NEW c \in Clients, c # t
  PROVE  ClientInv(c)'
<1>1. c \in Transactions /\ session'[c] = session[c] /\ c # Nobody
  BY DEF Transactions, Frame, SameSessions, SubmissionAssumption
<1>2. ClientInv(c) /\ session[c] \in ClientState
  BY RowTypes DEF SubInv
<1>3. ASSUME NEW e \in Experiments, experiments[e].writer = c
      PROVE  experiments'[e] = experiments[e]
  BY <1>1, <1>3 DEF Frame, ExperimentFrame
<1>4. ASSUME NEW e \in Experiments, experiments[e].state = "committed"
      PROVE  /\ experiments'[e].state = "committed" /\ experiments'[e].key = experiments[e].key
             /\ experiments'[e].payload = experiments[e].payload
             /\ experiments[e].source # NoJob => experiments'[e].source = experiments[e].source
  BY <1>4 DEF Frame, ExperimentFrame
<1>5. ASSUME NEW j \in Jobs,
             jobs[j].state = "committed" \/ jobs[j].writer = c
      PROVE  jobs'[j] = jobs[j]
  BY <1>1, <1>5 DEF Frame, JobFrame
<1>6. session[c].at = "reread" => JobsWith("analysis", session[c].key)' # {}
  BY <1>1, <1>2, <1>5 DEF ClientInv, JobsWith
<1>7. session[c].at \in {"link", "commit"} =>
        /\ jobs'[session[c].job] = jobs[session[c].job]
  BY <1>2, <1>5 DEF ClientInv
<1>8. ASSUME session[c].at \in Preparing
      PROVE  LET x == experiments'[session[c].record]
             IN /\ x.key = session[c].key /\ x.payload = session[c].payload
                /\ \/ x.state = "inserted" /\ x.writer = c /\ session[c].source = NoJob
                   \/ /\ x.state = "committed" /\ session[c].key # NoKey
                      /\ session[c].source \in {NoJob, x.source}
  BY <1>2, <1>3, <1>4, <1>8 DEF ClientInv
<1>9. ASSUME session[c].at = "commit", session[c].source = NoJob
      PROVE  LET y == experiments'[session[c].record]
             IN y.writer = c /\ y.draft = session[c].job
  <2>1. session[c].record \in Experiments
    BY <1>2, <1>9 DEF ClientInv, Preparing
  <2> QED
    BY <1>2, <1>3, <1>9, <2>1 DEF ClientInv
<1> QED
  BY <1>1, <1>2, <1>6, <1>7, <1>8, <1>9 DEF ClientInv

\* What another client was told stays right.
LEMMA OtherAnswersKeep ==
  ASSUME SubmissionAssumption, SubInv, NEW t \in Transactions, Frame(t),
         NEW c \in Clients, c # t
  PROVE  AnswerAgrees(c)'
<1>1. c \in Transactions /\ session'[c] = session[c] /\ AnswerAgrees(c)
  BY DEF Transactions, Frame, SameSessions, SubInv
<1>2. ASSUME NEW e \in Experiments, experiments[e].state = "committed"
      PROVE  /\ experiments'[e].state = "committed" /\ experiments'[e].key = experiments[e].key
             /\ experiments'[e].payload = experiments[e].payload
  BY <1>2 DEF Frame, ExperimentFrame
<1>3. ASSUME NEW j \in Jobs, jobs[j].state = "committed"
      PROVE  jobs'[j] = jobs[j] /\ RequestOf(j)' = RequestOf(j)
  <2>1. jobs'[j] = jobs[j]
    BY <1>3 DEF Frame, JobFrame
  <2> QED
    BY <1>2, <1>3, <2>1, CommittedJobsExperiment DEF RequestOf
<1>4. \A k : ExperimentsWith(k) \subseteq ExperimentsWith(k)'
  BY <1>2 DEF ExperimentsWith
<1>5. \A k : JobsWith("analysis", k) \subseteq JobsWith("analysis", k)'
  BY <1>3 DEF JobsWith
<1>6. KeyHolders(session[c]) \subseteq KeyHolders(session[c])'
  <2>1. ASSUME NEW e \in ExperimentsWith(session[c].key)
        PROVE  e \in ExperimentsWith(session[c].key)' /\ experiments'[e].payload = experiments[e].payload
    BY <1>1, <1>2, <1>4, <2>1 DEF ExperimentsWith
  <2>2. ASSUME NEW j \in JobsWith("analysis", session[c].key)
        PROVE  j \in JobsWith("analysis", session[c].key)' /\ jobs'[j].payload = jobs[j].payload
    BY <1>1, <1>3, <1>5, <2>2 DEF JobsWith
  <2> QED BY <1>1, <2>1, <2>2 DEF KeyHolders
<1>7. session[c].answer = "accepted" => AnswerAgrees(c)'
  BY <1>1, <1>3 DEF AnswerAgrees
<1> QED
  BY <1>1, <1>3, <1>6 DEF AnswerAgrees
LEMMA OtherStartersKeep ==
  ASSUME SubmissionAssumption, SubInv, NEW t \in Transactions, Frame(t),
         NEW s \in Starters, s # t
  PROVE  StarterInv(s)'
<1>1. s \in Transactions /\ session'[s] = session[s] /\ s # Nobody
  BY DEF Transactions, Frame, SameSessions, SubmissionAssumption
<1>2. StarterInv(s) /\ session[s] \in StarterState
  BY RowTypes DEF SubInv
<1>3. session[s].todo \subseteq Experiments
  BY <1>2 DEF StarterState
<1>4. ASSUME NEW e \in Experiments, experiments[e].writer = s
      PROVE  experiments'[e] = experiments[e]
  BY <1>1, <1>4 DEF Frame, ExperimentFrame
<1> QED
  BY <1>1, <1>2, <1>3, <1>4 DEF StarterInv

\* A row that t neither writes nor wrote keeps its invariant.
LEMMA ExperimentKeeps ==
  ASSUME SubmissionAssumption, SubInv, NEW t \in Transactions, Frame(t),
         NEW e \in Experiments, experiments[e].writer # t, experiments'[e] = experiments[e]
  PROVE  ExperimentInv(e)'
<1> DEFINE x == experiments[e]
<1>1. ExperimentInv(e) /\ x \in ExperimentRow
  BY RowTypes DEF SubInv
<1>2. x.writer # Nobody => session'[x.writer] = session[x.writer]
  BY <1>1 DEF Frame, SameSessions, ExperimentRow
<1>3. x.source # NoJob => x.source \in Jobs /\ jobs'[x.source] = jobs[x.source]
  BY <1>1 DEF Frame, JobFrame, ExperimentInv, ExperimentRow
<1>4. x.writer \in Starters /\ x.draft # NoJob => x.draft \in Jobs /\ jobs'[x.draft] = jobs[x.draft]
  <2>1. x.writer \in Starters /\ x.draft # NoJob =>
          x.draft \in Jobs /\ jobs[x.draft].writer = x.writer
    BY <1>1 DEF ExperimentInv, ExperimentRow
  <2> QED
    BY <2>1 DEF Frame, JobFrame, SubmissionAssumption
<1>5. Nobody \notin Clients \cup Starters
  BY DEF SubmissionAssumption
<1> QED
  BY <1>1, <1>2, <1>3, <1>4, <1>5 DEF ExperimentInv

\* The same of a job, as long as nobody else gives its experiment a job.
LEMMA JobKeeps ==
  ASSUME SubmissionAssumption, SubInv, NEW t \in Transactions, Frame(t),
         NEW j \in Jobs, jobs[j].writer # t, jobs'[j] = jobs[j],
         jobs[j].state = "inserted" => experiments'[jobs[j].payload].source = NoJob
  PROVE  JobInv(j)'
<1> DEFINE r == jobs[j]
           x == experiments[r.payload]
<1>1. JobInv(j) /\ r \in JobRow /\ Nobody \notin Clients \cup Starters
  BY RowTypes DEF SubInv, SubmissionAssumption
<1>2. CASE r.state = "absent"
  BY <1>1, <1>2 DEF JobInv
<1>3. CASE r.state = "committed"
  <2>1. CASE r.kind = "experiment"
    <3>1. /\ r.payload \in Experiments /\ x.state = "committed" /\ x.source = j /\ x.key = r.key
          /\ j # NoJob
      BY <1>3, <2>1, CommittedJobsExperiment DEF SubmissionAssumption
    <3>2. LET y == experiments'[r.payload]
          IN y.state = "committed" /\ y.source = j /\ y.key = r.key
      BY <3>1 DEF Frame, ExperimentFrame
    <3> QED
      BY <1>1, <1>3, <2>1, <3>1, <3>2 DEF JobInv
  <2>2. CASE r.kind # "experiment"
    BY <1>1, <1>3, <2>2 DEF JobInv
  <2> QED BY <2>1, <2>2
<1>4. CASE r.state = "inserted"
  <2>1. /\ r.kind = "experiment" /\ r.payload \in Experiments /\ r.key = x.key
        /\ r.writer \in Clients \cup Starters
        /\ r.writer \in Clients =>
             /\ session[r.writer].at \in {"link", "commit"} /\ session[r.writer].job = j
             /\ session[r.writer].record = r.payload
        /\ r.writer \in Starters => x.writer = r.writer /\ x.draft = j
    BY <1>1, <1>4 DEF JobInv, SubmissionAssumption
  <2>2. session'[r.writer] = session[r.writer]
    BY <2>1 DEF Frame, SameSessions, Transactions
  <2>3. r.writer \in Starters => experiments'[r.payload] = x
    BY <2>1, <1>1 DEF Frame, ExperimentFrame
  <2>4. r.writer \in Clients => experiments'[r.payload].key = x.key
    <3>1. r.writer \in Clients =>
            \/ x.state = "inserted" /\ x.writer = r.writer
            \/ x.state = "committed"
      BY <2>1 DEF SubInv, ClientInv, Preparing
    <3> QED
      BY <1>1, <2>1, <3>1 DEF Frame, ExperimentFrame
  <2> QED
    BY <1>1, <1>4, <2>1, <2>2, <2>3, <2>4 DEF JobInv
<1> QED
  BY <1>1, <1>2, <1>3, <1>4 DEF JobRow

LEMMA UniqueKeysKeep ==
  ASSUME SubInv,
         \A e \in Experiments :
           experiments'[e].state # "absent" =>
             experiments[e].state # "absent" /\ experiments'[e].key = experiments[e].key
  PROVE  UniqueKeys'
BY DEF SubInv, UniqueKeys

LEMMA OneWriterKeeps ==
  ASSUME SubInv,
         \A j \in Jobs :
           jobs'[j].state = "inserted" =>
             jobs[j].state = "inserted" /\ jobs'[j].payload = jobs[j].payload
  PROVE  OneWriter'
BY DEF SubInv, OneWriter

\* No row is left to a transaction that is over; t may end only with no row left.
LEMMA TypesKeep ==
  ASSUME SubmissionAssumption, SubInv, NEW t \in Transactions, Frame(t),
         experiments' \in [Experiments -> ExperimentRow], jobs' \in [Jobs -> JobRow],
         t \in Clients => session'[t] \in ClientState,
         t \in Starters => session'[t] \in StarterState,
         \A e \in Experiments :
           experiments'[e].writer = t => session'[t].at \notin {"idle", "off", "serving"},
         \A e \in Experiments :
           experiments'[e].writer \notin {t, Nobody} =>
             experiments'[e].writer = experiments[e].writer,
         \A j \in Jobs :
           jobs'[j].writer = t => session'[t].at \notin {"idle", "off", "serving"},
         \A j \in Jobs :
           jobs'[j].writer \notin {t, Nobody} => jobs'[j].writer = jobs[j].writer
  PROVE  SubmissionTypeOK'
<1>1. DOMAIN session' = Transactions
  BY DEF Frame, SameSessions
<1>2. ASSUME NEW c \in Clients PROVE session'[c] \in ClientState
  <2>1. c # t => session'[c] = session[c]
    BY DEF Frame, SameSessions, Transactions
  <2> QED BY <2>1, RowTypes
<1>3. ASSUME NEW s \in Starters PROVE session'[s] \in StarterState
  <2>1. s # t => session'[s] = session[s]
    BY DEF Frame, SameSessions, Transactions
  <2> QED BY <2>1, RowTypes
<1>4. ASSUME NEW i \in Experiments, experiments'[i].writer # Nobody
      PROVE  Open(experiments[i].writer)'
  <2>1. CASE experiments'[i].writer = t
    BY <2>1 DEF Open
  <2>2. CASE experiments'[i].writer # t
    <3>1. experiments'[i].writer = experiments[i].writer /\ experiments[i].writer \in Transactions
      BY <1>4, <2>2, RowTypes DEF ExperimentRow
    <3>2. Open(experiments[i].writer) /\ session'[experiments[i].writer] = session[experiments[i].writer]
      BY <1>4, <2>2, <3>1 DEF SubInv, SubmissionTypeOK, Frame, SameSessions
    <3> QED BY <3>1, <3>2 DEF Open
  <2> QED BY <2>1, <2>2
<1>5. ASSUME NEW i \in Jobs, jobs'[i].writer # Nobody
      PROVE  Open(jobs[i].writer)'
  <2>1. CASE jobs'[i].writer = t
    BY <2>1 DEF Open
  <2>2. CASE jobs'[i].writer # t
    <3>1. jobs'[i].writer = jobs[i].writer /\ jobs[i].writer \in Transactions
      BY <1>5, <2>2, RowTypes DEF JobRow
    <3>2. Open(jobs[i].writer) /\ session'[jobs[i].writer] = session[jobs[i].writer]
      BY <1>5, <2>2, <3>1 DEF SubInv, SubmissionTypeOK, Frame, SameSessions
    <3> QED BY <3>1, <3>2 DEF Open
  <2> QED BY <2>1, <2>2
<1> QED
  BY <1>1, <1>2, <1>3, <1>4, <1>5 DEF SubmissionTypeOK
LEMMA InvariantKeeps ==
  ASSUME SubmissionAssumption, SubInv, NEW t \in Transactions, Frame(t),
         SubmissionTypeOK', OneWriter', UniqueKeys',
         \A e \in Experiments : ExperimentInv(e)',
         \A j \in Jobs : JobInv(j)',
         t \in Clients => ClientInv(t)' /\ AnswerAgrees(t)',
         t \in Starters => StarterInv(t)'
  PROVE  SubInv'
<1>1. \A c \in Clients : ClientInv(c)'
  BY OtherClientsKeep
<1>2. \A c \in Clients : AnswerAgrees(c)'
  BY OtherAnswersKeep
<1>3. \A s \in Starters : StarterInv(s)'
  BY OtherStartersKeep
<1> QED
  BY <1>1, <1>2, <1>3 DEF SubInv

\* A step of a client that writes no row; what it holds still fits the rows it wrote.
LEMMA ClientTurn ==
  ASSUME SubmissionAssumption, SubInv, NEW c \in Clients, SameSessions(c),
         UNCHANGED <<experiments, jobs>>, session'[c] \in ClientState,
         ClientInv(c)', AnswerAgrees(c)',
         \A e \in Experiments :
           experiments[e].writer = c =>
             /\ experiments[e].state = "inserted"
             /\ session'[c].record = e /\ session'[c].at \in Preparing,
         \A j \in Jobs :
           jobs[j].writer = c =>
             /\ session'[c].at = "link" /\ session'[c].job = j
             /\ session'[c].record = jobs[j].payload
  PROVE  SubInv'
<1>1. c \in Transactions /\ c \notin Starters /\ c # Nobody
  BY DEF Transactions, SubmissionAssumption
<1>2. Frame(c)
  BY DEF Frame, ExperimentFrame, JobFrame
<1>3. SubmissionTypeOK'
  <2>1. /\ \A e \in Experiments :
             experiments'[e].writer = c => session'[c].at \notin {"idle", "off", "serving"}
        /\ \A j \in Jobs :
             jobs'[j].writer = c => session'[c].at \notin {"idle", "off", "serving"}
    BY DEF Preparing
  <2>2. experiments' \in [Experiments -> ExperimentRow] /\ jobs' \in [Jobs -> JobRow]
    BY DEF SubInv, SubmissionTypeOK
  <2> QED
    BY <1>1, <1>2, <2>1, <2>2, TypesKeep
<1>4. OneWriter' /\ UniqueKeys'
  BY OneWriterKeeps, UniqueKeysKeep
<1>5. ASSUME NEW e \in Experiments PROVE ExperimentInv(e)'
  <2>1. CASE experiments[e].writer = c
    <3>1. ExperimentInv(e) /\ experiments[e] \in ExperimentRow
      BY RowTypes DEF SubInv
    <3>2. /\ experiments[e].state = "inserted"
          /\ session'[c].record = e /\ session'[c].at \in Preparing
      BY <2>1
    <3> QED
      BY <1>1, <2>1, <3>1, <3>2 DEF ExperimentInv
  <2>2. CASE experiments[e].writer # c
    BY <1>1, <1>2, <2>2, ExperimentKeeps
  <2> QED BY <2>1, <2>2
<1>6. ASSUME NEW j \in Jobs PROVE JobInv(j)'
  <2>1. JobInv(j) /\ jobs[j] \in JobRow
    BY RowTypes DEF SubInv
  <2>2. CASE jobs[j].writer = c
    <3>1. /\ session'[c].at = "link" /\ session'[c].job = j
          /\ session'[c].record = jobs[j].payload
      BY <2>2
    <3> QED
      BY <1>1, <2>1, <2>2, <3>1 DEF JobInv
  <2>3. CASE jobs[j].writer # c
    <3>1. jobs[j].state = "inserted" => experiments'[jobs[j].payload].source = NoJob
      BY <2>1 DEF JobInv
    <3> QED
      BY <1>1, <1>2, <2>3, <3>1, JobKeeps
  <2> QED BY <2>2, <2>3
<1> QED
  BY <1>1, <1>2, <1>3, <1>4, <1>5, <1>6, InvariantKeeps

\* The rows that a client's open transaction may have written.
LEMMA ClientsRows ==
  ASSUME SubmissionAssumption, SubInv, NEW c \in Clients
  PROVE  /\ \A e \in Experiments :
              experiments[e].writer = c =>
                /\ session[c].record = e /\ session[c].at \in Preparing
                /\ session[c].at # "commit" =>
                     experiments[e].state = "inserted" /\ experiments[e].source = NoJob
         /\ \A j \in Jobs :
              jobs[j].writer = c =>
                /\ jobs[j].state = "inserted" /\ jobs[j].kind = "experiment"
                /\ session[c].at \in {"link", "commit"} /\ session[c].job = j
                /\ session[c].record = jobs[j].payload
<1>1. c # Nobody /\ c \notin Starters
  BY DEF SubmissionAssumption
<1>2. ASSUME NEW e \in Experiments, experiments[e].writer = c
      PROVE  /\ session[c].record = e /\ session[c].at \in Preparing
             /\ session[c].at # "commit" =>
                  experiments[e].state = "inserted" /\ experiments[e].source = NoJob
  <2>1. ExperimentInv(e) /\ experiments[e] \in ExperimentRow
    BY RowTypes DEF SubInv
  <2>2. experiments[e].state \in {"inserted", "committed"}
    BY <1>1, <1>2, <2>1 DEF ExperimentInv, ExperimentRow, NoExperiment
  <2> QED BY <1>1, <1>2, <2>1, <2>2 DEF ExperimentInv, Preparing
<1>3. ASSUME NEW j \in Jobs, jobs[j].writer = c
      PROVE  /\ jobs[j].state = "inserted" /\ jobs[j].kind = "experiment"
             /\ session[c].at \in {"link", "commit"} /\ session[c].job = j
             /\ session[c].record = jobs[j].payload
  <2>1. JobInv(j) /\ jobs[j] \in JobRow
    BY RowTypes DEF SubInv
  <2> QED BY <1>1, <1>3, <2>1 DEF JobInv
<1> QED BY <1>2, <1>3

\* Likewise a starting process.
LEMMA StartersRows ==
  ASSUME SubmissionAssumption, SubInv, NEW s \in Starters
  PROVE  /\ \A e \in Experiments :
              experiments[e].writer = s =>
                /\ experiments[e].state = "committed" /\ experiments[e].source = NoJob
                /\ session[s].at \in {"find", "insert"}
                /\ e \in session[s].todo => experiments[e].draft = NoJob
                /\ experiments[e].draft # NoJob =>
                     /\ experiments[e].draft \in Jobs
                     /\ jobs[experiments[e].draft].state = "inserted"
                     /\ jobs[experiments[e].draft].payload = e
                     /\ jobs[experiments[e].draft].writer = s
         /\ \A j \in Jobs :
              jobs[j].writer = s =>
                /\ jobs[j].state = "inserted" /\ jobs[j].kind = "experiment"
                /\ jobs[j].payload \in Experiments
                /\ experiments[jobs[j].payload].writer = s
                /\ experiments[jobs[j].payload].draft = j
<1>1. s # Nobody /\ s \notin Clients
  BY DEF SubmissionAssumption
<1>2. ASSUME NEW e \in Experiments, experiments[e].writer = s
      PROVE  /\ experiments[e].state = "committed" /\ experiments[e].source = NoJob
             /\ session[s].at \in {"find", "insert"}
             /\ e \in session[s].todo => experiments[e].draft = NoJob
             /\ experiments[e].draft # NoJob =>
                  /\ experiments[e].draft \in Jobs
                  /\ jobs[experiments[e].draft].state = "inserted"
                  /\ jobs[experiments[e].draft].payload = e
                  /\ jobs[experiments[e].draft].writer = s
  <2>1. ExperimentInv(e) /\ experiments[e] \in ExperimentRow
    BY RowTypes DEF SubInv
  <2> QED BY <1>2, <2>1 DEF ExperimentInv, ExperimentRow
<1>3. ASSUME NEW j \in Jobs, jobs[j].writer = s
      PROVE  /\ jobs[j].state = "inserted" /\ jobs[j].kind = "experiment"
             /\ jobs[j].payload \in Experiments
             /\ experiments[jobs[j].payload].writer = s
             /\ experiments[jobs[j].payload].draft = j
  <2>1. JobInv(j) /\ jobs[j] \in JobRow
    BY RowTypes DEF SubInv
  <2> QED BY <1>1, <1>3, <2>1 DEF JobInv
<1> QED BY <1>2, <1>3
LEMMA SessionMoves ==
  ASSUME SubInv, NEW t \in Transactions, NEW v, session' = [session EXCEPT ![t] = v]
  PROVE  SameSessions(t) /\ session'[t] = v
BY DEF SubInv, SubmissionTypeOK, SameSessions

\* An idle request, or one that has written no row, may say anything.
LEMMA NothingWritten ==
  ASSUME SubmissionAssumption, SubInv, NEW c \in Clients, session[c].at \notin Preparing
  PROVE  /\ \A e \in Experiments : experiments[e].writer # c
         /\ \A j \in Jobs : jobs[j].writer # c
BY ClientsRows DEF Preparing

-----------------------------------------------------------------------------
(* A client's statements that write no row *)

LEMMA ReadExperimentKeeps ==
  ASSUME SubmissionAssumption, SubInv, NEW c \in Clients, ReadExperiment(c)
  PROVE  SubInv'
<1>1. PICK k \in Keys \cup {NoKey}, p \in Payloads :
        LET found == ExperimentsWith(k)
        IN session' = [session EXCEPT ![c] =
             IF found = {} THEN Asking("create", "experiment", k, p)
             ELSE LET e == CHOOSE x \in found : TRUE
                  IN IF experiments[e].payload # p
                     THEN Told(Asking("idle", "experiment", k, p), "conflict", NoJob)
                     ELSE [Asking("find", "experiment", k, p) EXCEPT
                             !.record = e, !.source = experiments[e].source]]
  BY DEF ReadExperiment
<1> DEFINE found == ExperimentsWith(k)
           e == CHOOSE x \in found : TRUE
           held == [Asking("find", "experiment", k, p) EXCEPT
                      !.record = e, !.source = experiments[e].source]
<1>2. /\ session[c].at = "idle" /\ UNCHANGED <<experiments, jobs>>
      /\ c \in Transactions
  BY DEF ReadExperiment, Transactions
<1>3. /\ \A x \in Experiments : experiments[x].writer # c
      /\ \A j \in Jobs : jobs[j].writer # c
  BY <1>2, NothingWritten DEF Preparing
<1>4. CASE found = {}
  <2>1. SameSessions(c) /\ session'[c] = Asking("create", "experiment", k, p)
    BY <1>1, <1>2, <1>4, SessionMoves
  <2>2. session'[c] \in ClientState
    BY <2>1 DEF ClientState, Asking, Answers
  <2>3. ClientInv(c)' /\ AnswerAgrees(c)'
    BY <2>1 DEF ClientInv, AnswerAgrees, Asking, Preparing
  <2> QED
    BY <1>2, <1>3, <2>1, <2>2, <2>3, ClientTurn
<1>5. CASE found # {} /\ experiments[e].payload # p
  <2>1. SameSessions(c) /\ session'[c] = Told(Asking("idle", "experiment", k, p), "conflict", NoJob)
    BY <1>1, <1>2, <1>5, SessionMoves
  <2>2. /\ session'[c] \in ClientState
        /\ session'[c].at = "idle" /\ session'[c].kind = "experiment" /\ session'[c].key = k
        /\ session'[c].payload = p /\ session'[c].answer = "conflict"
    BY <2>1 DEF ClientState, Asking, Told, Answers
  <2>3. ClientInv(c)'
    BY <2>2 DEF ClientInv, Preparing
  <2>4. experiments[e].payload \in KeyHolders(session'[c])
    <3>1. KeyHolders(session'[c]) = {experiments[x].payload : x \in found}
      BY <2>2 DEF KeyHolders
    <3>2. e \in found
      BY <1>5
    <3> HIDE DEF e, found
    <3> QED
      BY <3>1, <3>2
  <2>5. KeyHolders(session'[c]) = KeyHolders(session[c])'
    BY <1>2 DEF KeyHolders, ExperimentsWith, JobsWith
  <2>6. AnswerAgrees(c)'
    BY <1>5, <2>2, <2>4, <2>5 DEF AnswerAgrees
  <2> QED
    BY <1>2, <1>3, <2>1, <2>2, <2>3, <2>6, ClientTurn
<1>6. CASE found # {} /\ experiments[e].payload = p
  <2>1. SameSessions(c) /\ session'[c] = held
    BY <1>1, <1>2, <1>6, SessionMoves
  <2>2. /\ e \in Experiments /\ experiments[e].state = "committed" /\ k # NoKey
        /\ experiments[e].key = k
    BY <1>6 DEF ExperimentsWith
  <2>3. experiments[e] \in ExperimentRow
    BY <2>2, RowTypes
  <2>4. /\ held \in ClientState
        /\ held.at = "find" /\ held.kind = "experiment" /\ held.key = k /\ held.payload = p
        /\ held.answer = "none" /\ held.record = e /\ held.source = experiments[e].source
    BY <2>2, <2>3 DEF ClientState, Asking, Answers, ExperimentRow
  <2> HIDE DEF held, e
  <2>5. ClientInv(c)' /\ AnswerAgrees(c)'
    BY <1>2, <1>6, <2>1, <2>2, <2>4 DEF ClientInv, AnswerAgrees, Preparing
  <2> QED
    BY <1>2, <1>3, <2>1, <2>4, <2>5, ClientTurn
<1> QED
  BY <1>4, <1>5, <1>6

\* The key leads the record and the job to one experiment.
LEMMA KeyLeadsToRecord ==
  ASSUME SubInv, NEW k, NEW j \in JobsWith("experiment", k),
         NEW e \in Experiments, experiments[e].state # "absent", experiments[e].key = k
  PROVE  jobs[j].payload = e
<1>1. /\ j \in Jobs /\ k # NoKey /\ jobs[j].state = "committed" /\ jobs[j].kind = "experiment"
      /\ jobs[j].key = k
  BY DEF JobsWith
<1>2. /\ jobs[j].payload \in Experiments /\ experiments[jobs[j].payload].state = "committed"
      /\ experiments[jobs[j].payload].key = k
  BY <1>1, CommittedJobsExperiment
<1> QED
  BY <1>1, <1>2 DEF SubInv, UniqueKeys

LEMMA FindJobKeeps ==
  ASSUME SubmissionAssumption, SubInv, NEW c \in Clients, FindJob(c)
  PROVE  SubInv'
<1> DEFINE s == session[c]
           found == JobsWith("experiment", s.key)
           j == CHOOSE x \in found : TRUE
<1>1. s.at = "find" /\ c \in Transactions /\ s \in ClientState /\ ClientInv(c)
  BY RowTypes DEF FindJob, Transactions, SubInv
<1>2. /\ \A e \in Experiments :
           experiments[e].writer = c => experiments[e].state = "inserted" /\ s.record = e
      /\ \A i \in Jobs : jobs[i].writer # c
  BY <1>1, ClientsRows
<1>3. CASE found = {}
  <2>1. session' = [session EXCEPT ![c].at = "insert"] /\ UNCHANGED <<experiments, jobs>>
    BY <1>3 DEF FindJob
  <2>2. SameSessions(c) /\ session'[c] = [s EXCEPT !.at = "insert"]
    BY <1>1, <2>1 DEF SubInv, SubmissionTypeOK, SameSessions
  <2>3. session'[c] \in ClientState /\ session'[c].at = "insert"
    BY <1>1, <2>2 DEF ClientState
  <2>4. /\ session'[c].kind = s.kind /\ session'[c].key = s.key /\ session'[c].payload = s.payload
        /\ session'[c].record = s.record /\ session'[c].source = s.source
        /\ session'[c].answer = s.answer
    BY <1>1, <2>2 DEF ClientState
  <2>5. ClientInv(c)' /\ AnswerAgrees(c)'
    BY <1>1, <2>1, <2>3, <2>4 DEF ClientInv, AnswerAgrees, Preparing
  <2> QED
    BY <1>2, <2>1, <2>2, <2>3, <2>4, <2>5, ClientTurn DEF Preparing
<1>4. CASE found # {}
  <2>1. j \in found /\ j \in Jobs
    BY <1>4 DEF JobsWith
  <2>2. s.record \in Experiments /\ experiments[s.record].state # "absent"
        /\ experiments[s.record].key = s.key
    BY <1>1 DEF ClientInv, Preparing
  <2>3. jobs[j].payload = s.record
    BY <2>1, <2>2, KeyLeadsToRecord
  <2>4. session' = [session EXCEPT ![c].at = "link", ![c].job = j] /\ UNCHANGED <<experiments, jobs>>
    BY <1>4, <2>3 DEF FindJob
  <2>5. jobs[j].state = "committed" /\ jobs[j].kind = "experiment"
    BY <2>1 DEF JobsWith
  <2> HIDE DEF j
  <2>6. SameSessions(c) /\ session'[c] = [s EXCEPT !.at = "link", !.job = j]
    BY <1>1, <2>4 DEF SubInv, SubmissionTypeOK, SameSessions
  <2>7. session'[c] \in ClientState /\ session'[c].at = "link" /\ session'[c].job = j
    BY <1>1, <2>1, <2>6 DEF ClientState
  <2>8. /\ session'[c].kind = s.kind /\ session'[c].key = s.key /\ session'[c].payload = s.payload
        /\ session'[c].record = s.record /\ session'[c].source = s.source
        /\ session'[c].answer = s.answer
    BY <1>1, <2>6 DEF ClientState
  <2>9. ClientInv(c)' /\ AnswerAgrees(c)'
    BY <1>1, <2>1, <2>3, <2>4, <2>5, <2>7, <2>8 DEF ClientInv, AnswerAgrees, Preparing
  <2> QED
    BY <1>2, <2>4, <2>6, <2>7, <2>8, <2>9, ClientTurn DEF Preparing
<1> QED
  BY <1>3, <1>4
LEMMA FoundJob ==
  ASSUME NEW kind, NEW k, JobsWith(kind, k) # {}
  PROVE  LET j == CHOOSE x \in JobsWith(kind, k) : TRUE
         IN /\ j \in JobsWith(kind, k) /\ j \in Jobs /\ k # NoKey
            /\ jobs[j].state = "committed" /\ jobs[j].kind = kind /\ jobs[j].key = k
<1>1. PICK j : j = CHOOSE x \in JobsWith(kind, k) : TRUE
  OBVIOUS
<1>2. j \in JobsWith(kind, k)
  BY <1>1
<1>3. /\ j \in Jobs /\ k # NoKey
      /\ jobs[j].state = "committed" /\ jobs[j].kind = kind /\ jobs[j].key = k
  BY <1>2 DEF JobsWith
<1> QED
  BY <1>1, <1>2, <1>3

\* What a replay tells the client.
LEMMA ReplayKeeps ==
  ASSUME SubmissionAssumption, SubInv, NEW c \in Clients, NEW s,
         UNCHANGED <<experiments, jobs>>, session[c].at \notin Preparing,
         s.kind = "analysis", s.key \in Keys \cup {NoKey}, s.payload \in Payloads \cup {Blank},
         JobsWith("analysis", s.key) # {}, Replay(c, s, JobsWith("analysis", s.key))
  PROVE  SubInv'
<1> DEFINE found == JobsWith("analysis", s.key)
<1>1. PICK j : /\ j = CHOOSE x \in found : TRUE
               /\ j \in found /\ j \in Jobs
               /\ jobs[j].state = "committed" /\ jobs[j].kind = "analysis" /\ jobs[j].key = s.key
  BY FoundJob
<1>2. /\ \A x \in Experiments : experiments[x].writer # c
      /\ \A i \in Jobs : jobs[i].writer # c
  BY NothingWritten
<1>3. session' = [session EXCEPT ![c] =
        IF jobs[j].payload = s.payload THEN Told(s, "accepted", j) ELSE Told(s, "conflict", NoJob)]
  BY <1>1 DEF Replay
<1>4. c \in Transactions
  BY DEF Transactions
<1>5. CASE jobs[j].payload = s.payload
  <2>1. SameSessions(c) /\ session'[c] = Told(s, "accepted", j)
    BY <1>3, <1>4, <1>5, SessionMoves
  <2>2. /\ session'[c] \in ClientState
        /\ session'[c].at = "idle" /\ session'[c].kind = "analysis" /\ session'[c].key = s.key
        /\ session'[c].payload = s.payload /\ session'[c].answer = "accepted"
        /\ session'[c].job = j
    BY <1>1, <2>1 DEF ClientState, Asking, Told, Answers
  <2>3. ClientInv(c)'
    BY <2>2 DEF ClientInv, Preparing
  <2>4. RequestOf(j)' = s.payload
    BY <1>1, <1>5 DEF RequestOf
  <2>5. AnswerAgrees(c)'
    BY <1>1, <2>2, <2>4 DEF AnswerAgrees
  <2> QED
    BY <1>2, <2>1, <2>2, <2>3, <2>5, ClientTurn
<1>6. CASE jobs[j].payload # s.payload
  <2>1. SameSessions(c) /\ session'[c] = Told(s, "conflict", NoJob)
    BY <1>3, <1>4, <1>6, SessionMoves
  <2>2. /\ session'[c] \in ClientState
        /\ session'[c].at = "idle" /\ session'[c].kind = "analysis" /\ session'[c].key = s.key
        /\ session'[c].payload = s.payload /\ session'[c].answer = "conflict"
    BY <2>1 DEF ClientState, Asking, Told, Answers
  <2>3. ClientInv(c)'
    BY <2>2 DEF ClientInv, Preparing
  <2>4. jobs[j].payload \in KeyHolders(session'[c])
    <3>1. KeyHolders(session'[c]) = {jobs[i].payload : i \in found}
      BY <2>2 DEF KeyHolders
    <3> HIDE DEF found
    <3> QED
      BY <1>1, <3>1
  <2>5. KeyHolders(session'[c]) = KeyHolders(session[c])'
    BY DEF KeyHolders, ExperimentsWith, JobsWith
  <2>6. AnswerAgrees(c)'
    BY <1>6, <2>2, <2>4, <2>5 DEF AnswerAgrees
  <2> QED
    BY <1>2, <2>1, <2>2, <2>3, <2>6, ClientTurn
<1> QED
  BY <1>5, <1>6

LEMMA ReadJobKeeps ==
  ASSUME SubmissionAssumption, SubInv, NEW c \in Clients, ReadJob(c)
  PROVE  SubInv'
<1>1. PICK k \in Keys \cup {NoKey}, p \in Payloads :
        LET asked == Asking("submit", "analysis", k, p)
            found == JobsWith("analysis", k)
        IN IF found = {} THEN session' = [session EXCEPT ![c] = asked]
           ELSE Replay(c, asked, found)
  BY DEF ReadJob
<1> DEFINE asked == Asking("submit", "analysis", k, p)
<1>2. /\ session[c].at = "idle" /\ UNCHANGED <<experiments, jobs>>
      /\ c \in Transactions
  BY DEF ReadJob, Transactions
<1>3. /\ asked \in ClientState /\ asked.at = "submit" /\ asked.kind = "analysis"
      /\ asked.key = k /\ asked.payload = p /\ asked.answer = "none"
  BY DEF Asking, ClientState, Answers
<1>4. CASE JobsWith("analysis", k) = {}
  <2>1. session' = [session EXCEPT ![c] = asked]
    BY <1>1, <1>4
  <2> HIDE DEF asked
  <2>2. SameSessions(c) /\ session'[c] = asked
    BY <1>2, <2>1, SessionMoves
  <2>3. ClientInv(c)' /\ AnswerAgrees(c)'
    BY <1>3, <2>2 DEF ClientInv, AnswerAgrees, Preparing
  <2> QED
    BY <1>2, <1>3, <2>2, <2>3, ClientTurn, NothingWritten DEF Preparing
<1>5. CASE JobsWith("analysis", k) # {}
  <2>1. Replay(c, asked, JobsWith("analysis", k))
    BY <1>1, <1>5
  <2>2. session[c].at \notin Preparing
    BY <1>2 DEF Preparing
  <2> HIDE DEF asked
  <2> QED
    BY <1>2, <1>3, <1>5, <2>1, <2>2, ReplayKeeps
<1> QED
  BY <1>4, <1>5

LEMMA RereadJobKeeps ==
  ASSUME SubmissionAssumption, SubInv, NEW c \in Clients, RereadJob(c)
  PROVE  SubInv'
<1>1. /\ session[c].at = "reread" /\ UNCHANGED <<experiments, jobs>>
      /\ session[c].at \notin Preparing
  BY DEF RereadJob, Preparing
<1>2. session[c] \in ClientState /\ ClientInv(c)
  BY RowTypes DEF SubInv
<1>3. /\ JobsWith("analysis", session[c].key) # {}
      /\ session[c].kind = "analysis" /\ session[c].key \in Keys \cup {NoKey}
      /\ session[c].payload \in Payloads \cup {Blank}
  BY <1>1, <1>2 DEF ClientInv, ClientState
<1>4. Replay(c, session[c], JobsWith("analysis", session[c].key))
  BY <1>3 DEF RereadJob
<1> QED
  BY <1>1, <1>3, <1>4, ReplayKeeps
-----------------------------------------------------------------------------
(* Statements that write a row *)

LEMMA SubmitJobKeeps ==
  ASSUME SubmissionAssumption, SubInv, NEW c \in Clients, SubmitJob(c)
  PROVE  SubInv'
<1> DEFINE s == session[c]
<1>1. /\ s.at = "submit" /\ c \in Transactions /\ c # Nobody /\ c \notin Starters
      /\ s \in ClientState /\ ClientInv(c)
      /\ UNCHANGED experiments
  BY RowTypes DEF SubmitJob, Transactions, SubInv, SubmissionAssumption
<1>2. s.kind = "analysis" /\ s.answer = "none"
  BY <1>1 DEF ClientInv
<1>3. /\ \A x \in Experiments : experiments[x].writer # c
      /\ \A i \in Jobs : jobs[i].writer # c
  BY <1>1, NothingWritten DEF Preparing
<1>4. CASE JobsWith("analysis", s.key) # {}
  <2>1. session' = [session EXCEPT ![c].at = "reread"] /\ UNCHANGED jobs
    BY <1>4 DEF SubmitJob
  <2>2. SameSessions(c) /\ session'[c] = [s EXCEPT !.at = "reread"]
    BY <1>1, <2>1 DEF SubInv, SubmissionTypeOK, SameSessions
  <2>3. session'[c] \in ClientState /\ session'[c].at = "reread"
    BY <1>1, <2>2 DEF ClientState
  <2>4. /\ session'[c].kind = s.kind /\ session'[c].key = s.key
        /\ session'[c].answer = s.answer
    BY <1>1, <2>2 DEF ClientState
  <2>5. JobsWith("analysis", s.key) = JobsWith("analysis", session[c].key)'
    BY <2>1, <2>4 DEF JobsWith
  <2>6. ClientInv(c)' /\ AnswerAgrees(c)'
    BY <1>2, <1>4, <2>3, <2>4, <2>5 DEF ClientInv, AnswerAgrees, Preparing
  <2> QED
    BY <1>1, <1>3, <2>1, <2>2, <2>3, <2>6, ClientTurn
<1>5. CASE JobsWith("analysis", s.key) = {}
  <2>1. PICK j \in FreeJobs :
          /\ jobs' = [jobs EXCEPT ![j] =
               [state |-> "committed", writer |-> Nobody, kind |-> "analysis",
                key |-> s.key, payload |-> s.payload]]
          /\ Answered(c, "accepted", j)
    BY <1>5 DEF SubmitJob
  <2>2. j \in Jobs /\ jobs[j].state = "absent" /\ jobs[j].writer = Nobody
    <3>1. j \in Jobs /\ jobs[j].state = "absent"
      BY DEF FreeJobs, Unused
    <3> QED BY <3>1 DEF SubInv, JobInv
  <2>3. SameSessions(c) /\ session'[c] = Told(s, "accepted", j)
    <3>1. session' = [session EXCEPT ![c] = Told(s, "accepted", j)]
      BY <2>1 DEF Answered
    <3> QED BY <1>1, <3>1, SessionMoves
  <2>4. /\ session'[c] \in ClientState
        /\ session'[c].at = "idle" /\ session'[c].kind = "analysis" /\ session'[c].key = s.key
        /\ session'[c].payload = s.payload /\ session'[c].answer = "accepted"
        /\ session'[c].job = j
    BY <1>1, <1>2, <2>2, <2>3 DEF ClientState, Asking, Told, Answers
  <2>5. /\ jobs' \in [Jobs -> JobRow]
        /\ jobs'[j].state = "committed" /\ jobs'[j].writer = Nobody
        /\ jobs'[j].kind = "analysis" /\ jobs'[j].key = s.key /\ jobs'[j].payload = s.payload
        /\ \A i \in Jobs \ {j} : jobs'[i] = jobs[i]
    <3>1. jobs \in [Jobs -> JobRow]
      BY DEF SubInv, SubmissionTypeOK
    <3>2. s.key \in Keys \cup {NoKey} /\ s.payload \in Payloads \cup {Blank}
      BY <1>1 DEF ClientState
    <3>3. [state |-> "committed", writer |-> Nobody, kind |-> "analysis",
           key |-> s.key, payload |-> s.payload] \in JobRow
      BY <3>2 DEF JobRow
    <3> QED BY <2>1, <2>2, <3>1, <3>3
  <2>6. Frame(c)
    BY <1>1, <2>2, <2>3, <2>5 DEF Frame, ExperimentFrame, JobFrame
  <2>7. SubmissionTypeOK'
    <3>1. experiments' \in [Experiments -> ExperimentRow]
      BY <1>1 DEF SubInv, SubmissionTypeOK
    <3>2. \A i \in Jobs : jobs'[i].writer # c /\ (jobs'[i].writer # Nobody => jobs'[i].writer = jobs[i].writer)
      BY <1>1, <1>3, <2>5
    <3> QED BY <1>1, <1>3, <2>4, <2>5, <2>6, <3>1, <3>2, TypesKeep
  <2>8. OneWriter' /\ UniqueKeys'
    BY <1>1, <2>5, OneWriterKeeps, UniqueKeysKeep
  <2>9. \A e \in Experiments : ExperimentInv(e)'
    BY <1>1, <1>3, <2>6, ExperimentKeeps
  <2>10. ASSUME NEW i \in Jobs PROVE JobInv(i)'
    <3>1. CASE i = j
      BY <2>5, <3>1 DEF JobInv
    <3>2. CASE i # j
      <4>1. jobs[i].state = "inserted" => experiments'[jobs[i].payload].source = NoJob
        BY <1>1 DEF SubInv, JobInv
      <4> QED BY <1>1, <1>3, <2>5, <2>6, <3>2, <4>1, JobKeeps
    <3> QED BY <3>1, <3>2
  <2>11. ClientInv(c)'
    BY <2>4 DEF ClientInv, Preparing
  <2>12. AnswerAgrees(c)'
    BY <2>2, <2>4, <2>5 DEF AnswerAgrees, RequestOf
  <2> QED
    BY <1>1, <2>6, <2>7, <2>8, <2>9, <2>10, <2>11, <2>12, InvariantKeeps
<1> QED
  BY <1>4, <1>5
\* A transaction is rolled back; a client is told so, or hears nothing.
LEMMA RollBackKeeps ==
  ASSUME SubmissionAssumption, SubInv, NEW t \in Transactions, RollBack(t), SameSessions(t),
         t \in Clients =>
           /\ session'[t] \in ClientState /\ session'[t].at = "idle"
           /\ session'[t].answer \in {"none", "error"}
           /\ session'[t].answer = "error" => session'[t].kind = "experiment",
         t \in Starters => session'[t] = Off
  PROVE  SubInv'
<1>1. t # Nobody /\ (t \in Clients \/ t \in Starters) /\ ~(t \in Clients /\ t \in Starters)
  BY DEF Transactions, SubmissionAssumption
<1> DEFINE Freed(x) == [x EXCEPT !.writer = Nobody, !.draft = x.source]
<1>2. ASSUME NEW e \in Experiments
      PROVE  /\ experiments[e].writer # t => experiments'[e] = experiments[e]
             /\ experiments[e].writer = t /\ experiments[e].state = "inserted" =>
                  experiments'[e] = NoExperiment
             /\ experiments[e].writer = t /\ experiments[e].state # "inserted" =>
                  experiments'[e] = Freed(experiments[e])
  <2>1. experiments' =
          [i \in Experiments |->
             IF experiments[i].writer # t THEN experiments[i]
             ELSE IF experiments[i].state = "inserted" THEN NoExperiment
             ELSE Freed(experiments[i])]
    BY DEF RollBack
  <2> HIDE DEF Freed
  <2> QED BY <2>1
<1>3. ASSUME NEW j \in Jobs
      PROVE  jobs'[j] = IF jobs[j].writer = t THEN NoJobRow ELSE jobs[j]
  BY DEF RollBack
<1>4. ASSUME NEW e \in Experiments, experiments[e].writer = t, experiments[e].state # "inserted"
      PROVE  /\ experiments'[e] \in ExperimentRow /\ experiments'[e].writer = Nobody
             /\ experiments'[e].state = experiments[e].state
             /\ experiments'[e].key = experiments[e].key
             /\ experiments'[e].payload = experiments[e].payload
             /\ experiments'[e].source = experiments[e].source
             /\ experiments'[e].draft = experiments[e].source
  <2>1. experiments[e] \in ExperimentRow
    BY RowTypes
  <2>2. experiments'[e] = Freed(experiments[e])
    BY <1>2, <1>4
  <2> QED BY <2>1, <2>2 DEF ExperimentRow
<1> HIDE DEF Freed
<1>5. /\ NoExperiment \in ExperimentRow /\ NoExperiment.state = "absent"
      /\ NoExperiment.writer = Nobody /\ NoExperiment.source = NoJob /\ NoExperiment.draft = NoJob
      /\ NoJobRow \in JobRow /\ NoJobRow.state = "absent" /\ NoJobRow.writer = Nobody
      /\ NoJobRow.kind = "analysis"
  BY DEF NoExperiment, ExperimentRow, NoJobRow, JobRow
<1>6. \A e \in Experiments : experiments'[e] \in ExperimentRow /\ experiments'[e].writer # t
  BY <1>1, <1>2, <1>4, <1>5, RowTypes
<1>7. \A j \in Jobs : jobs'[j] \in JobRow /\ jobs'[j].writer # t
  BY <1>1, <1>3, <1>5, RowTypes
<1>8. Frame(t)
  <2>1. ASSUME NEW e \in Experiments PROVE ExperimentFrame(t, e)
    BY <1>2, <1>4 DEF ExperimentFrame
  <2>2. ASSUME NEW j \in Jobs PROVE JobFrame(t, j)
    <3>1. jobs[j].state = "committed" => jobs[j].writer = Nobody
      BY DEF SubInv, JobInv
    <3> QED BY <1>1, <1>3, <3>1 DEF JobFrame
  <2> QED BY <2>1, <2>2 DEF Frame
<1>9. SubmissionTypeOK'
  <2>1. experiments' \in [Experiments -> ExperimentRow] /\ jobs' \in [Jobs -> JobRow]
    BY <1>6, <1>7 DEF RollBack
  <2>2. \A e \in Experiments :
          experiments'[e].writer \notin {t, Nobody} => experiments'[e].writer = experiments[e].writer
    BY <1>2, <1>4, <1>5
  <2>3. \A j \in Jobs : jobs'[j].writer \notin {t, Nobody} => jobs'[j].writer = jobs[j].writer
    BY <1>3, <1>5
  <2>4. t \in Starters => session'[t] \in StarterState
    BY DEF Off, StarterState
  <2> QED
    BY <1>6, <1>7, <1>8, <2>1, <2>2, <2>3, <2>4, TypesKeep
<1>10. UniqueKeys'
  BY <1>2, <1>4, <1>5, UniqueKeysKeep
<1>11. OneWriter'
  BY <1>3, <1>5, OneWriterKeeps
<1>12. ASSUME NEW e \in Experiments PROVE ExperimentInv(e)'
  <2>1. ExperimentInv(e) /\ experiments[e] \in ExperimentRow
    BY RowTypes DEF SubInv
  <2>2. CASE experiments[e].writer # t
    BY <1>2, <1>8, <2>2, ExperimentKeeps
  <2>3. CASE experiments[e].writer = t /\ experiments[e].state = "inserted"
    <3>1. experiments'[e] = NoExperiment
      BY <1>2, <2>3
    <3> QED BY <1>5, <3>1 DEF ExperimentInv, SubmissionAssumption
  <2>4. CASE experiments[e].writer = t /\ experiments[e].state # "inserted"
    <3>1. experiments[e].state = "committed"
      BY <1>1, <2>1, <2>4 DEF ExperimentInv, ExperimentRow, NoExperiment
    <3>2. experiments[e].source # NoJob =>
            /\ experiments[e].source \in Jobs /\ jobs'[experiments[e].source] = jobs[experiments[e].source]
      BY <1>8, <2>1 DEF ExperimentInv, ExperimentRow, Frame, JobFrame
    <3> QED
      BY <1>4, <2>1, <2>4, <3>1, <3>2 DEF ExperimentInv, SubmissionAssumption
  <2> QED BY <2>2, <2>3, <2>4
<1>13. ASSUME NEW j \in Jobs PROVE JobInv(j)'
  <2>1. JobInv(j) /\ jobs[j] \in JobRow
    BY RowTypes DEF SubInv
  <2>2. CASE jobs[j].writer = t
    BY <1>3, <1>5, <2>2 DEF JobInv
  <2>3. CASE jobs[j].writer # t
    <3>1. jobs[j].state = "inserted" => experiments'[jobs[j].payload].source = NoJob
      BY <1>2, <1>4, <1>5, <2>1 DEF JobInv
    <3> QED BY <1>3, <1>8, <2>3, <3>1, JobKeeps
  <2> QED BY <2>2, <2>3
<1>14. t \in Clients => ClientInv(t)' /\ AnswerAgrees(t)'
  BY DEF ClientInv, AnswerAgrees, Preparing
<1>15. t \in Starters => StarterInv(t)'
  BY DEF StarterInv, Off
<1> QED
  BY <1>8, <1>9, <1>10, <1>11, <1>12, <1>13, <1>14, <1>15, InvariantKeeps

\* A client hears of the IntegrityError.
LEMMA ToldErrorKeeps ==
  ASSUME SubmissionAssumption, SubInv, NEW c \in Clients, RollBack(c),
         NEW answer \in {"none", "error"}, Answered(c, answer, NoJob),
         answer = "error" => session[c].kind = "experiment"
  PROVE  SubInv'
<1>1. c \in Transactions /\ c \notin Starters /\ session[c] \in ClientState
  BY RowTypes DEF Transactions, SubmissionAssumption
<1>2. session' = [session EXCEPT ![c] = Told(session[c], answer, NoJob)]
  BY DEF Answered
<1>3. SameSessions(c) /\ session'[c] = Told(session[c], answer, NoJob)
  BY <1>1, <1>2, SessionMoves
<1>4. /\ session'[c] \in ClientState /\ session'[c].at = "idle"
      /\ session'[c].answer = answer /\ session'[c].kind = session[c].kind
  BY <1>1, <1>3 DEF ClientState, Told, Asking, Answers
<1> QED
  BY <1>1, <1>3, <1>4, RollBackKeeps
\* A request that has made its record.
Created(s, e) == [s EXCEPT !.at = "find", !.record = e]

LEMMA RecordIsKept ==
  ASSUME NEW s \in ClientState, NEW e \in Experiments
  PROVE  /\ Created(s, e) \in ClientState
         /\ Created(s, e).at = "find" /\ Created(s, e).record = e
         /\ Created(s, e).kind = s.kind /\ Created(s, e).key = s.key
         /\ Created(s, e).payload = s.payload /\ Created(s, e).source = s.source
         /\ Created(s, e).answer = s.answer
BY DEF ClientState, Created

\* The row that experiments.create flushes.
LEMMA NewExperimentKeeps ==
  ASSUME SubmissionAssumption, SubInv, NEW c \in Clients, session[c].at = "create",
         ExperimentsWith(session[c].key) = {}, InsertingExperiment(c, session[c].key) = {},
         NEW e \in Experiments, experiments[e].state = "absent",
         experiments' = [experiments EXCEPT ![e] =
           [state |-> "inserted", writer |-> c, key |-> session[c].key,
            payload |-> session[c].payload, active |-> TRUE,
            source |-> NoJob, draft |-> NoJob]],
         session' = [session EXCEPT ![c].at = "find", ![c].record = e],
         UNCHANGED jobs
  PROVE  SubInv'
<1> DEFINE s == session[c]
           new == [state |-> "inserted", writer |-> c, key |-> session[c].key,
                   payload |-> session[c].payload, active |-> TRUE,
                   source |-> NoJob, draft |-> NoJob]
<1>1. /\ c \in Transactions /\ c # Nobody /\ c \notin Starters
      /\ s \in ClientState /\ ClientInv(c)
  BY RowTypes DEF Transactions, SubInv, SubmissionAssumption
<1>2. s.kind = "experiment" /\ s.answer = "none" /\ s.source = NoJob
  BY <1>1 DEF ClientInv
<1>3. /\ \A x \in Experiments : experiments[x].writer # c
      /\ \A i \in Jobs : jobs[i].writer # c
  BY NothingWritten DEF Preparing
<1>4. experiments[e].writer = Nobody
  BY DEF SubInv, ExperimentInv, NoExperiment
<1>5. /\ new \in ExperimentRow /\ new.state = "inserted" /\ new.writer = c
      /\ new.key = s.key /\ new.payload = s.payload /\ new.source = NoJob /\ new.draft = NoJob
  BY <1>1 DEF ExperimentRow, ClientState
<1> HIDE DEF new
<1>6. /\ experiments' \in [Experiments -> ExperimentRow] /\ experiments'[e] = new
      /\ \A x \in Experiments \ {e} : experiments'[x] = experiments[x]
  <2>1. experiments \in [Experiments -> ExperimentRow] /\ experiments' = [experiments EXCEPT ![e] = new]
    BY DEF SubInv, SubmissionTypeOK, new
  <2> QED BY <1>5, <2>1
<1>7. SameSessions(c) /\ session'[c] = Created(s, e)
  BY <1>1 DEF SubInv, SubmissionTypeOK, SameSessions, Created
<1>8. session'[c] \in ClientState /\ session'[c].at = "find" /\ session'[c].record = e
  BY <1>1, <1>7, RecordIsKept
<1>9. /\ session'[c].kind = s.kind /\ session'[c].key = s.key
      /\ session'[c].payload = s.payload /\ session'[c].source = s.source
      /\ session'[c].answer = s.answer
  BY <1>1, <1>7, RecordIsKept
<1>10. Frame(c)
  BY <1>4, <1>6, <1>7 DEF Frame, ExperimentFrame, JobFrame
<1>11. SubmissionTypeOK'
  <2>1. jobs' \in [Jobs -> JobRow]
    BY DEF SubInv, SubmissionTypeOK
  <2>2. \A x \in Experiments :
          experiments'[x].writer \notin {c, Nobody} => experiments'[x].writer = experiments[x].writer
    BY <1>5, <1>6
  <2> QED BY <1>1, <1>3, <1>6, <1>8, <1>10, <2>1, <2>2, TypesKeep
<1>12. OneWriter'
  BY OneWriterKeeps
<1>13. UniqueKeys'
  <2>1. ASSUME NEW x \in Experiments, x # e, experiments[x].state # "absent",
               experiments[x].key = s.key, s.key # NoKey
        PROVE  FALSE
    <3>1. experiments[x] \in ExperimentRow
      BY RowTypes
    <3>2. CASE experiments[x].state = "committed"
      BY <2>1, <3>2 DEF ExperimentsWith
    <3>3. CASE experiments[x].state = "inserted"
      <4>1. experiments[x].writer # c
        BY <1>3
      <4> QED BY <2>1, <3>3, <4>1 DEF InsertingExperiment
    <3> QED BY <2>1, <3>1, <3>2, <3>3 DEF ExperimentRow
  <2>2. ASSUME NEW x \in Experiments, NEW y \in Experiments,
               experiments'[x].state # "absent", experiments'[y].state # "absent",
               experiments'[x].key # NoKey, experiments'[x].key = experiments'[y].key
        PROVE  x = y
    <3>1. CASE x = e
      BY <1>5, <1>6, <2>1, <2>2, <3>1
    <3>2. CASE y = e
      BY <1>5, <1>6, <2>1, <2>2, <3>2
    <3>3. CASE x # e /\ y # e
      BY <1>6, <2>2, <3>3 DEF SubInv, UniqueKeys
    <3> QED BY <3>1, <3>2, <3>3
  <2> QED BY <2>2 DEF UniqueKeys
<1>14. ASSUME NEW x \in Experiments PROVE ExperimentInv(x)'
  <2>1. CASE x = e
    BY <1>1, <1>5, <1>6, <1>8, <2>1 DEF ExperimentInv, Preparing
  <2>2. CASE x # e
    BY <1>1, <1>3, <1>6, <1>10, <2>2, ExperimentKeeps
  <2> QED BY <2>1, <2>2
<1>15. ASSUME NEW i \in Jobs PROVE JobInv(i)'
  <2>1. jobs[i].state = "inserted" => experiments'[jobs[i].payload].source = NoJob
    <3>1. jobs[i].state = "inserted" =>
            jobs[i].payload \in Experiments /\ experiments[jobs[i].payload].source = NoJob
      BY DEF SubInv, JobInv
    <3> QED BY <1>5, <1>6, <3>1
  <2> QED BY <1>1, <1>3, <1>10, <2>1, JobKeeps
<1>16. ClientInv(c)'
  BY <1>2, <1>5, <1>6, <1>8, <1>9 DEF ClientInv, Preparing
<1>17. AnswerAgrees(c)'
  BY <1>2, <1>9 DEF AnswerAgrees
<1> QED
  BY <1>1, <1>10, <1>11, <1>12, <1>13, <1>14, <1>15, <1>16, <1>17, InvariantKeeps

LEMMA InsertExperimentKeeps ==
  ASSUME SubmissionAssumption, SubInv, NEW c \in Clients, InsertExperiment(c)
  PROVE  SubInv'
<1>1. session[c].at = "create" /\ InsertingExperiment(c, session[c].key) = {}
  BY DEF InsertExperiment
<1>2. CASE ExperimentsWith(session[c].key) # {}
  <2>1. RollBack(c) /\ Answered(c, "error", NoJob)
    BY <1>2 DEF InsertExperiment
  <2>2. session[c].kind = "experiment"
    BY <1>1 DEF SubInv, ClientInv
  <2> QED BY <2>1, <2>2, ToldErrorKeeps
<1>3. CASE ExperimentsWith(session[c].key) = {}
  <2>1. PICK e \in Unused(experiments, Experiments) :
          /\ experiments' = [experiments EXCEPT ![e] =
               [state |-> "inserted", writer |-> c, key |-> session[c].key,
                payload |-> session[c].payload, active |-> TRUE,
                source |-> NoJob, draft |-> NoJob]]
          /\ session' = [session EXCEPT ![c].at = "find", ![c].record = e]
          /\ UNCHANGED jobs
    BY <1>3 DEF InsertExperiment
  <2>2. e \in Experiments /\ experiments[e].state = "absent"
    BY DEF Unused
  <2> QED
    BY <1>1, <1>3, <2>1, <2>2, NewExperimentKeeps
<1> QED
  BY <1>2, <1>3
\* A new job for an experiment that has none and gets none from anybody else.
LEMMA NewRecordEffect ==
  ASSUME SubmissionAssumption, SubInv, NEW t \in Transactions,
         NEW j \in Jobs, jobs[j].state = "absent",
         NEW e \in Experiments, \A i \in Jobs : jobs[i].state = "inserted" => jobs[i].payload # e,
         NewRecord(j, t, "experiment", experiments[e].key, e)
  PROVE  /\ jobs' \in [Jobs -> JobRow] /\ OneWriter'
         /\ jobs'[j].state = "inserted" /\ jobs'[j].writer = t /\ jobs'[j].kind = "experiment"
         /\ jobs'[j].key = experiments[e].key /\ jobs'[j].payload = e
         /\ \A i \in Jobs \ {j} : jobs'[i] = jobs[i]
         /\ \A i \in Jobs : JobFrame(t, i)
<1> DEFINE new == [state |-> "inserted", writer |-> t, kind |-> "experiment",
                   key |-> experiments[e].key, payload |-> e]
<1>1. experiments[e].key \in Keys \cup {NoKey}
  BY RowTypes DEF ExperimentRow
<1>2. /\ new \in JobRow /\ new.state = "inserted" /\ new.writer = t /\ new.kind = "experiment"
      /\ new.key = experiments[e].key /\ new.payload = e
  BY <1>1 DEF JobRow, Transactions
<1>3. jobs \in [Jobs -> JobRow] /\ jobs' = [jobs EXCEPT ![j] = new]
  BY DEF SubInv, SubmissionTypeOK, NewRecord
<1> HIDE DEF new
<1>4. jobs' \in [Jobs -> JobRow] /\ jobs'[j] = new /\ \A i \in Jobs \ {j} : jobs'[i] = jobs[i]
  BY <1>2, <1>3
<1>5. jobs[j].writer = Nobody
  BY DEF SubInv, JobInv
<1>6. \A i \in Jobs : JobFrame(t, i)
  BY <1>4, <1>5 DEF JobFrame
<1>7. OneWriter'
  <2>1. ASSUME NEW i \in Jobs, NEW k \in Jobs, jobs'[i].state = "inserted",
               jobs'[k].state = "inserted", jobs'[i].payload = jobs'[k].payload
        PROVE  i = k
    <3>1. CASE i # j /\ k # j
      BY <1>4, <2>1, <3>1 DEF SubInv, OneWriter
    <3>2. CASE i = j \/ k = j
      BY <1>2, <1>4, <2>1, <3>2
    <3> QED BY <3>1, <3>2
  <2> QED BY <2>1 DEF OneWriter
<1> QED
  BY <1>2, <1>4, <1>6, <1>7

\* A request that has its job.
Linking(s, j) == [s EXCEPT !.at = "link", !.job = j]

LEMMA JobIsKept ==
  ASSUME NEW s \in ClientState, NEW j \in Jobs
  PROVE  /\ Linking(s, j) \in ClientState
         /\ Linking(s, j).at = "link" /\ Linking(s, j).job = j
         /\ Linking(s, j).kind = s.kind /\ Linking(s, j).key = s.key
         /\ Linking(s, j).payload = s.payload /\ Linking(s, j).source = s.source
         /\ Linking(s, j).answer = s.answer /\ Linking(s, j).record = s.record
BY DEF ClientState, Linking

LEMMA InsertJobKeeps ==
  ASSUME SubmissionAssumption, SubInv, NEW c \in Clients, InsertJob(c)
  PROVE  SubInv'
<1> DEFINE s == session[c]
           e == s.record
<1>1. /\ c \in Transactions /\ c # Nobody /\ c \notin Starters
      /\ s \in ClientState /\ ClientInv(c) /\ s.at = "insert"
      /\ InsertingJob(c, "experiment", s.key) = {}
  BY RowTypes DEF Transactions, SubInv, SubmissionAssumption, InsertJob
<1>2. /\ s.kind = "experiment" /\ s.answer = "none" /\ e \in Experiments
      /\ experiments[e].key = s.key /\ experiments[e].payload = s.payload
      /\ \/ experiments[e].state = "inserted" /\ experiments[e].writer = c /\ s.source = NoJob
         \/ /\ experiments[e].state = "committed" /\ s.key # NoKey
            /\ s.source \in {NoJob, experiments[e].source}
  BY <1>1 DEF ClientInv, Preparing
<1>3. /\ \A x \in Experiments : experiments[x].writer = c => x = e /\ experiments[x].state = "inserted"
      /\ \A i \in Jobs : jobs[i].writer # c
  BY <1>1, ClientsRows
<1>4. CASE JobsWith("experiment", s.key) # {}
  <2>1. RollBack(c) /\ Answered(c, "error", NoJob)
    BY <1>4 DEF InsertJob
  <2> QED BY <1>2, <2>1, ToldErrorKeeps
<1>5. CASE JobsWith("experiment", s.key) = {}
  <2>1. PICK j \in FreeJobs :
          /\ NewRecord(j, c, "experiment", s.key, s.record)
          /\ session' = [session EXCEPT ![c].at = "link", ![c].job = j]
          /\ UNCHANGED experiments
    BY <1>5 DEF InsertJob
  <2>2. j \in Jobs /\ jobs[j].state = "absent"
    BY DEF FreeJobs, Unused
  <2>3. experiments[e].source = NoJob
    <3>1. CASE experiments[e].state = "inserted"
      BY <1>2, <3>1 DEF SubInv, ExperimentInv
    <3>2. ASSUME experiments[e].source # NoJob, s.key # NoKey
          PROVE  FALSE
      <4>1. /\ experiments[e].source \in Jobs /\ jobs[experiments[e].source].state = "committed"
            /\ jobs[experiments[e].source].kind = "experiment"
            /\ jobs[experiments[e].source].payload = e
        BY <1>2, <3>2, RowTypes DEF SubInv, ExperimentInv, ExperimentRow
      <4>2. jobs[experiments[e].source].key = s.key
        BY <1>2, <4>1 DEF SubInv, JobInv
      <4> QED BY <1>5, <3>2, <4>1, <4>2 DEF JobsWith
    <3> QED BY <1>2, <3>1, <3>2
  <2>4. ASSUME NEW i \in Jobs, jobs[i].state = "inserted", jobs[i].payload = e
        PROVE  FALSE
    <3>1. /\ jobs[i].kind = "experiment" /\ jobs[i].key = s.key /\ jobs[i].writer # c
          /\ \/ /\ jobs[i].writer \in Clients /\ session[jobs[i].writer].at \in {"link", "commit"}
                /\ session[jobs[i].writer].record = e
             \/ jobs[i].writer \in Starters /\ experiments[e].writer = jobs[i].writer
      BY <1>2, <1>3, <2>4 DEF SubInv, JobInv
    <3>2. CASE s.key # NoKey
      BY <1>1, <2>4, <3>1, <3>2 DEF InsertingJob
    <3>3. CASE s.key = NoKey
      <4>1. experiments[e].state = "inserted" /\ experiments[e].writer = c
        BY <1>2, <3>3
      <4>2. jobs[i].writer \in Clients
        BY <1>1, <3>1, <4>1
      <4>3. /\ session[jobs[i].writer].at \in {"link", "commit"}
            /\ session[jobs[i].writer].record = e
            /\ ClientInv(jobs[i].writer)
        BY <1>1, <3>1, <4>2, <4>1 DEF SubInv
      <4> QED BY <3>1, <4>1, <4>3 DEF ClientInv, Preparing
    <3> QED BY <3>2, <3>3
  <2>5. /\ jobs' \in [Jobs -> JobRow] /\ OneWriter'
        /\ jobs'[j].state = "inserted" /\ jobs'[j].writer = c /\ jobs'[j].kind = "experiment"
        /\ jobs'[j].key = s.key /\ jobs'[j].payload = e
        /\ \A i \in Jobs \ {j} : jobs'[i] = jobs[i]
        /\ \A i \in Jobs : JobFrame(c, i)
    BY <1>1, <1>2, <2>1, <2>2, <2>4, NewRecordEffect
  <2>6. SameSessions(c) /\ session'[c] = Linking(s, j)
    BY <1>1, <2>1 DEF SubInv, SubmissionTypeOK, SameSessions, Linking
  <2>7. /\ session'[c] \in ClientState
        /\ session'[c].at = "link" /\ session'[c].job = j
        /\ session'[c].kind = s.kind /\ session'[c].key = s.key
        /\ session'[c].payload = s.payload /\ session'[c].source = s.source
        /\ session'[c].answer = s.answer /\ session'[c].record = e
    BY <1>1, <2>2, <2>6, JobIsKept
  <2>8. Frame(c)
    BY <2>1, <2>5, <2>6 DEF Frame, ExperimentFrame
  <2>9. SubmissionTypeOK'
    <3>1. experiments' \in [Experiments -> ExperimentRow]
      BY <2>1 DEF SubInv, SubmissionTypeOK
    <3>2. \A i \in Jobs : jobs'[i].writer \notin {c, Nobody} => jobs'[i].writer = jobs[i].writer
      BY <2>5
    <3> QED BY <1>1, <2>1, <2>5, <2>7, <2>8, <3>1, <3>2, TypesKeep
  <2>10. UniqueKeys'
    BY <2>1, UniqueKeysKeep
  <2>11. ASSUME NEW x \in Experiments PROVE ExperimentInv(x)'
    <3>1. CASE experiments[x].writer = c
      <4>1. x = e /\ experiments[x].state = "inserted"
        BY <1>3, <3>1
      <4>2. ExperimentInv(x)
        BY DEF SubInv
      <4> QED
        BY <1>1, <2>1, <2>3, <2>7, <3>1, <4>1, <4>2 DEF ExperimentInv, Preparing
    <3>2. CASE experiments[x].writer # c
      BY <1>1, <2>1, <2>8, <3>2, ExperimentKeeps
    <3> QED BY <3>1, <3>2
  <2>12. ASSUME NEW i \in Jobs PROVE JobInv(i)'
    <3>1. CASE i = j
      BY <1>1, <1>2, <2>1, <2>3, <2>5, <2>7, <3>1 DEF JobInv
    <3>2. CASE i # j
      <4>1. jobs[i].state = "inserted" => experiments'[jobs[i].payload].source = NoJob
        BY <2>1 DEF SubInv, JobInv
      <4> QED BY <1>1, <1>3, <2>5, <2>8, <3>2, <4>1, JobKeeps
    <3> QED BY <3>1, <3>2
  <2>13. ClientInv(c)'
    BY <1>1, <1>2, <2>1, <2>2, <2>5, <2>7 DEF ClientInv, Preparing
  <2>14. AnswerAgrees(c)'
    BY <1>2, <2>7 DEF AnswerAgrees
  <2> QED
    BY <1>1, <2>5, <2>8, <2>9, <2>10, <2>11, <2>12, <2>13, <2>14, InvariantKeeps
<1> QED
  BY <1>4, <1>5
-----------------------------------------------------------------------------
(* Commits *)

\* A row once its writer has committed.
Committed(x) == [x EXCEPT !.state = "committed", !.writer = Nobody, !.source = x.draft]

CommittedJob(r) == [r EXCEPT !.state = "committed", !.writer = Nobody]

LEMMA CommittedRow ==
  ASSUME NEW x \in ExperimentRow
  PROVE  /\ Committed(x) \in ExperimentRow
         /\ Committed(x).state = "committed" /\ Committed(x).writer = Nobody
         /\ Committed(x).key = x.key /\ Committed(x).payload = x.payload
         /\ Committed(x).source = x.draft /\ Committed(x).draft = x.draft
BY DEF ExperimentRow, Committed

LEMMA CommittedJobRow ==
  ASSUME NEW r \in JobRow
  PROVE  /\ CommittedJob(r) \in JobRow
         /\ CommittedJob(r).state = "committed" /\ CommittedJob(r).writer = Nobody
         /\ CommittedJob(r).kind = r.kind /\ CommittedJob(r).key = r.key
         /\ CommittedJob(r).payload = r.payload
BY DEF JobRow, CommittedJob

LEMMA CommittedRows ==
  ASSUME NEW t, NEW rows
  PROVE  LET all == CommittedExperiments(rows, t)
         IN /\ all = [e \in Experiments |-> all[e]]
            /\ \A e \in Experiments :
                 all[e] = IF rows[e].writer = t THEN Committed(rows[e]) ELSE rows[e]
<1>1. CommittedExperiments(rows, t) =
        [x \in Experiments |-> IF rows[x].writer = t THEN Committed(rows[x]) ELSE rows[x]]
  BY DEF CommittedExperiments, Committed
<1> QED
  BY <1>1

LEMMA CommittedJobRows ==
  ASSUME NEW t, NEW rows
  PROVE  LET all == CommittedJobs(rows, t)
         IN /\ all = [j \in Jobs |-> all[j]]
            /\ \A j \in Jobs :
                 all[j] = IF rows[j].writer = t THEN CommittedJob(rows[j]) ELSE rows[j]
<1>1. CommittedJobs(rows, t) =
        [i \in Jobs |-> IF rows[i].writer = t THEN CommittedJob(rows[i]) ELSE rows[i]]
  BY DEF CommittedJobs, CommittedJob
<1> QED
  BY <1>1

\* The record as the link leaves it.
LinkedRow(x, c, s) == Linked([x EXCEPT !.writer = c], s)

LEMMA LinkedColumns ==
  ASSUME NEW x \in ExperimentRow, NEW c \in Transactions, NEW s \in ClientState, s.source = NoJob
  PROVE  /\ LinkedRow(x, c, s) \in ExperimentRow /\ LinkedRow(x, c, s).writer = c
         /\ LinkedRow(x, c, s).key = x.key /\ LinkedRow(x, c, s).payload = x.payload
         /\ LinkedRow(x, c, s).state = x.state /\ LinkedRow(x, c, s).source = x.source
         /\ LinkedRow(x, c, s).draft = s.job
<1> DEFINE y == [x EXCEPT !.writer = c]
<1>1. /\ y \in ExperimentRow /\ y.writer = c /\ y.key = x.key /\ y.payload = x.payload
      /\ y.state = x.state /\ y.source = x.source
  BY DEF ExperimentRow, Transactions
<1>2. LinkedRow(x, c, s) = [y EXCEPT !.draft = s.job]
  BY DEF LinkedRow, Linked
<1> HIDE DEF y
<1>3. s.job \in Jobs \cup {NoJob}
  BY DEF ClientState
<1> QED
  BY <1>1, <1>2, <1>3 DEF ExperimentRow

\* The job a client holds at the link and at the commit is its experiment's only one.
LEMMA HeldJob ==
  ASSUME SubmissionAssumption, SubInv, NEW c \in Clients, session[c].at \in {"link", "commit"}
  PROVE  LET s == session[c]
             x == experiments[s.record]
         IN /\ s.kind = "experiment" /\ s.record \in Experiments /\ s.job \in Jobs /\ s.job # NoJob
            /\ x.key = s.key /\ x.payload = s.payload /\ jobs[s.job].kind = "experiment"
            /\ jobs[s.job].payload = s.record /\ jobs[s.job].key = s.key
            /\ \/ /\ jobs[s.job].state = "committed"
                  /\ x.state = "committed" /\ x.source = s.job
               \/ /\ jobs[s.job].state = "inserted" /\ jobs[s.job].writer = c
                  /\ x.source = NoJob
            /\ s.source \in {NoJob, s.job}
            /\ \A i \in Jobs \ {s.job} : jobs[i].state = "inserted" => jobs[i].payload # s.record
<1> DEFINE s == session[c]
           e == s.record
           x == experiments[e]
<1>1. /\ s.kind = "experiment" /\ e \in Experiments /\ s.job \in Jobs /\ s.job # NoJob
      /\ x.key = s.key /\ x.payload = s.payload /\ jobs[s.job].kind = "experiment"
      /\ jobs[s.job].payload = e
      /\ \/ jobs[s.job].state = "committed"
         \/ jobs[s.job].state = "inserted" /\ jobs[s.job].writer = c
      /\ \/ x.state = "inserted" /\ x.writer = c /\ s.source = NoJob
         \/ x.state = "committed" /\ s.key # NoKey /\ s.source \in {NoJob, x.source}
  BY DEF SubInv, ClientInv, Preparing, SubmissionAssumption
<1>2. JobInv(s.job)
  BY <1>1 DEF SubInv
<1>3. /\ jobs[s.job].key = s.key
      /\ jobs[s.job].state = "committed" => x.state = "committed" /\ x.source = s.job
      /\ jobs[s.job].state = "inserted" => x.source = NoJob
  BY <1>1, <1>2 DEF JobInv
<1>4. s.source \in {NoJob, s.job}
  BY <1>1, <1>3
<1>5. ASSUME NEW i \in Jobs, i # s.job, jobs[i].state = "inserted", jobs[i].payload = e
      PROVE  FALSE
  <2>1. x.source = NoJob
    BY <1>5 DEF SubInv, JobInv
  <2>2. jobs[s.job].state = "inserted"
    BY <1>1, <1>3, <2>1
  <2> QED BY <1>1, <1>5, <2>2 DEF SubInv, OneWriter
<1> QED
  BY <1>1, <1>3, <1>4, <1>5

\* A request that has flushed its link.
Flushed(s) == [s EXCEPT !.at = "commit"]

LEMMA LinkIsKept ==
  ASSUME NEW s \in ClientState
  PROVE  /\ Flushed(s) \in ClientState
         /\ Flushed(s).at = "commit" /\ Flushed(s).job = s.job
         /\ Flushed(s).kind = s.kind /\ Flushed(s).key = s.key
         /\ Flushed(s).payload = s.payload /\ Flushed(s).source = s.source
         /\ Flushed(s).answer = s.answer /\ Flushed(s).record = s.record
BY DEF ClientState, Flushed

\* What the link leaves until the commit.
LEMMA LinkEffect ==
  ASSUME SubmissionAssumption, SubInv, NEW c \in Clients, Link(c)
  PROVE  LET s == session[c]
             x == experiments[s.record]
             y == experiments'[s.record]
         IN /\ s.record \in Experiments /\ UNCHANGED jobs
            /\ y \in ExperimentRow /\ y.state = x.state /\ y.key = x.key
            /\ y.payload = x.payload /\ y.source = x.source
            /\ IF s.source = NoJob
               THEN y.writer = c /\ y.draft = s.job /\ x.writer \in {c, Nobody}
               ELSE y = x /\ x.writer # c
            /\ \A e \in Experiments \ {s.record} :
                 experiments'[e] = experiments[e] /\ experiments[e].writer # c
            /\ experiments' \in [Experiments -> ExperimentRow]
            /\ SameSessions(c) /\ session'[c] = Flushed(s)
<1> DEFINE s == session[c]
           r == s.record
           x == experiments[r]
<1>1. /\ c \in Transactions /\ c # Nobody /\ s \in ClientState
      /\ s.at = "link" /\ r \in Experiments /\ x \in ExperimentRow
      /\ experiments \in [Experiments -> ExperimentRow]
  <2>1. s.at = "link"
    BY DEF Link
  <2>2. r \in Experiments
    BY <2>1, HeldJob
  <2> QED
    BY <2>1, <2>2, RowTypes DEF Transactions, SubmissionAssumption, SubInv, SubmissionTypeOK
<1>2. s.source \in {NoJob, s.job}
  BY <1>1, HeldJob
<1>3. /\ s.source = NoJob => ~LockedByOther(c, r)
      /\ experiments' =
           IF s.source = NoJob THEN [experiments EXCEPT ![r] = LinkedRow(x, c, s)] ELSE experiments
      /\ session' = [session EXCEPT ![c].at = "commit"]
      /\ UNCHANGED jobs
  BY <1>2 DEF Link, LinkedRow
<1>4. \A e \in Experiments : experiments[e].writer = c =>
        e = r /\ experiments[e].state = "inserted" /\ experiments[e].source = NoJob
  BY <1>1, ClientsRows
<1>5. SameSessions(c) /\ session'[c] = Flushed(s)
  BY <1>1, <1>3 DEF SubInv, SubmissionTypeOK, SameSessions, Flushed
<1>6. CASE s.source = NoJob
  <2>1. /\ LinkedRow(x, c, s) \in ExperimentRow /\ LinkedRow(x, c, s).writer = c
        /\ LinkedRow(x, c, s).key = x.key /\ LinkedRow(x, c, s).payload = x.payload
        /\ LinkedRow(x, c, s).state = x.state /\ LinkedRow(x, c, s).source = x.source
        /\ LinkedRow(x, c, s).draft = s.job
    BY <1>1, <1>6, LinkedColumns
  <2>2. PICK y : y = LinkedRow(x, c, s)
    OBVIOUS
  <2>3. experiments' = [experiments EXCEPT ![r] = y]
    BY <1>3, <1>6, <2>2
  <2>4. /\ experiments'[r] = y /\ \A e \in Experiments \ {r} : experiments'[e] = experiments[e]
        /\ experiments' \in [Experiments -> ExperimentRow]
    BY <1>1, <2>1, <2>2, <2>3
  <2>5. x.writer \in {c, Nobody}
    BY <1>3, <1>6 DEF LockedByOther
  <2> QED BY <1>1, <1>3, <1>4, <1>5, <1>6, <2>1, <2>2, <2>4, <2>5
<1>7. CASE s.source # NoJob
  <2>1. experiments' = experiments
    BY <1>3, <1>7
  <2>2. x.state = "committed"
    BY <1>1, <1>7 DEF SubInv, ClientInv, Preparing
  <2>3. x.writer # c
    BY <1>1, <1>4, <2>2
  <2> QED BY <1>1, <1>3, <1>4, <1>5, <1>7, <2>1, <2>3
<1> QED
  BY <1>6, <1>7

LEMMA LinkKeeps ==
  ASSUME SubmissionAssumption, SubInv, NEW c \in Clients, Link(c)
  PROVE  SubInv'
<1> DEFINE s == session[c]
<1>0. PICK r, j : r = s.record /\ j = s.job
  OBVIOUS
<1>1. /\ c \in Transactions /\ c # Nobody /\ c \notin Starters /\ s \in ClientState
      /\ s.at = "link" /\ ClientInv(c)
  BY RowTypes DEF Transactions, SubmissionAssumption, Link, SubInv
<1>2. /\ s.kind = "experiment" /\ r \in Experiments /\ j \in Jobs /\ j # NoJob
      /\ experiments[r].key = s.key /\ experiments[r].payload = s.payload
      /\ jobs[j].kind = "experiment" /\ jobs[j].payload = r
      /\ \/ jobs[j].state = "committed"
         \/ jobs[j].state = "inserted" /\ jobs[j].writer = c
  BY <1>0, <1>1, HeldJob
<1>3. /\ UNCHANGED jobs
      /\ experiments'[r] \in ExperimentRow /\ experiments'[r].state = experiments[r].state
      /\ experiments'[r].key = experiments[r].key
      /\ experiments'[r].payload = experiments[r].payload
      /\ experiments'[r].source = experiments[r].source
      /\ IF s.source = NoJob
         THEN /\ experiments'[r].writer = c /\ experiments'[r].draft = j
              /\ experiments[r].writer \in {c, Nobody}
         ELSE experiments'[r] = experiments[r] /\ experiments[r].writer # c
      /\ \A e \in Experiments \ {r} :
           experiments'[e] = experiments[e] /\ experiments[e].writer # c
      /\ experiments' \in [Experiments -> ExperimentRow]
      /\ SameSessions(c) /\ session'[c] = Flushed(s)
  BY <1>0, LinkEffect
<1>4. /\ session'[c] \in ClientState /\ session'[c].at = "commit"
      /\ session'[c].kind = s.kind /\ session'[c].key = s.key
      /\ session'[c].payload = s.payload /\ session'[c].source = s.source
      /\ session'[c].answer = s.answer /\ session'[c].record = r /\ session'[c].job = j
  BY <1>0, <1>1, <1>3, LinkIsKept
<1>5. Frame(c)
  <2>1. ASSUME NEW e \in Experiments PROVE ExperimentFrame(c, e)
    <3>1. CASE e = r
      BY <1>3, <3>1 DEF ExperimentFrame
    <3>2. CASE e # r
      BY <1>3, <3>2 DEF ExperimentFrame
    <3> QED BY <3>1, <3>2
  <2> QED BY <1>3, <2>1 DEF Frame, JobFrame
<1>6. SubmissionTypeOK'
  <2>1. jobs' \in [Jobs -> JobRow]
    BY <1>3 DEF SubInv, SubmissionTypeOK
  <2>2. \A e \in Experiments :
          experiments'[e].writer \notin {c, Nobody} => experiments'[e].writer = experiments[e].writer
    BY <1>3
  <2>3. session'[c].at \notin {"idle", "off", "serving"}
    BY <1>4
  <2>4. \A i \in Jobs : jobs'[i].writer \notin {c, Nobody} => jobs'[i].writer = jobs[i].writer
    BY <1>3
  <2> QED BY <1>1, <1>3, <1>4, <1>5, <2>1, <2>2, <2>3, <2>4, TypesKeep
<1>7. OneWriter'
  BY <1>3, OneWriterKeeps
<1>8. UniqueKeys'
  BY <1>3, UniqueKeysKeep
<1>9. ASSUME NEW e \in Experiments PROVE ExperimentInv(e)'
  <2>1. CASE e = r /\ s.source = NoJob
    <3>1. ExperimentInv(r) /\ experiments[r] \in ExperimentRow
      BY <1>2, RowTypes DEF SubInv
    <3>2. experiments[r].state # "absent"
      BY <1>0, <1>1 DEF ClientInv, Preparing
    <3>3. experiments[r].state = "inserted" => experiments[r].source = NoJob
      BY <3>1 DEF ExperimentInv
    <3>4. experiments[r].source # NoJob =>
            /\ experiments[r].state = "committed"
            /\ jobs[experiments[r].source].state = "committed"
            /\ jobs[experiments[r].source].kind = "experiment"
            /\ jobs[experiments[r].source].payload = r
      BY <3>1 DEF ExperimentInv
    <3> QED
      BY <1>1, <1>3, <1>4, <2>1, <3>2, <3>3, <3>4 DEF ExperimentInv, Preparing
  <2>2. CASE e = r /\ s.source # NoJob
    BY <1>1, <1>3, <1>5, <2>2, ExperimentKeeps
  <2>3. CASE e # r
    BY <1>1, <1>3, <1>5, <2>3, ExperimentKeeps
  <2> QED BY <2>1, <2>2, <2>3
<1>10. ASSUME NEW i \in Jobs PROVE JobInv(i)'
  <2>1. JobInv(i) /\ jobs[i] \in JobRow
    BY RowTypes DEF SubInv
  <2>2. jobs[i].state = "inserted" =>
          jobs[i].payload \in Experiments /\ experiments'[jobs[i].payload].source = NoJob
    BY <1>3, <2>1 DEF JobInv
  <2>3. CASE jobs[i].writer = c
    <3>1. /\ jobs[i].state = "inserted" /\ jobs[i].kind = "experiment"
          /\ i = j /\ jobs[i].payload = r
      BY <1>0, <2>3, ClientsRows
    <3>2. jobs[i].key = experiments[r].key
      BY <2>1, <3>1 DEF JobInv
    <3> QED BY <1>1, <1>2, <1>3, <1>4, <2>2, <2>3, <3>1, <3>2 DEF JobInv
  <2>4. CASE jobs[i].writer # c
    BY <1>1, <1>3, <1>5, <2>2, <2>4, JobKeeps
  <2> QED BY <2>3, <2>4
<1>11. ClientInv(c)'
  <2>1. \/ experiments[r].state = "inserted" /\ experiments[r].writer = c /\ s.source = NoJob
        \/ /\ experiments[r].state = "committed" /\ s.key # NoKey
           /\ s.source \in {NoJob, experiments[r].source}
    BY <1>0, <1>1 DEF ClientInv, Preparing
  <2>2. s.answer = "none"
    BY <1>1 DEF ClientInv
  <2> QED
    BY <1>2, <1>3, <1>4, <2>1, <2>2 DEF ClientInv, Preparing
<1>12. AnswerAgrees(c)'
  <2>1. s.answer = "none"
    BY <1>1 DEF ClientInv
  <2> QED BY <1>4, <2>1 DEF AnswerAgrees
<1> QED
  BY <1>1, <1>5, <1>6, <1>7, <1>8, <1>9, <1>10, <1>11, <1>12, InvariantKeeps

\* What the commit leaves.
LEMMA CommitRequestEffect ==
  ASSUME SubmissionAssumption, SubInv, NEW c \in Clients, CommitRequest(c)
  PROVE  LET s == session[c]
             x == experiments[s.record]
             y == experiments'[s.record]
         IN /\ y \in ExperimentRow /\ y.state = "committed"
            /\ y.key = x.key /\ y.payload = x.payload /\ y.source = s.job
            /\ \/ x.writer = c /\ y.writer = Nobody /\ y.draft = s.job
               \/ x.writer # c /\ y = x
            /\ \A e \in Experiments \ {s.record} :
                 experiments'[e] = experiments[e] /\ experiments[e].writer # c
            /\ jobs'[s.job] \in JobRow /\ jobs'[s.job].state = "committed"
            /\ jobs'[s.job].writer = Nobody /\ jobs'[s.job].kind = "experiment"
            /\ jobs'[s.job].payload = s.record /\ jobs'[s.job].key = s.key
            /\ jobs[s.job].state = "committed" => jobs'[s.job] = jobs[s.job]
            /\ jobs[s.job].writer \in {c, Nobody}
            /\ \A i \in Jobs \ {s.job} : jobs'[i] = jobs[i] /\ jobs[i].writer # c
            /\ experiments' = [e \in Experiments |-> experiments'[e]]
            /\ jobs' = [j \in Jobs |-> jobs'[j]]
            /\ Answered(c, "accepted", s.job)
<1> DEFINE s == session[c]
           r == s.record
           x == experiments[r]
<1>1. /\ c \in Transactions /\ c # Nobody /\ c \notin Starters /\ s \in ClientState
      /\ s.at = "commit" /\ r \in Experiments /\ x \in ExperimentRow
      /\ s.job \in Jobs /\ jobs[s.job] \in JobRow
  <2>1. s.at = "commit"
    BY DEF CommitRequest
  <2>2. r \in Experiments /\ s.job \in Jobs
    BY <2>1, HeldJob
  <2> QED
    BY <2>1, <2>2, RowTypes DEF Transactions, SubmissionAssumption
<1>2. /\ jobs[s.job].kind = "experiment" /\ jobs[s.job].payload = r
      /\ jobs[s.job].key = s.key /\ s.job # NoJob
      /\ \/ jobs[s.job].state = "committed" /\ x.state = "committed" /\ x.source = s.job
         \/ jobs[s.job].state = "inserted" /\ jobs[s.job].writer = c /\ x.source = NoJob
      /\ s.source \in {NoJob, s.job}
  BY <1>1, HeldJob
<1>3. /\ experiments' = CommittedExperiments(experiments, c)
      /\ jobs' = CommittedJobs(jobs, c)
      /\ Answered(c, "accepted", s.job)
  BY DEF CommitRequest
<1>4. /\ \A e \in Experiments : experiments[e].writer = c => e = r
      /\ \A i \in Jobs : jobs[i].writer = c => i = s.job
  BY <1>1, ClientsRows
<1>5. /\ \A i \in Jobs : jobs'[i] = IF jobs[i].writer = c THEN CommittedJob(jobs[i]) ELSE jobs[i]
      /\ jobs' = [j \in Jobs |-> jobs'[j]]
  BY <1>3, CommittedJobRows
<1>6. /\ jobs'[s.job] \in JobRow /\ jobs'[s.job].state = "committed"
      /\ jobs'[s.job].writer = Nobody /\ jobs'[s.job].kind = "experiment"
      /\ jobs'[s.job].payload = r /\ jobs'[s.job].key = s.key
      /\ jobs[s.job].state = "committed" => jobs'[s.job] = jobs[s.job]
      /\ jobs[s.job].writer \in {c, Nobody}
  <2>1. jobs[s.job].state = "committed" => jobs[s.job].writer = Nobody
    BY <1>1 DEF SubInv, JobInv
  <2>2. jobs[s.job].writer = c => jobs'[s.job] = CommittedJob(jobs[s.job])
    BY <1>1, <1>5
  <2>3. jobs[s.job].writer # c => jobs'[s.job] = jobs[s.job]
    BY <1>1, <1>5
  <2> QED BY <1>1, <1>2, <2>1, <2>2, <2>3, CommittedJobRow
<1>7. \A i \in Jobs \ {s.job} : jobs'[i] = jobs[i] /\ jobs[i].writer # c
  BY <1>4, <1>5
<1>8. /\ experiments' = [e \in Experiments |-> experiments'[e]]
      /\ \A e \in Experiments :
           experiments'[e] = IF experiments[e].writer = c THEN Committed(experiments[e])
                             ELSE experiments[e]
  BY <1>3, CommittedRows
<1>9. \A e \in Experiments \ {r} :
        experiments'[e] = experiments[e] /\ experiments[e].writer # c
  BY <1>4, <1>8
<1>10. s.source = NoJob => x.writer = c /\ x.draft = s.job
  BY <1>1 DEF SubInv, ClientInv
<1>11. CASE s.source = NoJob
  <2>1. experiments'[r] = Committed(x)
    BY <1>1, <1>8, <1>10, <1>11
  <2>2. /\ experiments'[r] \in ExperimentRow
        /\ experiments'[r].state = "committed" /\ experiments'[r].writer = Nobody
        /\ experiments'[r].key = x.key /\ experiments'[r].payload = x.payload
        /\ experiments'[r].source = s.job /\ experiments'[r].draft = s.job
    BY <1>1, <1>10, <1>11, <2>1, CommittedRow
  <2> QED BY <1>3, <1>5, <1>6, <1>7, <1>8, <1>9, <1>10, <1>11, <2>2
<1>12. CASE s.source # NoJob
  <2>1. x.state = "committed" /\ x.source = s.job
    BY <1>1, <1>2, <1>12 DEF SubInv, ClientInv, Preparing
  <2>2. x.writer # c
    <3>1. ExperimentInv(r)
      BY <1>1 DEF SubInv
    <3> QED BY <1>1, <1>12, <2>1, <3>1 DEF ExperimentInv
  <2>3. experiments'[r] = x
    BY <1>1, <1>8, <2>2
  <2> QED BY <1>1, <1>3, <1>5, <1>6, <1>7, <1>8, <1>9, <2>1, <2>2, <2>3
<1> QED
  BY <1>11, <1>12

LEMMA CommitRequestKeeps ==
  ASSUME SubmissionAssumption, SubInv, NEW c \in Clients, CommitRequest(c)
  PROVE  SubInv'
<1> DEFINE s == session[c]
<1>0. PICK r, j : r = s.record /\ j = s.job
  OBVIOUS
<1>1. /\ c \in Transactions /\ c # Nobody /\ c \notin Starters /\ s \in ClientState
      /\ s.at = "commit"
  BY RowTypes DEF Transactions, SubmissionAssumption, CommitRequest
<1>2. /\ s.kind = "experiment" /\ r \in Experiments /\ j \in Jobs /\ j # NoJob
      /\ experiments[r].key = s.key /\ experiments[r].payload = s.payload
      /\ \/ jobs[j].state = "committed" /\ experiments[r].source = j
         \/ experiments[r].source = NoJob
      /\ \A i \in Jobs \ {j} : jobs[i].state = "inserted" => jobs[i].payload # r
  BY <1>0, <1>1, HeldJob
<1>3. /\ experiments'[r] \in ExperimentRow /\ experiments'[r].state = "committed"
      /\ experiments'[r].key = experiments[r].key
      /\ experiments'[r].payload = experiments[r].payload /\ experiments'[r].source = j
      /\ \/ /\ experiments[r].writer = c /\ experiments'[r].writer = Nobody
            /\ experiments'[r].draft = j
         \/ experiments[r].writer # c /\ experiments'[r] = experiments[r]
      /\ \A e \in Experiments \ {r} :
           experiments'[e] = experiments[e] /\ experiments[e].writer # c
      /\ jobs'[j] \in JobRow /\ jobs'[j].state = "committed"
      /\ jobs'[j].writer = Nobody /\ jobs'[j].kind = "experiment"
      /\ jobs'[j].payload = r /\ jobs'[j].key = s.key
      /\ jobs[j].state = "committed" => jobs'[j] = jobs[j]
      /\ jobs[j].writer \in {c, Nobody}
      /\ \A i \in Jobs \ {j} : jobs'[i] = jobs[i] /\ jobs[i].writer # c
      /\ experiments' = [e \in Experiments |-> experiments'[e]]
      /\ jobs' = [i \in Jobs |-> jobs'[i]]
      /\ Answered(c, "accepted", j)
  BY <1>0, CommitRequestEffect
<1>4. SameSessions(c) /\ session'[c] = Told(s, "accepted", j)
  <2>1. session' = [session EXCEPT ![c] = Told(s, "accepted", j)]
    BY <1>3 DEF Answered
  <2> QED BY <1>1, <2>1, SessionMoves
<1>5. /\ session'[c] \in ClientState
      /\ session'[c].at = "idle" /\ session'[c].kind = "experiment" /\ session'[c].key = s.key
      /\ session'[c].payload = s.payload /\ session'[c].answer = "accepted"
      /\ session'[c].job = j
  BY <1>1, <1>2, <1>4 DEF ClientState, Asking, Told, Answers
<1>6. Frame(c)
  <2>1. ASSUME NEW e \in Experiments PROVE ExperimentFrame(c, e)
    <3>1. CASE e = r
      BY <1>2, <1>3, <3>1 DEF ExperimentFrame
    <3>2. CASE e # r
      BY <1>3, <3>2 DEF ExperimentFrame
    <3> QED BY <3>1, <3>2
  <2>2. ASSUME NEW i \in Jobs PROVE JobFrame(c, i)
    BY <1>3 DEF JobFrame
  <2> QED BY <1>4, <2>1, <2>2 DEF Frame
<1>7. /\ \A e \in Experiments : experiments'[e] \in ExperimentRow /\ experiments'[e].writer # c
      /\ \A e \in Experiments :
           experiments'[e].writer \notin {c, Nobody} => experiments'[e].writer = experiments[e].writer
      /\ \A i \in Jobs : jobs'[i] \in JobRow /\ jobs'[i].writer # c
      /\ \A i \in Jobs :
           jobs'[i].writer \notin {c, Nobody} => jobs'[i].writer = jobs[i].writer
  BY <1>1, <1>3, RowTypes
<1>8. SubmissionTypeOK'
  <2>1. experiments' \in [Experiments -> ExperimentRow] /\ jobs' \in [Jobs -> JobRow]
    BY <1>3, <1>7
  <2> QED BY <1>1, <1>5, <1>6, <1>7, <2>1, TypesKeep
<1>9. OneWriter'
  BY <1>3, OneWriterKeeps
<1>10. UniqueKeys'
  <2>1. experiments[r].state # "absent"
    BY <1>0, <1>1 DEF SubInv, ClientInv, Preparing
  <2> QED BY <1>3, <2>1, UniqueKeysKeep
<1>11. ASSUME NEW e \in Experiments PROVE ExperimentInv(e)'
  <2>1. CASE e = r /\ experiments[r].writer = c
    BY <1>1, <1>2, <1>3, <2>1 DEF ExperimentInv, SubmissionAssumption
  <2>2. CASE e = r /\ experiments[r].writer # c
    <3>1. experiments'[e] = experiments[e] /\ experiments[e].writer # c
      BY <1>3, <2>2
    <3> QED BY <1>1, <1>6, <3>1, ExperimentKeeps
  <2>3. CASE e # r
    BY <1>1, <1>3, <1>6, <2>3, ExperimentKeeps
  <2> QED BY <2>1, <2>2, <2>3
<1>12. ASSUME NEW i \in Jobs PROVE JobInv(i)'
  <2>1. CASE i = j
    BY <1>2, <1>3, <2>1 DEF JobInv
  <2>2. CASE i # j
    <3>1. jobs[i].state = "inserted" =>
            /\ jobs[i].payload \in Experiments /\ experiments[jobs[i].payload].source = NoJob
            /\ jobs[i].payload # r
      BY <1>2, <2>2 DEF SubInv, JobInv
    <3>2. jobs[i].state = "inserted" => experiments'[jobs[i].payload].source = NoJob
      BY <1>3, <3>1
    <3> QED BY <1>1, <1>3, <1>6, <2>2, <3>2, JobKeeps
  <2> QED BY <2>1, <2>2
<1>13. ClientInv(c)'
  BY <1>5 DEF ClientInv, Preparing
<1>14. AnswerAgrees(c)'
  BY <1>2, <1>3, <1>5 DEF AnswerAgrees, RequestOf
<1> QED
  BY <1>1, <1>6, <1>8, <1>9, <1>10, <1>11, <1>12, <1>13, <1>14, InvariantKeeps

-----------------------------------------------------------------------------
(* The backfill of a starting process *)

LEMMA SelectActiveKeeps ==
  ASSUME SubmissionAssumption, SubInv, NEW s \in Starters, SelectActive(s)
  PROVE  SubInv'
<1> DEFINE found == {e \in ActiveExperiments : WithoutJob(e)}
<1>0. PICK todo, over : todo = found /\ over = PassedOver
  OBVIOUS
<1>1. /\ s \in Transactions /\ s # Nobody /\ s \notin Clients
      /\ session[s].at = "off" /\ UNCHANGED jobs
  BY DEF Transactions, SubmissionAssumption, SelectActive
<1>2. /\ \A e \in Experiments : experiments[e].writer # s
      /\ \A i \in Jobs : jobs[i].writer # s
  <2>1. ASSUME NEW e \in Experiments PROVE experiments[e].writer # s
    <3>1. experiments[e].writer = s => session[s].at \in {"find", "insert"}
      BY StartersRows
    <3> QED BY <1>1, <3>1
  <2>2. ASSUME NEW i \in Jobs, jobs[i].writer = s PROVE FALSE
    <3>1. JobInv(i) /\ jobs[i] \in JobRow
      BY RowTypes DEF SubInv
    <3>2. jobs[i].payload \in Experiments /\ experiments[jobs[i].payload].writer = s
      BY <1>1, <2>2, <3>1 DEF JobInv, JobRow
    <3> QED BY <2>1, <3>2
  <2> QED BY <2>1, <2>2
<1>3. /\ todo \subseteq Experiments /\ over \subseteq Experiments
      /\ \A e \in todo : /\ experiments[e].state = "committed" /\ experiments[e].source = NoJob
                         /\ experiments[e].writer = Nobody
  BY <1>0 DEF WithoutJob, ActiveExperiments, PassedOver
<1>4. /\ experiments' =
           [e \in Experiments |->
              IF e \in todo THEN [experiments[e] EXCEPT !.writer = s] ELSE experiments[e]]
      /\ session' = [session EXCEPT ![s] = [at |-> "find", todo |-> todo, passed |-> over]]
  BY <1>0 DEF SelectActive
<1>5. SameSessions(s) /\ session'[s] = [at |-> "find", todo |-> todo, passed |-> over]
  BY <1>1, <1>4, SessionMoves
<1>6. session'[s] \in StarterState /\ session'[s].at = "find" /\ session'[s].todo = todo
  BY <1>3, <1>5 DEF StarterState
<1>7. ASSUME NEW e \in todo
      PROVE  /\ experiments'[e] \in ExperimentRow /\ experiments'[e].writer = s
             /\ experiments'[e].state = "committed" /\ experiments'[e].source = NoJob
             /\ experiments'[e].draft = experiments[e].draft
             /\ experiments'[e].key = experiments[e].key
             /\ experiments'[e].payload = experiments[e].payload
  <2>1. e \in Experiments /\ experiments[e] \in ExperimentRow
    BY <1>3, RowTypes
  <2>2. experiments'[e] = [experiments[e] EXCEPT !.writer = s]
    BY <1>4, <2>1
  <2> QED BY <1>1, <1>3, <2>1, <2>2 DEF ExperimentRow
<1>8. ASSUME NEW e \in Experiments \ todo
      PROVE  experiments'[e] = experiments[e]
  BY <1>4
<1>9. Frame(s)
  <2>1. ASSUME NEW e \in Experiments PROVE ExperimentFrame(s, e)
    <3>1. CASE e \in todo
      BY <1>3, <1>7, <3>1 DEF ExperimentFrame
    <3>2. CASE e \notin todo
      BY <1>8, <3>2 DEF ExperimentFrame
    <3> QED BY <3>1, <3>2
  <2> QED BY <1>1, <1>5, <2>1 DEF Frame, JobFrame
<1>10. SubmissionTypeOK'
  <2>1. \A e \in Experiments : experiments'[e] \in ExperimentRow
    BY <1>7, <1>8, RowTypes
  <2>2. experiments' \in [Experiments -> ExperimentRow]
    BY <1>4, <2>1
  <2>3. jobs' \in [Jobs -> JobRow]
    BY <1>1 DEF SubInv, SubmissionTypeOK
  <2>4. \A e \in Experiments :
          experiments'[e].writer \notin {s, Nobody} => experiments'[e].writer = experiments[e].writer
    BY <1>7, <1>8
  <2> QED BY <1>1, <1>6, <1>9, <2>2, <2>3, <2>4, TypesKeep
<1>11. OneWriter' /\ UniqueKeys'
  BY <1>1, <1>3, <1>7, <1>8, OneWriterKeeps, UniqueKeysKeep
<1>12. ASSUME NEW e \in Experiments PROVE ExperimentInv(e)'
  <2>1. CASE e \in todo
    <3>1. ExperimentInv(e)
      BY DEF SubInv
    <3>2. experiments[e].draft = NoJob
      BY <1>3, <2>1, <3>1 DEF ExperimentInv
    <3> QED BY <1>1, <1>3, <1>6, <1>7, <2>1, <3>2 DEF ExperimentInv
  <2>2. CASE e \notin todo
    BY <1>1, <1>2, <1>8, <1>9, <2>2, ExperimentKeeps
  <2> QED BY <2>1, <2>2
<1>13. ASSUME NEW i \in Jobs PROVE JobInv(i)'
  <2>1. jobs[i].state = "inserted" =>
          jobs[i].payload \in Experiments /\ experiments[jobs[i].payload].source = NoJob
    BY DEF SubInv, JobInv
  <2>2. jobs[i].state = "inserted" => experiments'[jobs[i].payload].source = NoJob
    BY <1>7, <1>8, <2>1
  <2> QED BY <1>1, <1>2, <1>9, <2>2, JobKeeps
<1>14. StarterInv(s)'
  BY <1>6, <1>7 DEF StarterInv
<1> QED
  BY <1>1, <1>9, <1>10, <1>11, <1>12, <1>13, <1>14, InvariantKeeps
\* The experiment at hand is locked, has no job and shares its key with no job.
LEMMA AtHand ==
  ASSUME SubmissionAssumption, SubInv, NEW s \in Starters,
         session[s].at \in {"find", "insert"}, session[s].todo # {}
  PROVE  LET e == Earliest(session[s].todo)
         IN /\ e \in session[s].todo /\ e \in Experiments
            /\ experiments[e].writer = s /\ experiments[e].state = "committed"
            /\ experiments[e].source = NoJob /\ experiments[e].draft = NoJob
            /\ JobsWith("experiment", experiments[e].key) = {}
<1>0. PICK e : e = Earliest(session[s].todo)
  OBVIOUS
<1>1. session[s].todo \subseteq Experiments /\ session[s].todo \subseteq Nat
  BY RowTypes DEF StarterState, SubmissionAssumption
<1>2. e \in session[s].todo /\ e \in Experiments
  BY <1>0, <1>1, EarliestInTodo
<1>3. experiments[e].writer = s
  BY <1>2 DEF SubInv, StarterInv
<1>4. /\ experiments[e].state = "committed" /\ experiments[e].source = NoJob
      /\ experiments[e].draft = NoJob
  BY <1>2, <1>3, StartersRows
<1>5. ASSUME NEW j \in JobsWith("experiment", experiments[e].key)
      PROVE  FALSE
  <2>1. jobs[j].payload = e
    BY <1>2, <1>4, KeyLeadsToRecord
  <2>2. j \in Jobs /\ jobs[j].state = "committed" /\ jobs[j].kind = "experiment"
    BY DEF JobsWith
  <2> QED
    BY <1>4, <2>1, <2>2, CommittedJobsExperiment DEF SubmissionAssumption
<1> QED
  BY <1>0, <1>2, <1>3, <1>4, <1>5

LEMMA BackfillFindKeeps ==
  ASSUME SubmissionAssumption, SubInv, NEW s \in Starters, BackfillFind(s)
  PROVE  SubInv'
<1>1. /\ s \in Transactions /\ s # Nobody /\ s \notin Clients
      /\ session[s].at = "find" /\ session[s].todo # {} /\ UNCHANGED jobs
      /\ session[s] \in StarterState /\ StarterInv(s)
  BY RowTypes DEF Transactions, SubmissionAssumption, BackfillFind, SubInv
<1>2. session' = [session EXCEPT ![s].at = "insert"] /\ UNCHANGED experiments
  BY <1>1, AtHand DEF BackfillFind
<1>3. SameSessions(s) /\ session'[s] = [session[s] EXCEPT !.at = "insert"]
  BY <1>1, <1>2 DEF SubInv, SubmissionTypeOK, SameSessions
<1>4. /\ session'[s] \in StarterState /\ session'[s].at = "insert"
      /\ session'[s].todo = session[s].todo
  BY <1>1, <1>3 DEF StarterState
<1>5. Frame(s)
  BY <1>1, <1>2, <1>3 DEF Frame, ExperimentFrame, JobFrame
<1>6. SubmissionTypeOK'
  <2>1. experiments' \in [Experiments -> ExperimentRow] /\ jobs' \in [Jobs -> JobRow]
    BY <1>1, <1>2 DEF SubInv, SubmissionTypeOK
  <2> QED BY <1>1, <1>2, <1>4, <1>5, <2>1, TypesKeep
<1>7. OneWriter' /\ UniqueKeys'
  BY <1>1, <1>2, OneWriterKeeps, UniqueKeysKeep
<1>8. ASSUME NEW e \in Experiments PROVE ExperimentInv(e)'
  <2>1. CASE experiments[e].writer = s
    <3>1. ExperimentInv(e)
      BY DEF SubInv
    <3> QED BY <1>1, <1>2, <1>4, <2>1, <3>1 DEF ExperimentInv
  <2>2. CASE experiments[e].writer # s
    BY <1>1, <1>2, <1>5, <2>2, ExperimentKeeps
  <2> QED BY <2>1, <2>2
<1>9. ASSUME NEW i \in Jobs PROVE JobInv(i)'
  <2>1. JobInv(i) /\ jobs[i] \in JobRow
    BY RowTypes DEF SubInv
  <2>2. CASE jobs[i].writer = s
    BY <1>1, <1>2, <2>1, <2>2 DEF JobInv
  <2>3. CASE jobs[i].writer # s
    <3>1. jobs[i].state = "inserted" => experiments'[jobs[i].payload].source = NoJob
      BY <1>2, <2>1 DEF JobInv
    <3> QED BY <1>1, <1>5, <2>3, <3>1, JobKeeps
  <2> QED BY <2>2, <2>3
<1>10. StarterInv(s)'
  BY <1>1, <1>2, <1>4 DEF StarterInv
<1> QED
  BY <1>1, <1>5, <1>6, <1>7, <1>8, <1>9, <1>10, InvariantKeeps

LEMMA BackfillInsertKeeps ==
  ASSUME SubmissionAssumption, SubInv, NEW s \in Starters, BackfillInsert(s)
  PROVE  SubInv'
<1>0. PICK e : e = Earliest(session[s].todo)
  OBVIOUS
<1>1. /\ s \in Transactions /\ s # Nobody /\ s \notin Clients
      /\ session[s].at = "insert" /\ session[s].todo # {}
      /\ session[s] \in StarterState /\ StarterInv(s)
  BY RowTypes DEF Transactions, SubmissionAssumption, BackfillInsert, SubInv, StarterInv
<1>2. /\ e \in session[s].todo /\ e \in Experiments
      /\ experiments[e].writer = s /\ experiments[e].state = "committed"
      /\ experiments[e].source = NoJob /\ experiments[e].draft = NoJob
      /\ JobsWith("experiment", experiments[e].key) = {}
  BY <1>0, <1>1, AtHand
<1>3. InsertingJob(s, "experiment", experiments[e].key) = {}
  BY <1>0 DEF BackfillInsert
<1>4. PICK j \in Unused(jobs, Jobs) :
        NewRecord(j, s, "experiment", experiments[e].key, e) /\ Attached(s, e, j)
  BY <1>0, <1>2 DEF BackfillInsert
<1>5. j \in Jobs /\ jobs[j].state = "absent"
  BY DEF Unused
<1>6. ASSUME NEW i \in Jobs, jobs[i].state = "inserted", jobs[i].payload = e
      PROVE  FALSE
  <2>1. /\ jobs[i].kind = "experiment" /\ jobs[i].key = experiments[e].key
        /\ \/ /\ jobs[i].writer \in Clients /\ session[jobs[i].writer].at \in {"link", "commit"}
              /\ session[jobs[i].writer].record = e
           \/ /\ jobs[i].writer \in Starters /\ experiments[e].draft = i
    BY <1>2, <1>6 DEF SubInv, JobInv
  <2>2. jobs[i].writer \in Clients /\ jobs[i].writer # s
    BY <1>1, <1>2, <2>1 DEF SubmissionAssumption
  <2>3. experiments[e].key # NoKey
    <3>1. ClientInv(jobs[i].writer)
      BY <2>2 DEF SubInv
    <3> QED
      BY <1>2, <2>1, <2>2, <3>1 DEF ClientInv, Preparing, SubmissionAssumption
  <2> QED
    BY <1>3, <1>6, <2>1, <2>2, <2>3 DEF InsertingJob
<1>7. /\ jobs' \in [Jobs -> JobRow] /\ OneWriter'
      /\ jobs'[j].state = "inserted" /\ jobs'[j].writer = s /\ jobs'[j].kind = "experiment"
      /\ jobs'[j].key = experiments[e].key /\ jobs'[j].payload = e
      /\ \A i \in Jobs \ {j} : jobs'[i] = jobs[i]
      /\ \A i \in Jobs : JobFrame(s, i)
  BY <1>1, <1>2, <1>4, <1>5, <1>6, NewRecordEffect
<1>8. /\ experiments' = [experiments EXCEPT ![e].draft = j]
      /\ session' = [session EXCEPT ![s].at = "find", ![s].todo = @ \ {e}]
  BY <1>4 DEF Attached
<1>9. /\ experiments'[e] \in ExperimentRow /\ experiments'[e].state = "committed"
      /\ experiments'[e].writer = s /\ experiments'[e].source = NoJob
      /\ experiments'[e].draft = j /\ experiments'[e].key = experiments[e].key
      /\ experiments'[e].payload = experiments[e].payload
  <2>1. experiments[e] \in ExperimentRow
    BY <1>2, RowTypes
  <2>2. experiments'[e] = [experiments[e] EXCEPT !.draft = j]
    BY <1>2, <1>8 DEF SubInv, SubmissionTypeOK
  <2> QED BY <1>2, <1>5, <2>1, <2>2 DEF ExperimentRow
<1>10. /\ \A x \in Experiments \ {e} : experiments'[x] = experiments[x]
       /\ experiments' \in [Experiments -> ExperimentRow]
  <2>1. experiments \in [Experiments -> ExperimentRow]
    BY DEF SubInv, SubmissionTypeOK
  <2>2. experiments' = [experiments EXCEPT ![e] = experiments'[e]]
    BY <1>2, <1>8, <2>1
  <2> QED BY <1>9, <2>1, <2>2
<1>11. SameSessions(s) /\ session'[s] = [session[s] EXCEPT !.at = "find", !.todo = @ \ {e}]
  BY <1>1, <1>8 DEF SubInv, SubmissionTypeOK, SameSessions
<1>12. /\ session'[s] \in StarterState /\ session'[s].at = "find"
       /\ session'[s].todo = session[s].todo \ {e}
  BY <1>1, <1>11 DEF StarterState
<1>13. Frame(s)
  <2>1. ASSUME NEW x \in Experiments PROVE ExperimentFrame(s, x)
    <3>1. CASE x = e
      BY <1>2, <1>9, <3>1 DEF ExperimentFrame
    <3>2. CASE x # e
      BY <1>10, <3>2 DEF ExperimentFrame
    <3> QED BY <3>1, <3>2
  <2> QED BY <1>7, <1>11, <2>1 DEF Frame
<1>14. SubmissionTypeOK'
  <2>1. \A x \in Experiments :
          experiments'[x].writer \notin {s, Nobody} => experiments'[x].writer = experiments[x].writer
    BY <1>9, <1>10
  <2>2. \A i \in Jobs :
          jobs'[i].writer \notin {s, Nobody} => jobs'[i].writer = jobs[i].writer
    BY <1>7
  <2> QED BY <1>1, <1>7, <1>10, <1>12, <1>13, <2>1, <2>2, TypesKeep
<1>15. UniqueKeys'
  BY <1>2, <1>9, <1>10, UniqueKeysKeep
<1>16. ASSUME NEW x \in Experiments PROVE ExperimentInv(x)'
  <2>1. CASE x = e
    BY <1>1, <1>2, <1>7, <1>9, <1>12, <2>1 DEF ExperimentInv
  <2>2. CASE x # e /\ experiments[x].writer = s
    <3>1. ExperimentInv(x) /\ experiments[x] \in ExperimentRow
      BY RowTypes DEF SubInv
    <3>2. experiments[x].draft # NoJob =>
            experiments[x].draft \in Jobs /\ jobs'[experiments[x].draft] = jobs[experiments[x].draft]
      BY <1>5, <1>7, <2>2, <3>1, StartersRows
    <3> QED BY <1>1, <1>10, <1>12, <2>2, <3>1, <3>2 DEF ExperimentInv
  <2>3. CASE x # e /\ experiments[x].writer # s
    BY <1>1, <1>10, <1>13, <2>3, ExperimentKeeps
  <2> QED BY <2>1, <2>2, <2>3
<1>17. ASSUME NEW i \in Jobs PROVE JobInv(i)'
  <2>1. CASE i = j
    BY <1>1, <1>2, <1>7, <1>9, <2>1 DEF JobInv
  <2>2. CASE i # j /\ jobs[i].writer = s
    <3>1. /\ jobs[i].state = "inserted" /\ jobs[i].kind = "experiment"
          /\ jobs[i].payload \in Experiments
          /\ experiments[jobs[i].payload].writer = s /\ experiments[jobs[i].payload].draft = i
      <4>1. jobs[i].writer = s
        BY <2>2
      <4> QED BY <4>1, StartersRows
    <3>2. PICK x \in Experiments : x = jobs[i].payload
      BY <3>1
    <3>3. x # e /\ jobs[i].key = experiments[x].key /\ experiments[x].source = NoJob
      <4>1. x # e
        BY <1>6, <3>1, <3>2
      <4>2. JobInv(i)
        BY DEF SubInv
      <4> QED BY <3>1, <3>2, <4>1, <4>2 DEF JobInv
    <3>4. jobs'[i] = jobs[i] /\ experiments'[x] = experiments[x]
      BY <1>7, <1>10, <2>2, <3>3
    <3> QED BY <1>1, <2>2, <3>1, <3>2, <3>3, <3>4 DEF JobInv
  <2>3. CASE i # j /\ jobs[i].writer # s
    <3>1. jobs[i].state = "inserted" =>
            jobs[i].payload \in Experiments /\ experiments[jobs[i].payload].source = NoJob
      BY DEF SubInv, JobInv
    <3>2. jobs[i].state = "inserted" => experiments'[jobs[i].payload].source = NoJob
      BY <1>9, <1>10, <3>1
    <3> QED BY <1>1, <1>7, <1>13, <2>3, <3>2, JobKeeps
  <2> QED BY <2>1, <2>2, <2>3
<1>18. StarterInv(s)'
  <2>1. session[s].todo \subseteq Experiments
    BY <1>1 DEF StarterState
  <2> QED BY <1>1, <1>10, <1>12, <2>1 DEF StarterInv
<1> QED
  BY <1>1, <1>7, <1>13, <1>14, <1>15, <1>16, <1>17, <1>18, InvariantKeeps
LEMMA BackfillCommitKeeps ==
  ASSUME SubmissionAssumption, SubInv, NEW s \in Starters, BackfillCommit(s)
  PROVE  SubInv'
<1>1. /\ s \in Transactions /\ s # Nobody /\ s \notin Clients /\ s \in Starters
  BY DEF Transactions, SubmissionAssumption
<1>2. /\ experiments' = CommittedExperiments(experiments, s)
      /\ jobs' = CommittedJobs(jobs, s)
      /\ session' = [session EXCEPT ![s].at = "serving"]
  BY DEF BackfillCommit
<1>3. SameSessions(s) /\ session'[s] = [session[s] EXCEPT !.at = "serving"]
  BY <1>1, <1>2 DEF SubInv, SubmissionTypeOK, SameSessions
<1>4. session'[s] \in StarterState /\ session'[s].at = "serving"
  <2>1. session[s] \in StarterState
    BY RowTypes
  <2> QED BY <1>3, <2>1 DEF StarterState
<1>5. /\ experiments' = [e \in Experiments |-> experiments'[e]]
      /\ \A e \in Experiments :
           experiments'[e] = IF experiments[e].writer = s THEN Committed(experiments[e])
                             ELSE experiments[e]
  BY <1>2, CommittedRows
<1>6. /\ jobs' = [j \in Jobs |-> jobs'[j]]
      /\ \A j \in Jobs :
           jobs'[j] = IF jobs[j].writer = s THEN CommittedJob(jobs[j]) ELSE jobs[j]
  BY <1>2, CommittedJobRows
<1>7. ASSUME NEW e \in Experiments, experiments[e].writer = s
      PROVE  /\ experiments'[e] \in ExperimentRow /\ experiments'[e].state = "committed"
             /\ experiments'[e].writer = Nobody /\ experiments'[e].key = experiments[e].key
             /\ experiments'[e].payload = experiments[e].payload
             /\ experiments'[e].source = experiments[e].draft
             /\ experiments'[e].draft = experiments[e].draft
             /\ experiments[e].state = "committed" /\ experiments[e].source = NoJob
             /\ experiments[e].draft # NoJob =>
                  /\ experiments[e].draft \in Jobs
                  /\ jobs[experiments[e].draft].state = "inserted"
                  /\ jobs[experiments[e].draft].payload = e
                  /\ jobs[experiments[e].draft].writer = s
  <2>1. experiments[e] \in ExperimentRow /\ experiments'[e] = Committed(experiments[e])
    BY <1>5, <1>7, RowTypes
  <2> QED BY <1>7, <2>1, CommittedRow, StartersRows
<1>8. ASSUME NEW j \in Jobs, jobs[j].writer = s
      PROVE  /\ jobs'[j] \in JobRow /\ jobs'[j].state = "committed" /\ jobs'[j].writer = Nobody
             /\ jobs'[j].kind = "experiment" /\ jobs'[j].key = jobs[j].key
             /\ jobs'[j].payload = jobs[j].payload
             /\ jobs[j].state = "inserted" /\ jobs[j].payload \in Experiments
             /\ experiments[jobs[j].payload].writer = s
             /\ experiments[jobs[j].payload].draft = j
  <2>1. jobs[j] \in JobRow /\ jobs'[j] = CommittedJob(jobs[j])
    BY <1>6, <1>8, RowTypes
  <2> QED BY <1>8, <2>1, CommittedJobRow, StartersRows
<1>9. Frame(s)
  <2>1. ASSUME NEW e \in Experiments PROVE ExperimentFrame(s, e)
    <3>1. CASE experiments[e].writer = s
      BY <1>7, <3>1 DEF ExperimentFrame
    <3>2. CASE experiments[e].writer # s
      BY <1>5, <3>2 DEF ExperimentFrame
    <3> QED BY <3>1, <3>2
  <2>2. ASSUME NEW j \in Jobs PROVE JobFrame(s, j)
    BY <1>6, <1>8 DEF JobFrame
  <2> QED BY <1>3, <2>1, <2>2 DEF Frame
<1>10. /\ \A e \in Experiments : experiments'[e] \in ExperimentRow /\ experiments'[e].writer # s
       /\ \A e \in Experiments :
            experiments'[e].writer \notin {s, Nobody} => experiments'[e].writer = experiments[e].writer
       /\ \A j \in Jobs : jobs'[j] \in JobRow /\ jobs'[j].writer # s
       /\ \A j \in Jobs :
            jobs'[j].writer \notin {s, Nobody} => jobs'[j].writer = jobs[j].writer
  BY <1>1, <1>5, <1>6, <1>7, <1>8, RowTypes
<1>11. SubmissionTypeOK'
  <2>1. experiments' \in [Experiments -> ExperimentRow] /\ jobs' \in [Jobs -> JobRow]
    BY <1>5, <1>6, <1>10
  <2> QED BY <1>1, <1>4, <1>9, <1>10, <2>1, TypesKeep
<1>12. OneWriter'
  BY <1>6, <1>8, OneWriterKeeps
<1>13. UniqueKeys'
  BY <1>5, <1>7, UniqueKeysKeep
<1>14. ASSUME NEW e \in Experiments PROVE ExperimentInv(e)'
  <2>1. CASE experiments[e].writer = s
    <3>1. experiments'[e].source # NoJob =>
            /\ experiments'[e].source \in Jobs
            /\ jobs'[experiments'[e].source].state = "committed"
            /\ jobs'[experiments'[e].source].kind = "experiment"
            /\ jobs'[experiments'[e].source].payload = e
      BY <1>7, <1>8, <2>1
    <3> QED BY <1>7, <2>1, <3>1 DEF ExperimentInv, SubmissionAssumption
  <2>2. CASE experiments[e].writer # s
    BY <1>1, <1>5, <1>9, <2>2, ExperimentKeeps
  <2> QED BY <2>1, <2>2
<1>15. ASSUME NEW j \in Jobs PROVE JobInv(j)'
  <2>1. CASE jobs[j].writer = s
    <3>1. /\ jobs'[j].payload \in Experiments
          /\ experiments'[jobs'[j].payload].state = "committed"
          /\ experiments'[jobs'[j].payload].source = j
          /\ experiments'[jobs'[j].payload].key = experiments[jobs[j].payload].key
      BY <1>7, <1>8, <2>1
    <3>2. jobs[j].key = experiments[jobs[j].payload].key
      BY <1>8, <2>1, StartersRows DEF SubInv, JobInv
    <3> QED BY <1>8, <2>1, <3>1, <3>2 DEF JobInv
  <2>2. CASE jobs[j].writer # s
    <3>1. ASSUME jobs[j].state = "inserted"
          PROVE  experiments'[jobs[j].payload].source = NoJob
      <4>1. PICK e \in Experiments : e = jobs[j].payload /\ experiments[e].source = NoJob
        <5>1. jobs[j].payload \in Experiments /\ experiments[jobs[j].payload].source = NoJob
          BY <3>1 DEF SubInv, JobInv
        <5> QED BY <5>1
      <4>2. CASE experiments[e].writer # s
        <5>1. experiments'[e] = experiments[e]
          BY <1>5, <4>2
        <5> QED BY <4>1, <5>1
      <4>3. CASE experiments[e].writer = s
        <5>1. experiments[e].draft # NoJob =>
                /\ experiments[e].draft \in Jobs /\ jobs[experiments[e].draft].state = "inserted"
                /\ jobs[experiments[e].draft].payload = e /\ jobs[experiments[e].draft].writer = s
          BY <1>7, <4>3
        <5>2. experiments[e].draft # NoJob => experiments[e].draft = j
          BY <3>1, <4>1, <5>1 DEF SubInv, OneWriter
        <5>3. experiments[e].draft = NoJob
          BY <2>2, <5>1, <5>2
        <5>4. experiments'[e].source = NoJob
          BY <1>7, <4>3, <5>3
        <5> QED BY <4>1, <5>4
      <4> QED BY <4>2, <4>3
    <3> QED BY <1>1, <1>6, <1>9, <2>2, <3>1, JobKeeps
  <2> QED BY <2>1, <2>2
<1>16. StarterInv(s)'
  BY <1>4 DEF StarterInv
<1> QED
  BY <1>1, <1>9, <1>11, <1>12, <1>13, <1>14, <1>15, <1>16, InvariantKeeps

-----------------------------------------------------------------------------
(* Deadlocks, deaths, and every step *)

LEMMA AbortKeeps ==
  ASSUME SubmissionAssumption, SubInv, NEW t \in Transactions, NEW answer \in {"none", "error"},
         t \in Clients /\ answer = "error" => session[t].kind = "experiment",
         Abort(t, answer)
  PROVE  SubInv'
<1>1. CASE t \in Clients
  BY <1>1, ToldErrorKeeps DEF Abort
<1>2. CASE t \notin Clients
  <2>1. RollBack(t) /\ session' = [session EXCEPT ![t] = Off]
    BY <1>2 DEF Abort
  <2>2. SameSessions(t) /\ session'[t] = Off
    BY <2>1, SessionMoves
  <2> QED BY <1>2, <2>1, <2>2, RollBackKeeps
<1> QED
  BY <1>1, <1>2

LEMMA DeadlockVictimKeeps ==
  ASSUME SubmissionAssumption, SubInv, NEW t \in Transactions, DeadlockVictim(t)
  PROVE  SubInv'
<1>1. WaitsFor(t) # {} /\ Abort(t, "error")
  BY DEF DeadlockVictim
<1>2. t \in Clients => session[t].kind = "experiment"
  <2>1. t \in Clients => session[t].at \in {"create", "insert", "link"}
    BY <1>1 DEF WaitsFor, SubmissionAssumption
  <2> QED BY <2>1 DEF SubInv, ClientInv, Preparing
<1> QED
  BY <1>1, <1>2, AbortKeeps

LEMMA LostKeeps ==
  ASSUME SubmissionAssumption, SubInv, NEW t \in Transactions, Lost(t)
  PROVE  SubInv'
BY AbortKeeps DEF Lost

LEMMA StutterKeeps ==
  ASSUME SubInv, UNCHANGED submissionVars
  PROVE  SubInv'
<1> USE DEF submissionVars
<1>1. SubmissionTypeOK'
  BY DEF SubInv, SubmissionTypeOK, Open
<1>2. OneWriter' /\ UniqueKeys'
  BY DEF SubInv, OneWriter, UniqueKeys
<1>3. ASSUME NEW e \in Experiments PROVE ExperimentInv(e)'
  BY DEF SubInv, ExperimentInv
<1>4. ASSUME NEW j \in Jobs PROVE JobInv(j)'
  BY DEF SubInv, JobInv
<1>5. ASSUME NEW c \in Clients PROVE ClientInv(c)'
  BY DEF SubInv, ClientInv, JobsWith
<1>6. ASSUME NEW c \in Clients PROVE AnswerAgrees(c)'
  <2>1. AnswerAgrees(c)
    BY DEF SubInv
  <2> QED BY <2>1 DEF AnswerAgrees, RequestOf, KeyHolders, ExperimentsWith, JobsWith
<1>7. ASSUME NEW s \in Starters PROVE StarterInv(s)'
  BY DEF SubInv, StarterInv
<1> QED
  BY <1>1, <1>2, <1>3, <1>4, <1>5, <1>6, <1>7 DEF SubInv
LEMMA StepKeeps ==
  ASSUME SubmissionAssumption, SubInv, [SubmissionNext]_submissionVars
  PROVE  SubInv'
<1>1. ASSUME NEW c \in Clients,
             \/ ReadExperiment(c) \/ InsertExperiment(c) \/ FindJob(c) \/ InsertJob(c)
             \/ Link(c) \/ CommitRequest(c) \/ ReadJob(c) \/ SubmitJob(c) \/ RereadJob(c)
      PROVE  SubInv'
  BY <1>1, ReadExperimentKeeps, InsertExperimentKeeps, FindJobKeeps, InsertJobKeeps,
     LinkKeeps, CommitRequestKeeps, ReadJobKeeps, SubmitJobKeeps, RereadJobKeeps
<1>2. ASSUME NEW s \in Starters,
             SelectActive(s) \/ BackfillFind(s) \/ BackfillInsert(s) \/ BackfillCommit(s)
      PROVE  SubInv'
  BY <1>2, SelectActiveKeeps, BackfillFindKeeps, BackfillInsertKeeps, BackfillCommitKeeps
<1>3. ASSUME NEW t \in Transactions, DeadlockVictim(t) \/ Lost(t)
      PROVE  SubInv'
  BY <1>3, DeadlockVictimKeeps, LostKeeps
<1>4. CASE UNCHANGED submissionVars
  BY <1>4, StutterKeeps
<1> QED
  BY <1>1, <1>2, <1>3, <1>4 DEF SubmissionNext

LEMMA InitHolds ==
  ASSUME SubmissionAssumption, SubmissionInit
  PROVE  SubInv
<1>1. PICK legacy \in [Legacy -> LegacyRows] :
        /\ \A e, f \in Legacy : e # f /\ legacy[e].key = legacy[f].key => legacy[e].key = NoKey
        /\ experiments = [e \in Experiments |-> IF e \in Legacy THEN legacy[e] ELSE NoExperiment]
  BY DEF SubmissionInit
<1>2. /\ jobs = [j \in Jobs |-> NoJobRow]
      /\ session = [t \in Transactions |->
           IF t \in Clients THEN Asking("idle", "analysis", NoKey, Blank) ELSE Off]
  BY DEF SubmissionInit
<1>3. ASSUME NEW e \in Experiments, e \notin Legacy
      PROVE  /\ experiments[e] = NoExperiment /\ experiments[e] \in ExperimentRow
             /\ experiments[e].state = "absent" /\ experiments[e].writer = Nobody
             /\ experiments[e].source = NoJob /\ experiments[e].draft = NoJob
  BY <1>1, <1>3 DEF NoExperiment, ExperimentRow
<1>4. ASSUME NEW e \in Legacy
      PROVE  /\ e \in Experiments /\ experiments[e] = legacy[e] /\ experiments[e] \in ExperimentRow
             /\ experiments[e].state = "committed" /\ experiments[e].writer = Nobody
             /\ experiments[e].source = NoJob /\ experiments[e].draft = NoJob
  <2>1. e \in Experiments /\ experiments[e] = legacy[e] /\ legacy[e] \in LegacyRows
    BY <1>1 DEF SubmissionAssumption
  <2> QED BY <2>1 DEF LegacyRows, ExperimentRow
<1>5. ASSUME NEW j \in Jobs
      PROVE  /\ jobs[j] \in JobRow /\ jobs[j].state = "absent" /\ jobs[j].writer = Nobody
             /\ jobs[j].kind = "analysis"
  BY <1>2 DEF NoJobRow, JobRow
<1>6. ASSUME NEW c \in Clients
      PROVE  /\ session[c] \in ClientState /\ session[c].at = "idle" /\ session[c].answer = "none"
  <2>1. session[c] = Asking("idle", "analysis", NoKey, Blank)
    BY <1>2 DEF Transactions
  <2> QED BY <2>1 DEF Asking, ClientState, Answers
<1>7. ASSUME NEW s \in Starters
      PROVE  session[s] \in StarterState /\ session[s].at = "off"
  <2>1. session[s] = Off
    BY <1>2 DEF Transactions, SubmissionAssumption
  <2> QED BY <2>1 DEF Off, StarterState
<1>8. SubmissionTypeOK
  <2>1. /\ experiments \in [Experiments -> ExperimentRow]
        /\ \A e \in Experiments : experiments[e].writer = Nobody
    BY <1>1, <1>3, <1>4
  <2>2. jobs \in [Jobs -> JobRow] /\ \A j \in Jobs : jobs[j].writer = Nobody
    BY <1>2, <1>5
  <2>3. DOMAIN session = Transactions
    BY <1>2
  <2> QED BY <1>6, <1>7, <2>1, <2>2, <2>3 DEF SubmissionTypeOK
<1>9. ASSUME NEW e \in Experiments PROVE ExperimentInv(e)
  BY <1>3, <1>4 DEF ExperimentInv, SubmissionAssumption
<1>10. ASSUME NEW j \in Jobs PROVE JobInv(j)
  BY <1>5 DEF JobInv
<1>11. OneWriter
  BY <1>5 DEF OneWriter
<1>12. UniqueKeys
  <2>1. ASSUME NEW e \in Experiments, NEW f \in Experiments,
               experiments[e].state # "absent", experiments[f].state # "absent",
               experiments[e].key # NoKey, experiments[e].key = experiments[f].key
        PROVE  e = f
    <3>1. e \in Legacy /\ f \in Legacy
      BY <1>3, <2>1
    <3> QED BY <1>1, <1>4, <2>1, <3>1
  <2> QED BY <2>1 DEF UniqueKeys
<1>13. ASSUME NEW c \in Clients PROVE ClientInv(c) /\ AnswerAgrees(c)
  BY <1>6 DEF ClientInv, AnswerAgrees, Preparing
<1>14. ASSUME NEW s \in Starters PROVE StarterInv(s)
  BY <1>7 DEF StarterInv
<1> QED
  BY <1>8, <1>9, <1>10, <1>11, <1>12, <1>13, <1>14 DEF SubInv

-----------------------------------------------------------------------------
(* The theorems *)

\* The inductive invariant: rows and transactions agree on who writes what.
THEOREM SubmissionInvariant == SubmissionSpec => []SubInv
<1>1. SubmissionInit => SubInv
  BY InitHolds, SubmissionAssumption
<1>2. SubInv /\ [SubmissionNext]_submissionVars => SubInv'
  BY StepKeeps, SubmissionAssumption
<1> QED
  BY <1>1, <1>2, PTL DEF SubmissionSpec

\* Whatever requests, starting processes, rollbacks and deadlocks do, an experiment
\* has at most one job, the one its source_job_id names, and both have one key: what
\* the route, the repository's submit() and the backfill promise each other.
THEOREM ExperimentsHaveOneJob == SubmissionSpec => []OneJobPerExperiment
<1>1. SubInv => OneJobPerExperiment
  <2> SUFFICES ASSUME SubInv PROVE OneJobPerExperiment
    OBVIOUS
  <2>1. ASSUME NEW j \in Jobs, jobs[j].state = "committed", jobs[j].kind = "experiment"
        PROVE  LET row == experiments[jobs[j].payload]
               IN row.state = "committed" /\ row.source = j /\ row.key = jobs[j].key
    BY <2>1, CommittedJobsExperiment
  <2>2. ASSUME NEW e \in Experiments, experiments[e].source # NoJob
        PROVE  LET job == jobs[experiments[e].source]
               IN job.state = "committed" /\ job.kind = "experiment" /\ job.payload = e
    BY <2>2 DEF SubInv, ExperimentInv
  <2>3. SubmissionTypeOK
    BY DEF SubInv
  <2> QED BY <2>1, <2>2, <2>3 DEF OneJobPerExperiment
<1> QED
  BY <1>1, SubmissionInvariant, PTL

\* A client is given a job only if it does what the client asked, is told of a conflict
\* only if its key is another request's, and submit() hides the lost race.
THEOREM AnswersAgreeAlways == SubmissionSpec => []AnswersAgree
<1>1. SubInv => AnswersAgree
  BY DEF SubInv, AnswersAgree, AnswerAgrees
<1> QED
  BY <1>1, SubmissionInvariant, PTL
=============================================================================
