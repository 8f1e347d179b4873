----------------------------- MODULE Submission -----------------------------
(***************************************************************************)
(* Idempotent submission of one tenant's work: the route that creates an   *)
(* experiment with its job in one transaction, the repository's submit()   *)
(* for every other kind of job, and the backfill that each starting        *)
(* process runs over experiments that have no job.                         *)
(*                                                                         *)
(* Transactions are PostgreSQL's under READ COMMITTED.  A statement sees   *)
(* the committed rows and those of its own transaction; an INSERT waits    *)
(* for an open transaction that has inserted the same key; an UPDATE waits *)
(* for a row lock; the database rolls back one of two transactions that    *)
(* wait for each other.  A row carries the transaction that is writing it. *)
(*                                                                         *)
(* Of a job its status is left out (JobQueue), of an experiment whatever   *)
(* happens once it has a job (ExperimentJobs).  The checks of a request    *)
(* that refuse it before anything is written are the step not taken.       *)
(***************************************************************************)
EXTENDS Naturals, FiniteSets

CONSTANTS
  Clients,       \* request threads of the API
  Starters,      \* processes that run the backfill when they start
  Keys, NoKey,   \* idempotency keys; a request without one
  Payloads,      \* canonical requests
  Blank,         \* no request
  Experiments,   \* experiment ids, in the order the sequence gives them
  Legacy,        \* experiments made before there were jobs
  Jobs, NoJob,
  Nobody         \* no transaction

ASSUME SubmissionAssumption ==
  /\ Experiments \subseteq Nat /\ Legacy \subseteq Experiments
  /\ NoKey \notin Keys /\ NoJob \notin Jobs /\ Blank \notin Payloads
  /\ 0 \notin Experiments
  /\ Nobody \notin Clients \cup Starters /\ Clients \cap Starters = {}

VARIABLES
  experiments,   \* the experiments table
  jobs,          \* the jobs table
  session        \* what a request or a starting process holds

submissionVars == <<experiments, jobs, session>>

Transactions == Clients \cup Starters

\* A row is committed, inserted by an open transaction, or not there; draft is the
\* source_job_id its writer will commit.
ExperimentRow ==
  [state : {"absent", "inserted", "committed"}, writer : Transactions \cup {Nobody},
   key : Keys \cup {NoKey}, payload : Payloads \cup {Blank}, active : BOOLEAN,
   source : Jobs \cup {NoJob}, draft : Jobs \cup {NoJob}]

JobRow ==
  [state : {"absent", "inserted", "committed"}, writer : Transactions \cup {Nobody},
   kind : {"experiment", "analysis"}, key : Keys \cup {NoKey},
   payload : Experiments \cup Payloads \cup {Blank}]

NoExperiment ==
  [state |-> "absent", writer |-> Nobody, key |-> NoKey, payload |-> Blank, active |-> FALSE,
   source |-> NoJob, draft |-> NoJob]

NoJobRow ==
  [state |-> "absent", writer |-> Nobody, kind |-> "analysis", key |-> NoKey, payload |-> Blank]

Answers == {"none", "accepted", "conflict", "error"}

ClientState ==
  [at : {"idle", "create", "find", "insert", "link", "commit", "submit", "reread"},
   kind : {"experiment", "analysis"}, key : Keys \cup {NoKey},
   payload : Payloads \cup {Blank}, record : Experiments \cup {0},
   source : Jobs \cup {NoJob}, job : Jobs \cup {NoJob}, answer : Answers]

\* passed is the history of a start: the experiments whose rows requests had locked.
StarterState ==
  [at : {"off", "find", "insert", "serving"}, todo : SUBSET Experiments,
   passed : SUBSET Experiments]

Asking(at, kind, k, p) ==
  [at |-> at, kind |-> kind, key |-> k, payload |-> p, record |-> 0, source |-> NoJob,
   job |-> NoJob, answer |-> "none"]

Off == [at |-> "off", todo |-> {}, passed |-> {}]

LegacyRows ==
  [state : {"committed"}, writer : {Nobody}, key : Keys \cup {NoKey}, payload : Payloads,
   active : BOOLEAN, source : {NoJob}, draft : {NoJob}]

SubmissionInit ==
  /\ \E legacy \in [Legacy -> LegacyRows] :
       /\ \A e, f \in Legacy : e # f /\ legacy[e].key = legacy[f].key => legacy[e].key = NoKey
       /\ experiments =
            [e \in Experiments |-> IF e \in Legacy THEN legacy[e] ELSE NoExperiment]
  /\ jobs = [j \in Jobs |-> NoJobRow]
  /\ session =
       [t \in Transactions |->
          IF t \in Clients THEN Asking("idle", "analysis", NoKey, Blank) ELSE Off]
-----------------------------------------------------------------------------
(* The database *)

ExperimentsWith(k) ==
  {e \in Experiments : k # NoKey /\ experiments[e].state = "committed" /\ experiments[e].key = k}

JobsWith(kind, k) ==
  {j \in Jobs : k # NoKey /\ jobs[j].state = "committed" /\ jobs[j].kind = kind /\ jobs[j].key = k}

\* Open transactions of others that have inserted the key.
InsertingExperiment(t, k) ==
  {experiments[e].writer :
     e \in {f \in Experiments : /\ k # NoKey /\ experiments[f].key = k
                                /\ experiments[f].state = "inserted"}} \ {t}

InsertingJob(t, kind, k) ==
  {jobs[j].writer :
     j \in {i \in Jobs : /\ k # NoKey /\ jobs[i].kind = kind /\ jobs[i].key = k
                         /\ jobs[i].state = "inserted"}} \ {t}

\* The rows once transaction t has committed.
CommittedExperiments(rows, t) ==
  [e \in Experiments |->
     IF rows[e].writer = t
     THEN [rows[e] EXCEPT !.state = "committed", !.writer = Nobody, !.source = rows[e].draft]
     ELSE rows[e]]

CommittedJobs(rows, t) ==
  [j \in Jobs |->
     IF rows[j].writer = t THEN [rows[j] EXCEPT !.state = "committed", !.writer = Nobody]
     ELSE rows[j]]

\* Nothing is left of a transaction that is rolled back.
RollBack(t) ==
  /\ experiments' =
       [e \in Experiments |->
          IF experiments[e].writer # t THEN experiments[e]
          ELSE IF experiments[e].state = "inserted" THEN NoExperiment
          ELSE [experiments[e] EXCEPT !.writer = Nobody, !.draft = experiments[e].source]]
  /\ jobs' = [j \in Jobs |-> IF jobs[j].writer = t THEN NoJobRow ELSE jobs[j]]

Unused(rows, ids) == {i \in ids : rows[i].state = "absent"}

\* The model's bound on job ids: requests leave enough for the legacy experiments.
FreeJobs ==
  {j \in Unused(jobs, Jobs) : Cardinality(Unused(jobs, Jobs)) > Cardinality(Legacy)}

\* session.add and flush of a new job; ids are random.
NewRecord(j, t, kind, k, payload) ==
  jobs' = [jobs EXCEPT ![j] =
    [state |-> "inserted", writer |-> t, kind |-> kind, key |-> k, payload |-> payload]]

\* The end of a request; the client remembers what it asked and what it was told.
Told(asked, answer, j) ==
  [Asking("idle", asked.kind, asked.key, asked.payload) EXCEPT !.answer = answer, !.job = j]

Answered(c, answer, j) == session' = [session EXCEPT ![c] = Told(@, answer, j)]
-----------------------------------------------------------------------------
(* The route that creates an experiment: one transaction *)

\* get_by_idempotency_key, and the comparison with the request.
ReadExperiment(c) ==
  /\ session[c].at = "idle"
  /\ \E k \in Keys \cup {NoKey}, p \in Payloads :
       LET found == ExperimentsWith(k)
       IN session' = [session EXCEPT ![c] =
            IF found = {} THEN Asking("create", "experiment", k, p)
            ELSE LET e == CHOOSE x \in found : TRUE
                 IN IF experiments[e].payload # p
                    THEN Told(Asking("idle", "experiment", k, p), "conflict", NoJob)
                    ELSE [Asking("find", "experiment", k, p) EXCEPT
                            !.record = e, !.source = experiments[e].source]]
  /\ UNCHANGED <<experiments, jobs>>

\* experiments.create: the route does not catch the IntegrityError.
InsertExperiment(c) ==
  /\ session[c].at = "create"
  /\ InsertingExperiment(c, session[c].key) = {}
  /\ IF ExperimentsWith(session[c].key) # {}
     THEN RollBack(c) /\ Answered(c, "error", NoJob)
     ELSE \E e \in Unused(experiments, Experiments) :
            /\ \A f \in Unused(experiments, Experiments) : e <= f
            /\ experiments' = [experiments EXCEPT ![e] =
                 [state |-> "inserted", writer |-> c, key |-> session[c].key,
                  payload |-> session[c].payload, active |-> TRUE,
                  source |-> NoJob, draft |-> NoJob]]
            /\ session' = [session EXCEPT ![c].at = "find", ![c].record = e]
            /\ UNCHANGED jobs

\* submit_in_session: the SELECT, and _replay_or_conflict.
FindJob(c) ==
  /\ session[c].at = "find"
  /\ LET found == JobsWith("experiment", session[c].key)
     IN IF found = {}
        THEN /\ session' = [session EXCEPT ![c].at = "insert"]
             /\ UNCHANGED <<experiments, jobs>>
        ELSE LET j == CHOOSE x \in found : TRUE
             IN IF jobs[j].payload # session[c].record
                THEN RollBack(c) /\ Answered(c, "conflict", NoJob)
                ELSE /\ session' = [session EXCEPT ![c].at = "link", ![c].job = j]
                     /\ UNCHANGED <<experiments, jobs>>

\* submit_in_session: the INSERT.
InsertJob(c) ==
  /\ session[c].at = "insert"
  /\ InsertingJob(c, "experiment", session[c].key) = {}
  /\ IF JobsWith("experiment", session[c].key) # {}
     THEN RollBack(c) /\ Answered(c, "error", NoJob)
     ELSE \E j \in FreeJobs :
            /\ NewRecord(j, c, "experiment", session[c].key, session[c].record)
            /\ session' = [session EXCEPT ![c].at = "link", ![c].job = j]
            /\ UNCHANGED experiments

\* The UPDATE of source_job_id looks only at what the SELECT of the record showed.
Linked(row, s) == IF s.source = NoJob THEN [row EXCEPT !.draft = s.job] ELSE row

LockedByOther(t, e) == experiments[e].writer \notin {t, Nobody}

\* The link, flushed: its row is locked until the commit.
Link(c) ==
  /\ session[c].at = "link"
  /\ LET s == session[c]
     IN IF s.source \notin {NoJob, s.job}
        THEN RollBack(c) /\ Answered(c, "conflict", NoJob)
        ELSE /\ s.source = NoJob => ~LockedByOther(c, s.record)
             /\ experiments' =
                  IF s.source = NoJob
                  THEN [experiments EXCEPT ![s.record] =
                          Linked([experiments[s.record] EXCEPT !.writer = c], s)]
                  ELSE experiments
             /\ session' = [session EXCEPT ![c].at = "commit"]
             /\ UNCHANGED jobs

\* The end of session.begin().
CommitRequest(c) ==
  /\ session[c].at = "commit"
  /\ experiments' = CommittedExperiments(experiments, c)
  /\ jobs' = CommittedJobs(jobs, c)
  /\ Answered(c, "accepted", session[c].job)
-----------------------------------------------------------------------------
(* submit(): a lookup, an INSERT of its own transaction, a second lookup *)

\* Wrong variant for a mutation run: the digest of the request is not compared.
ReplayAnything(c, s, found) ==
  session' = [session EXCEPT ![c] = Told(s, "accepted", CHOOSE x \in found : TRUE)]

\* _replay_or_conflict for the job that has the key.
Replay(c, s, found) ==
  LET j == CHOOSE x \in found : TRUE
  IN session' = [session EXCEPT ![c] =
       IF jobs[j].payload = s.payload THEN Told(s, "accepted", j) ELSE Told(s, "conflict", NoJob)]

ReadJob(c) ==
  /\ session[c].at = "idle"
  /\ \E k \in Keys \cup {NoKey}, p \in Payloads :
       LET asked == Asking("submit", "analysis", k, p)
           found == JobsWith("analysis", k)
       IN IF found = {} THEN session' = [session EXCEPT ![c] = asked]
          ELSE Replay(c, asked, found)
  /\ UNCHANGED <<experiments, jobs>>

SubmitJob(c) ==
  /\ session[c].at = "submit"
  /\ IF JobsWith("analysis", session[c].key) # {}
     THEN /\ session' = [session EXCEPT ![c].at = "reread"]
          /\ UNCHANGED jobs
     ELSE \E j \in FreeJobs :
            /\ jobs' = [jobs EXCEPT ![j] =
                 [state |-> "committed", writer |-> Nobody, kind |-> "analysis",
                  key |-> session[c].key, payload |-> session[c].payload]]
            /\ Answered(c, "accepted", j)
  /\ UNCHANGED experiments

\* After the IntegrityError; a key nobody has any more raises it again.
RereadJob(c) ==
  /\ session[c].at = "reread"
  /\ LET found == JobsWith("analysis", session[c].key)
     IN IF found = {} THEN Answered(c, "error", NoJob) ELSE Replay(c, session[c], found)
  /\ UNCHANGED <<experiments, jobs>>
-----------------------------------------------------------------------------
(* The backfill of a starting process: one transaction *)

\* Wrong variants for mutation runs: no row lock; only experiments with a key.
AnyWithoutJob(e) == experiments[e].source = NoJob

KeyedWithoutJob(e) == AnyWithoutJob(e) /\ experiments[e].key # NoKey

\* WHERE source_job_id IS NULL FOR UPDATE SKIP LOCKED
WithoutJob(e) == experiments[e].source = NoJob /\ experiments[e].writer = Nobody

ActiveExperiments ==
  {e \in Experiments : experiments[e].state = "committed" /\ experiments[e].active}

\* Skipped on account of a request that has flushed its link.
PassedOver ==
  {e \in ActiveExperiments : experiments[e].source = NoJob /\ experiments[e].writer \in Clients}

SelectActive(s) ==
  /\ session[s].at = "off"
  /\ LET found == {e \in ActiveExperiments : WithoutJob(e)}
     IN /\ experiments' =
             [e \in Experiments |->
                IF e \in found THEN [experiments[e] EXCEPT !.writer = s] ELSE experiments[e]]
        /\ session' = [session EXCEPT ![s] =
             [at |-> "find", todo |-> found, passed |-> PassedOver]]
  /\ UNCHANGED jobs

Earliest(todo) == CHOOSE e \in todo : \A f \in todo : e <= f

Attached(s, e, j) ==
  /\ experiments' = [experiments EXCEPT ![e].draft = j]
  /\ session' = [session EXCEPT ![s].at = "find", ![s].todo = @ \ {e}]

\* The SELECT of submit_in_session; a JobConflictError leaves the experiment.
BackfillFind(s) ==
  /\ session[s].at = "find"
  /\ session[s].todo # {}
  /\ LET e == Earliest(session[s].todo)
         found == JobsWith("experiment", experiments[e].key)
     IN IF found = {}
        THEN /\ session' = [session EXCEPT ![s].at = "insert"]
             /\ UNCHANGED experiments
        ELSE LET j == CHOOSE x \in found : TRUE
             IN IF jobs[j].payload = e THEN Attached(s, e, j)
                ELSE /\ session' = [session EXCEPT ![s].todo = @ \ {e}]
                     /\ UNCHANGED experiments
  /\ UNCHANGED jobs

\* The INSERT; an IntegrityError ends the transaction and the start.
BackfillInsert(s) ==
  /\ session[s].at = "insert"
  /\ LET e == Earliest(session[s].todo)
         k == experiments[e].key
     IN /\ InsertingJob(s, "experiment", k) = {}
        /\ IF JobsWith("experiment", k) # {}
           THEN /\ RollBack(s)
                /\ session' = [session EXCEPT ![s] = Off]
           ELSE \E j \in Unused(jobs, Jobs) :
                  NewRecord(j, s, "experiment", k, e) /\ Attached(s, e, j)

BackfillCommit(s) ==
  /\ session[s].at = "find"
  /\ session[s].todo = {}
  /\ experiments' = CommittedExperiments(experiments, s)
  /\ jobs' = CommittedJobs(jobs, s)
  /\ session' = [session EXCEPT ![s].at = "serving"]
-----------------------------------------------------------------------------
(* The surroundings *)

Abort(t, answer) ==
  /\ RollBack(t)
  /\ IF t \in Clients THEN Answered(t, answer, NoJob)
     ELSE session' = [session EXCEPT ![t] = Off]

\* The open transactions t waits for.
WaitsFor(t) ==
  LET s == session[t]
  IN IF t \in Clients /\ s.at = "create" THEN InsertingExperiment(t, s.key)
     ELSE IF t \in Clients /\ s.at = "insert" THEN InsertingJob(t, "experiment", s.key)
     ELSE IF t \in Clients /\ s.at = "link" /\ s.source = NoJob /\ LockedByOther(t, s.record)
     THEN {experiments[s.record].writer}
     ELSE IF t \in Starters /\ s.at = "insert"
     THEN InsertingJob(t, "experiment", experiments[Earliest(s.todo)].key)
     ELSE {}

\* The database breaks a deadlock.
DeadlockVictim(t) == (\E u \in WaitsFor(t) : t \in WaitsFor(u)) /\ Abort(t, "error")

\* A process or its connection dies; its client hears nothing.
Lost(t) == session[t].at \notin {"idle", "off"} /\ Abort(t, "none")

SubmissionNext ==
  \/ \E c \in Clients :
       \/ ReadExperiment(c) \/ InsertExperiment(c) \/ FindJob(c) \/ InsertJob(c)
       \/ Link(c) \/ CommitRequest(c)
       \/ ReadJob(c) \/ SubmitJob(c) \/ RereadJob(c)
  \/ \E s \in Starters :
       SelectActive(s) \/ BackfillFind(s) \/ BackfillInsert(s) \/ BackfillCommit(s)
  \/ \E t \in Transactions : DeadlockVictim(t) \/ Lost(t)

SubmissionSpec == SubmissionInit /\ [][SubmissionNext]_submissionVars

\* A process that ended is started again and its transaction goes on; the database
\* looks for deadlocks.  Nothing is assumed of requests.
SubmissionFairness ==
  /\ \A s \in Starters :
       /\ WF_submissionVars(SelectActive(s)) /\ WF_submissionVars(BackfillFind(s))
       /\ WF_submissionVars(BackfillInsert(s)) /\ WF_submissionVars(BackfillCommit(s))
  /\ WF_submissionVars(\E t \in Transactions : DeadlockVictim(t))

FairSubmissionSpec == SubmissionSpec /\ SubmissionFairness
-----------------------------------------------------------------------------
(* Properties *)

Open(t) == session[t].at \notin {"idle", "off", "serving"}

\* Rows, and what requests and starting processes hold, keep their types; no row is
\* left to a transaction that is over.
SubmissionTypeOK ==
  /\ \A i \in Experiments : experiments[i].writer # Nobody => Open(experiments[i].writer)
  /\ \A i \in Jobs : jobs[i].writer # Nobody => Open(jobs[i].writer)
  /\ experiments \in [Experiments -> ExperimentRow]
  /\ jobs \in [Jobs -> JobRow]
  /\ DOMAIN session = Transactions
  /\ \A c \in Clients : session[c] \in ClientState
  /\ \A s \in Starters : session[s] \in StarterState

\* However requests, starting processes, rollbacks and deadlocks interleave: an
\* experiment has at most one job, the one its source_job_id names, and the two
\* have the same key, so that backfill never meets another experiment's job.
OneJobPerExperiment ==
  /\ SubmissionTypeOK
  /\ \A j \in Jobs :
       jobs[j].state = "committed" /\ jobs[j].kind = "experiment" =>
         LET row == experiments[jobs[j].payload]
         IN row.state = "committed" /\ row.source = j /\ row.key = jobs[j].key
  /\ \A e \in Experiments :
       experiments[e].source # NoJob =>
         LET job == jobs[experiments[e].source]
         IN job.state = "committed" /\ job.kind = "experiment" /\ job.payload = e

\* The request an experiment's or an analysis job was made for.
RequestOf(j) ==
  IF jobs[j].kind = "experiment" THEN experiments[jobs[j].payload].payload
  ELSE jobs[j].payload

KeyHolders(s) ==
  IF s.kind = "experiment" THEN {experiments[e].payload : e \in ExperimentsWith(s.key)}
  ELSE {jobs[j].payload : j \in JobsWith("analysis", s.key)}

\* A client is given a job only if it does what the client asked, under its key;
\* it is told of a conflict only if the key belongs to another request; and
\* submit() never ends with the IntegrityError of a lost race.
AnswersAgree ==
  \A c \in Clients :
    LET s == session[c]
    IN /\ s.answer = "accepted" =>
            /\ jobs[s.job].state = "committed" /\ jobs[s.job].kind = s.kind
            /\ jobs[s.job].key = s.key /\ RequestOf(s.job) = s.payload
       /\ s.answer = "conflict" => KeyHolders(s) \ {s.payload} # {}
       /\ s.answer = "error" => s.kind = "experiment"

\* Once nobody dies any more and requests pause, every active experiment of the
\* time before jobs gets its job from a starting process, unless one that now serves
\* passed it over while a request held its row.
EveryExperimentGetsAJob ==
  /\ <>[][\A t \in Transactions : ~Lost(t)]_submissionVars
  /\ <>[](\A c \in Clients : session[c].at = "idle")
  => <>[](\A e \in Legacy :
            experiments[e].active /\ experiments[e].source = NoJob =>
              \E s \in Starters : session[s].at = "serving" /\ e \in session[s].passed)
=============================================================================
