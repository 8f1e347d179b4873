--------------------------- MODULE DecisionEvidence ---------------------------
(***************************************************************************)
(* The comparison and brief snapshots of one candidate experiment, built   *)
(* on demand by the requests that read them: get_or_build_comparison,      *)
(* get_or_build_brief and the portfolio, which calls both.  Every read and *)
(* every store is a short transaction of its own, and a store overwrites   *)
(* what is there.                                                          *)
(*                                                                         *)
(* A comparison carries its creation time and duration, so two builds over *)
(* the same artifacts have different digests: a comparison is the number   *)
(* of its build, a brief the number of the comparison it cites.            *)
(***************************************************************************)
EXTENDS Naturals, FiniteSets

CONSTANTS
  Requests,    \* GET comparison, report or portfolio
  MaxBuilds    \* bound of the model on comparisons built

VARIABLES
  completed,    \* "candidate" and "baseline", once completed
  comparison,   \* comparison_payload: a build, 0 for none
  brief,        \* brief_payload
  builds,       \* comparisons built so far
  reading,      \* request -> its place, and what it carries
  early         \* requests in flight that began before the first comparison
                \* was stored (ghost)

evidenceVars == <<completed, comparison, brief, builds, reading, early>>

NoBrief == [schema |-> "none", cites |-> 0]

\* asking      get_or_build_comparison is about to read the row
\* building    it saw no comparison; storing: it has built one
\* reporting   get_or_build_brief is about to read the row
\* briefing    it has a comparison to build the brief from
Quiet == [at |-> "quiet", wants |-> "none", holds |-> 0]

EvidenceInit ==
  /\ completed = {}
  /\ comparison = 0
  /\ brief = NoBrief
  /\ builds = 0
  /\ reading = [r \in Requests |-> Quiet]
  /\ early = {}

Is(r, at) == reading[r].at = at
Move(r, at) == reading' = [reading EXCEPT ![r].at = at]
Answer(r) == reading' = [reading EXCEPT ![r] = Quiet] /\ early' = early \ {r}
RowUnchanged == UNCHANGED <<completed, comparison, brief, builds>>
-----------------------------------------------------------------------------
(* Wrong variant for a mutation run. *)

IgnoresTheSnapshot(r) ==
  /\ Is(r, "asking")
  /\ completed = {"candidate", "baseline"}
  /\ Move(r, "building")
  /\ RowUnchanged /\ UNCHANGED early
-----------------------------------------------------------------------------
(* Rows *)

CompleteExperiment(which) ==
  /\ which \notin completed
  /\ completed' = completed \cup {which}
  /\ UNCHANGED <<comparison, brief, builds, reading, early>>

\* The row an earlier release left: a brief of its schema, and the
\* comparison it was built from.
LegacyRow ==
  /\ "candidate" \in completed /\ comparison = 0 /\ builds = 0 /\ brief = NoBrief
  /\ \A r \in Requests : Is(r, "quiet")
  /\ comparison' = 1 /\ builds' = 1
  /\ brief' = [schema |-> "legacy", cites |-> 1]
  /\ UNCHANGED <<completed, reading, early>>
-----------------------------------------------------------------------------
(* Requests *)

Get(r) ==
  /\ Is(r, "quiet")
  /\ \E wants \in {"comparison", "brief", "portfolio"} :
       /\ wants = "portfolio" => "candidate" \in completed   \* list_completed_candidates
       /\ reading' = [reading EXCEPT ![r] =
            [Quiet EXCEPT !.wants = wants,
                          !.at = IF wants = "brief" THEN "reporting" ELSE "asking"]]
  /\ early' = IF comparison = 0 THEN early \cup {r} ELSE early
  /\ RowUnchanged

\* Both payloads of the listed row are there and validate.
PortfolioFromTheRow(r) ==
  /\ Is(r, "asking") /\ reading[r].wants = "portfolio"
  /\ comparison # 0 /\ brief.schema = "current"
  /\ Answer(r)
  /\ RowUnchanged

\* A comparison in hand goes to the answer, to the portfolio's call of
\* get_or_build_brief, or to the brief being built.
HoldComparison(r, build, wants) ==
  CASE wants = "comparison" -> Answer(r)
    [] wants = "portfolio" ->
         /\ reading' = [reading EXCEPT ![r].at = "reporting", ![r].wants = "brief"]
         /\ UNCHANGED early
    [] OTHER ->
         /\ reading' = [reading EXCEPT ![r].at = "briefing", ![r].holds = build]
         /\ UNCHANGED early

AskComparison(r) ==
  /\ Is(r, "asking")
  /\ CASE comparison # 0 -> HoldComparison(r, comparison, reading[r].wants)
       [] comparison = 0 /\ completed = {"candidate", "baseline"} ->
            Move(r, "building") /\ UNCHANGED early
       [] OTHER -> Answer(r)          \* 409: not completed, or no baseline
  /\ RowUnchanged

\* Both artifacts are loaded and compared, outside any transaction.
BuildComparison(r) ==
  /\ Is(r, "building") /\ builds < MaxBuilds
  /\ builds' = builds + 1
  /\ reading' = [reading EXCEPT ![r].at = "storing", ![r].holds = builds + 1]
  /\ UNCHANGED <<completed, comparison, brief, early>>

BuildFails(r) ==
  /\ Is(r, "building")
  /\ Answer(r)                        \* an artifact is missing, or incompatible
  /\ RowUnchanged

\* The store does not look at what it replaces.
StoreComparison(r) ==
  /\ Is(r, "storing")
  /\ comparison' = reading[r].holds
  /\ HoldComparison(r, reading[r].holds, reading[r].wants)
  /\ UNCHANGED <<completed, brief, builds>>

\* A current brief is the answer; a legacy one is rebuilt.
AskBrief(r) ==
  /\ Is(r, "reporting")
  /\ IF brief.schema = "current" THEN Answer(r) ELSE Move(r, "asking") /\ UNCHANGED early
  /\ RowUnchanged

StoreBrief(r) ==
  /\ Is(r, "briefing")
  /\ brief' = [schema |-> "current", cites |-> reading[r].holds]
  /\ Answer(r)
  /\ UNCHANGED <<completed, comparison, builds>>

EvidenceNext ==
  \/ \E which \in {"candidate", "baseline"} : CompleteExperiment(which)
  \/ LegacyRow
  \/ \E r \in Requests :
       \/ Get(r) \/ PortfolioFromTheRow(r)
       \/ AskComparison(r) \/ BuildComparison(r) \/ BuildFails(r) \/ StoreComparison(r)
       \/ AskBrief(r) \/ StoreBrief(r)

EvidenceSpec == EvidenceInit /\ [][EvidenceNext]_evidenceVars
-----------------------------------------------------------------------------
\* Requests may overwrite each other's comparison, but only those that were
\* already in flight when the first one was stored: once they have ended, the
\* comparison every later request reads is final.
SnapshotSettles ==
  [][(comparison # 0 /\ early = {}) => comparison' = comparison]_evidenceVars
=============================================================================
