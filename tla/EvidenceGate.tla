----------------------------- MODULE EvidenceGate -----------------------------
(***************************************************************************)
(* From replications to a recommendation: the distributions of an          *)
(* experiment, the paired comparison of a candidate with its baseline, the *)
(* executive brief and the frontier of the portfolio.                      *)
(*                                                                         *)
(* Metric values are integers, means are kept as totals and probabilities  *)
(* as counts, both over the number of replications, so every comparison of *)
(* the code is one of integers here.  Quantiles, CVaR, wording, dates and  *)
(* digests are left out.  A Wilson interval is the number of breaches it   *)
(* was computed from: it is an increasing function of that number.         *)
(***************************************************************************)
EXTENDS Integers, Sequences, FiniteSets, FiniteSetsExt

CONSTANTS
  Baselines,         \* baselines: records [id, provenance, tapes, baseline, replications]
  Candidates,          \* candidates
  Materiality,          \* metric -> materiality_threshold
  Guardrail,            \* metric -> threshold of its guardrail
  MinimumReplications,  \* _MINIMUM_DECISION_REPLICATIONS
  MaxPortfolio          \* bound of the model on candidates of a portfolio

VARIABLES
  baseline,     \* the baseline experiment, as a set of at most one
  portfolio     \* summaries of the candidates compared with it

gateVars == <<baseline, portfolio>>

GateInit == baseline = {} /\ portfolio = {}

Metrics == {"ebitda", "free_cash_flow", "closing_cash", "otif", "rescue_funding"}
Higher(m) == m # "rescue_funding"          \* improvement_direction; breach_when "below"
Size(e) == Len(e.replications)
Value(e, i, m) == e.replications[i][m]
Total(e, m) == SumFunction([i \in 1..Size(e) |-> Value(e, i, m)])
Breaches(m, value) == IF Higher(m) THEN value < Guardrail[m] ELSE value > Guardrail[m]
BreachCount(e, m) == Cardinality({i \in 1..Size(e) : Breaches(m, Value(e, i, m))})

\* What the experiments of the code are: at least one replication, integer cents and
\* units, rescue funding that is never negative, an id of their own.
ASSUME GateAssumption ==
  /\ \A e \in Baselines \cup Candidates :
       /\ e.replications \in Seq([Metrics -> Int]) /\ Size(e) > 0
       /\ \A i \in 1..Size(e) : Value(e, i, "rescue_funding") >= 0
  /\ \A c, d \in Candidates : c.id = d.id => c = d
  /\ Materiality \in [Metrics -> Nat] /\ Guardrail \in [Metrics -> Int]
  /\ MinimumReplications \in Nat \ {0}

MaterialDownside(x) == x.material /\ x.gain < 0
MaterialImprovement(x) == x.material /\ x.gain > 0
-----------------------------------------------------------------------------
(* Wrong variants, each named for the bug it plants, for mutation runs.    *)

OnlyDeclinesCount(x) == {m \in Metrics : MaterialDownside(x[m])}
OverlooksRescue(e) == BreachCount(e, "closing_cash")
AtLeastAsGood(x, y) == \A m \in DOMAIN x.delta : x.delta[m] >= y.delta[m]
-----------------------------------------------------------------------------
(* summarize_distribution and summarize_replication_metric *)

\* A replication that needed rescue funding breaches the cash guardrail.
RescuedCount(e) ==
  Cardinality({i \in 1..Size(e) :
    Breaches("closing_cash", Value(e, i, "closing_cash")) \/ Value(e, i, "rescue_funding") > 0})

Distribution(e, m) ==
  [total |-> Total(e, m),
   breaches |-> IF m = "closing_cash" THEN RescuedCount(e) ELSE BreachCount(e, m),
   interval_of |-> BreachCount(e, m)]
-----------------------------------------------------------------------------
(* compare_experiments *)

\* _validate_experiment_compatibility: versions, seed, plugins, rules,
\* lifecycle and guardrails are one provenance here.
Compatible(b, c) ==
  /\ b.provenance = c.provenance
  /\ Size(b) = Size(c)
  /\ b.tapes = c.tapes
  /\ c.baseline = b.id

\* Two-sided 95% Student-t critical values, in hundredths.
Critical == <<1271, 430, 318, 278>>

Magnitude(x) == IF x < 0 THEN -x ELSE x

\* _summarize_metric_comparison.  ci95_lower > 0 (or ci95_upper < 0) without
\* the root: mean > t * stdev / sqrt(n), squared and multiplied out.
MetricComparison(b, c, m) ==
  LET n == Size(c)
      sign == IF Higher(m) THEN 1 ELSE -1
      gains == [i \in 1..n |-> sign * (Value(c, i, m) - Value(b, i, m))]
      total == SumFunction(gains)
      squares == SumFunction([i \in 1..n |-> gains[i] * gains[i]])
  IN [gain |-> total,                                  \* in its own direction
      improvements |-> Cardinality({i \in 1..n : gains[i] > 0}),
      certain |-> /\ n > 1 /\ total > 0
                  /\ total * total * (n - 1) * 10000
                       > Critical[n - 1] * Critical[n - 1] * (n * squares - total * total),
      material |-> Magnitude(total) > n * Materiality[m],
      breaches |-> Distribution(c, m).breaches]

CompareExperiments(b, c) == [m \in Metrics |-> MetricComparison(b, c, m)]
-----------------------------------------------------------------------------
(* build_executive_brief, from the comparison x of n pairs *)

Grade(n) == IF n >= MinimumReplications THEN "decision_grade" ELSE "exploratory"

\* _constraints, with the ones of severity "breach".
Constraints(x) == {m \in Metrics : x[m].breaches > 0 \/ MaterialDownside(x[m])}
HardConstraints(x, n) == {m \in Constraints(x) : 2 * x[m].breaches >= n}

DecisionStatus(x, n) ==
  CASE HardConstraints(x, n) # {} -> "do_not_adopt"
    [] HardConstraints(x, n) = {} /\ MaterialDownside(x["ebitda"])
         /\ 10 * x["ebitda"].improvements < 4 * n -> "do_not_adopt"
    [] OTHER ->
         IF /\ Grade(n) = "decision_grade" /\ Constraints(x) = {}
            /\ MaterialImprovement(x["ebitda"]) /\ x["ebitda"].certain
            /\ 10 * x["ebitda"].improvements >= 6 * n
         THEN "adopt" ELSE "conditional"

\* _evidence_metric_ids
Evidence(x, status) ==
  {"ebitda"} \cup Constraints(x)
    \cup {m \in {"free_cash_flow"} : x[m].material \/ status # "adopt"}

\* _execution_actions and _governance: the first action, then the reviews.
FirstAction(n) ==
  IF Grade(n) = "exploratory" THEN "run_decision_grade_experiment" ELSE "record_decision"
Reviews(x) == IF Constraints(x) = {} THEN {"value_realisation"} ELSE Constraints(x)

\* _headline
Headline(x, n, status) ==
  CASE status = "do_not_adopt" ->
         IF \E m \in Metrics : 2 * x[m].breaches >= n THEN "breach_risk" ELSE "ebitda_loss"
    [] status # "do_not_adopt" /\ Grade(n) = "exploratory" -> "hold"
    [] OTHER -> IF status = "adopt" THEN "adopt" ELSE "pilot"

ExecutiveBrief(x, n) ==
  LET status == DecisionStatus(x, n)
  IN [status |-> status, headline |-> Headline(x, n, status),
      evidence |-> Evidence(x, status), actions |-> Reviews(x) \cup {FirstAction(n)}]
-----------------------------------------------------------------------------
(* _build_decision_summary and build_policy_frontier *)

Summary(b, c, x) ==
  [experiment |-> c, brief |-> ExecutiveBrief(x, Size(c)), grade |-> Grade(Size(c)),
   hard_constraint_count |-> Cardinality(HardConstraints(x, Size(c))),
   delta |-> [m \in {"ebitda", "free_cash_flow", "otif"} |-> x[m].gain]]

\* Every candidate of a portfolio has as many replications as its baseline,
\* so means compare as totals do.
Dominates(x, y) ==
  /\ \A m \in DOMAIN x.delta : x.delta[m] >= y.delta[m]
  /\ \E m \in DOMAIN x.delta : x.delta[m] > y.delta[m]

Eligible ==
  {s \in portfolio : s.grade = "decision_grade" /\ s.brief.status # "do_not_adopt"
                     /\ s.hard_constraint_count = 0}
Frontier ==
  {s \in Eligible :
     ~\E o \in Eligible : o.experiment.id # s.experiment.id /\ Dominates(o, s)}
-----------------------------------------------------------------------------
RunBaseline(e) ==
  /\ baseline = {}
  /\ baseline' = {e}
  /\ UNCHANGED portfolio

\* An incompatible candidate is refused (InvariantViolation).
Compare(b, c) ==
  /\ \A s \in portfolio : s.experiment # c
  /\ Cardinality(portfolio) < MaxPortfolio
  /\ Compatible(b, c)
  /\ portfolio' = portfolio \cup {Summary(b, c, CompareExperiments(b, c))}
  /\ UNCHANGED baseline

GateNext ==
  \/ \E e \in Baselines : RunBaseline(e)
  \/ \E b \in baseline, c \in Candidates : Compare(b, c)

GateSpec == GateInit /\ [][GateNext]_gateVars
-----------------------------------------------------------------------------
\* "Adopt" against the raw replications: there are enough of them, none of
\* the candidate's breaches a guardrail or was rescued, no metric is worse on
\* average by more than its threshold, EBITDA improves in most pairs, and the
\* reverse comparison would not be an "adopt" too.
AdoptionIsEarned ==
  \A b \in baseline, s \in portfolio : s.brief.status = "adopt" =>
    LET c == s.experiment
    IN /\ Size(c) >= MinimumReplications
       /\ \A i \in 1..Size(c), m \in Metrics : ~Breaches(m, Value(c, i, m))
       /\ \A i \in 1..Size(c) : Value(c, i, "rescue_funding") = 0
       /\ \A m \in Metrics \ {"rescue_funding"} :
            Total(c, m) >= Total(b, m) - Size(c) * Materiality[m]
       /\ 2 * Cardinality({i \in 1..Size(c) :
                             Value(c, i, "ebitda") > Value(b, i, "ebitda")}) > Size(c)
       /\ DecisionStatus(CompareExperiments(c, b), Size(b)) # "adopt"
       /\ s.brief.headline = "adopt" /\ "record_decision" \in s.brief.actions

\* Every metric that breaches its guardrail in some replication of the
\* candidate, and cash in every rescued one, is cited as evidence and reviewed
\* whatever the recommendation; a headline about breach risk has a metric to
\* name.
BreachesAreFollowedUp ==
  \A s \in portfolio :
    LET c == s.experiment
        followed == s.brief.evidence \cap s.brief.actions
    IN /\ \A i \in 1..Size(c), m \in Metrics : Breaches(m, Value(c, i, m)) => m \in followed
       /\ \A i \in 1..Size(c) : Value(c, i, "rescue_funding") > 0 => "closing_cash" \in followed
       /\ s.brief.headline = "breach_risk" =>
            \E m \in followed : 2 * Distribution(c, m).breaches >= Size(c)

\* The frontier is efficient and complete: no point of it is dominated, and
\* every eligible candidate left out is dominated by a point of it (not only
\* by some other candidate that was itself left out).
FrontierIsEfficient ==
  /\ \A s, o \in Frontier : ~Dominates(s, o)
  /\ \A s \in Eligible \ Frontier : \E o \in Frontier : Dominates(o, s)

\* docs/model.md: breaches "report bounded 95% Wilson score intervals", and
\* "Closing-cash breach probability also counts any replication that required
\* rescue funding": the interval is the one of the probability it stands by.
BreachIntervalIsOfItsProbability ==
  \A s \in portfolio, m \in Metrics :
    Distribution(s.experiment, m).interval_of = Distribution(s.experiment, m).breaches
=============================================================================
