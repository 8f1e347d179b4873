---------------------------- MODULE AnalyticsProofs ----------------------------
(***************************************************************************)
(* The evidence gate, its frontier and the adaptive controller, for every  *)
(* portfolio, evaluation and stream of observations; and the search, for   *)
(* every set of evaluations, initial population and draw.                  *)
(***************************************************************************)
EXTENDS EvidenceGate, AdaptivePolicy, Optimizer, FiniteSetLemmas
-----------------------------------------------------------------------------
(* The evidence gate: every summary in the portfolio is the one of a        *)
(* candidate that is compatible with the baseline.                          *)

Measured == Baselines \cup Candidates

GateInv ==
  /\ IsFiniteSet(portfolio)
  /\ baseline \subseteq Baselines
  /\ \A a, b \in baseline : a = b
  /\ \A s \in portfolio : \E b \in baseline, c \in Candidates :
       Compatible(b, c) /\ s = Summary(b, c, CompareExperiments(b, c))

\* The invariant of the gate, from an empty portfolio on.
LEMMA GateHolds == GateSpec => []GateInv
<1>1. GateInit => GateInv BY FS_EmptySet DEF GateInit, GateInv
<1>2. GateInv /\ [GateNext]_gateVars => GateInv'
  <2> SUFFICES ASSUME GateInv, [GateNext]_gateVars PROVE GateInv' OBVIOUS
  <2>1. CASE UNCHANGED gateVars BY <2>1 DEF gateVars, GateInv
  <2>2. ASSUME NEW e \in Baselines, RunBaseline(e) PROVE GateInv'
    BY <2>2 DEF RunBaseline, GateInv
  <2>3. ASSUME NEW b \in baseline, NEW c \in Candidates, Compare(b, c) PROVE GateInv'
    <3> DEFINE s == Summary(b, c, CompareExperiments(b, c))
    <3>1. portfolio' = portfolio \cup {s} /\ Compatible(b, c) /\ UNCHANGED baseline
      BY <2>3 DEF Compare
    <3> HIDE DEF s
    <3>2. IsFiniteSet(portfolio') BY <3>1, FS_AddElement DEF GateInv
    <3>3. \A t \in portfolio' : \E a \in baseline', d \in Candidates :
            Compatible(a, d) /\ t = Summary(a, d, CompareExperiments(a, d))
      BY <3>1 DEF GateInv, s
    <3> QED BY <3>1, <3>2, <3>3 DEF GateInv
  <2> QED BY <2>1, <2>2, <2>3 DEF GateNext
<1> QED BY <1>1, <1>2, PTL DEF GateSpec

\* What the assumption on the candidates says of one experiment.
LEMMA ReplicationFacts ==
  ASSUME NEW e \in Measured
  PROVE  /\ Size(e) \in Nat \ {0}
         /\ IsFiniteSet(1..Size(e))
         /\ \A i \in 1..Size(e), m \in Metrics : Value(e, i, m) \in Int
         /\ \A i \in 1..Size(e) : Value(e, i, "rescue_funding") >= 0
<1>1. e.replications \in Seq([Metrics -> Int]) /\ Size(e) > 0
  BY GateAssumption DEF Measured
<1>2. Size(e) \in Nat \ {0} BY <1>1 DEF Size
<1>3. \A i \in 1..Size(e) : e.replications[i] \in [Metrics -> Int] BY <1>1 DEF Size
<1>4. \A i \in 1..Size(e), m \in Metrics : Value(e, i, m) \in Int BY <1>3 DEF Value
<1>5. IsFiniteSet(1..Size(e)) BY <1>2, FS_Interval
<1>6. \A i \in 1..Size(e) : Value(e, i, "rescue_funding") >= 0 BY GateAssumption DEF Measured
<1> QED BY <1>2, <1>4, <1>5, <1>6

\* The number of replications with a property: it is 0 exactly if none has it.
LEMMA CountFacts ==
  ASSUME NEW n \in Nat, NEW T \in SUBSET (1..n)
  PROVE  Cardinality(T) \in Nat /\ (Cardinality(T) = 0 <=> T = {})
<1>1. IsFiniteSet(1..n) BY FS_Interval
<1>2. IsFiniteSet(T) BY <1>1, FS_Subset
<1> QED BY <1>2, FS_EmptySet, FS_CardinalityType

\* The sum of a metric over the replications is an integer.
LEMMA TotalIsInteger ==
  ASSUME NEW e \in Measured, NEW m \in Metrics
  PROVE  Total(e, m) \in Int
<1> DEFINE f == [i \in 1..Size(e) |-> Value(e, i, m)]
<1>1. \A i \in 1..Size(e) : f[i] \in Int BY ReplicationFacts
<1>2. DOMAIN f = 1..Size(e) OBVIOUS
<1>3. Total(e, m) = SumFunctionOnSet(f, 1..Size(e)) BY <1>2 DEF Total, SumFunction
<1> HIDE DEF f
<1> QED BY <1>1, <1>3, ReplicationFacts, SumType

\* A comparison's gain is an integer, and for a metric that is better when it is
\* higher the difference of the totals.
LEMMA GainFacts ==
  ASSUME NEW b \in Measured, NEW c \in Measured, Size(b) = Size(c), NEW m \in Metrics
  PROVE  /\ MetricComparison(b, c, m).gain \in Int
         /\ Higher(m) => MetricComparison(b, c, m).gain = Total(c, m) - Total(b, m)
<1> DEFINE n == Size(c)
           sign == IF Higher(m) THEN 1 ELSE -1
           f == [i \in 1..n |-> Value(c, i, m)]
           g == [i \in 1..n |-> Value(b, i, m)]
           h == [i \in 1..n |-> sign * (Value(c, i, m) - Value(b, i, m))]
<1>1. MetricComparison(b, c, m).gain = SumFunction(h) BY DEF MetricComparison
<1>2. SumFunction(h) = SumFunctionOnSet(h, 1..n) BY DEF SumFunction
<1>3. Total(c, m) = SumFunctionOnSet(f, 1..n) BY DEF Total, SumFunction
<1>4. Total(b, m) = SumFunctionOnSet(g, 1..n) BY DEF Total, SumFunction
<1>5. \A i \in 1..n : Value(c, i, m) \in Int /\ Value(b, i, m) \in Int BY ReplicationFacts
<1>6. \A i \in 1..n : f[i] \in Int /\ g[i] \in Int /\ h[i] \in Int BY <1>5
<1>7. Higher(m) => \A i \in 1..n : h[i] = f[i] - g[i] BY <1>5
<1>8. IsFiniteSet(1..n) BY ReplicationFacts
<1> HIDE DEF n, f, g, h
<1>9. SumFunctionOnSet(h, 1..n) \in Int BY <1>6, <1>8, SumType
<1>10. Higher(m) => SumFunctionOnSet(h, 1..n) =
                      SumFunctionOnSet(f, 1..n) - SumFunctionOnSet(g, 1..n)
  BY <1>6, <1>7, <1>8, SumOfDifference
<1> QED BY <1>1, <1>2, <1>3, <1>4, <1>9, <1>10

\* What a comparison says of breaches: it counts them all, and rescues with those of cash.
LEMMA BreachFacts ==
  ASSUME NEW b, NEW c \in Measured, NEW m \in Metrics
  PROVE  /\ MetricComparison(b, c, m).breaches = Distribution(c, m).breaches
         /\ MetricComparison(b, c, m).breaches \in Nat
         /\ \A i \in 1..Size(c) : Breaches(m, Value(c, i, m)) =>
              MetricComparison(b, c, m).breaches > 0
         /\ m = "closing_cash" => \A i \in 1..Size(c) :
              Value(c, i, "rescue_funding") > 0 => MetricComparison(b, c, m).breaches > 0
<1> DEFINE n == Size(c)
           Breached == {i \in 1..n : Breaches(m, Value(c, i, m))}
           Rescued == {i \in 1..n : Breaches("closing_cash", Value(c, i, "closing_cash"))
                                     \/ Value(c, i, "rescue_funding") > 0}
           T == IF m = "closing_cash" THEN Rescued ELSE Breached
<1>1. MetricComparison(b, c, m).breaches = Distribution(c, m).breaches BY DEF MetricComparison
<1>2. Distribution(c, m).breaches = Cardinality(T)
  BY DEF Distribution, RescuedCount, BreachCount
<1>3. n \in Nat BY ReplicationFacts
<1>4. T \in SUBSET (1..n) OBVIOUS
<1>5. \A i \in 1..n : Breaches(m, Value(c, i, m)) => i \in T OBVIOUS
<1>6. m = "closing_cash" => \A i \in 1..n : Value(c, i, "rescue_funding") > 0 => i \in T OBVIOUS
<1> HIDE DEF T, n
<1>7. Cardinality(T) \in Nat /\ (Cardinality(T) = 0 <=> T = {}) BY <1>3, <1>4, CountFacts
<1> QED BY <1>1, <1>2, <1>5, <1>6, <1>7 DEF n

\* A summary of the portfolio, taken apart.
LEMMA SummaryFacts ==
  ASSUME GateInv, NEW s \in portfolio
  PROVE  \E b \in baseline, c \in Candidates :
           /\ b \in Measured /\ c \in Measured
           /\ Size(b) = Size(c) /\ s.experiment = c
           /\ s.brief = ExecutiveBrief(CompareExperiments(b, c), Size(c))
           /\ s.delta = [m \in {"ebitda", "free_cash_flow", "otif"} |-> CompareExperiments(b, c)[m].gain]
<1> PICK b \in baseline, c \in Candidates :
      Compatible(b, c) /\ s = Summary(b, c, CompareExperiments(b, c))
  BY DEF GateInv
<1>1. b \in Measured /\ c \in Measured BY DEF GateInv, Measured
<1>2. Size(b) = Size(c) BY DEF Compatible
<1> QED BY <1>1, <1>2 DEF Summary

\* Every breach and every rescue is cited and reviewed, and a headline of breach risk
\* has a metric to name: the constraints of a brief are among its evidence and, where
\* there are any, its reviews.
LEMMA BreachesLeaveATrace ==
  ASSUME GateInv
  PROVE  BreachesAreFollowedUp
<1> SUFFICES ASSUME NEW s \in portfolio
             PROVE  LET c == s.experiment
                        followed == s.brief.evidence \cap s.brief.actions
                    IN /\ \A i \in 1..Size(c), m \in Metrics :
                            Breaches(m, Value(c, i, m)) => m \in followed
                       /\ \A i \in 1..Size(c) :
                            Value(c, i, "rescue_funding") > 0 => "closing_cash" \in followed
                       /\ s.brief.headline = "breach_risk" =>
                            \E m \in followed : 2 * Distribution(c, m).breaches >= Size(c)
  BY DEF BreachesAreFollowedUp
<1> PICK b \in baseline, c \in Candidates :
           /\ b \in Measured /\ c \in Measured
           /\ Size(b) = Size(c) /\ s.experiment = c
           /\ s.brief = ExecutiveBrief(CompareExperiments(b, c), Size(c))
  BY SummaryFacts
<1> DEFINE x == CompareExperiments(b, c)
           followed == s.brief.evidence \cap s.brief.actions
<1>1. Constraints(x) \subseteq followed
  BY DEF ExecutiveBrief, Evidence, Reviews
<1>2. \A m \in Metrics : x[m] = MetricComparison(b, c, m) BY DEF CompareExperiments
<1>3. \A m \in Metrics : x[m].breaches > 0 => m \in followed
  <2> HIDE DEF x
  <2> QED BY <1>1 DEF Constraints
<1>4. \A i \in 1..Size(c), m \in Metrics : Breaches(m, Value(c, i, m)) => m \in followed
  BY <1>2, <1>3, BreachFacts
<1>5. \A i \in 1..Size(c) : Value(c, i, "rescue_funding") > 0 => "closing_cash" \in followed
  BY <1>2, <1>3, BreachFacts DEF Metrics
<1>6. ASSUME s.brief.headline = "breach_risk"
      PROVE  \E m \in followed : 2 * Distribution(c, m).breaches >= Size(c)
  <2>1. Headline(x, Size(c), DecisionStatus(x, Size(c))) = "breach_risk"
    BY <1>6 DEF ExecutiveBrief
  <2>2. PICK m \in Metrics : 2 * x[m].breaches >= Size(c)
    <3> HIDE DEF x
    <3> QED BY <2>1 DEF Headline
  <2>3. x[m].breaches \in Nat /\ x[m].breaches = Distribution(c, m).breaches
    BY <1>2, BreachFacts
  <2>4. x[m].breaches > 0 BY <2>2, <2>3, ReplicationFacts
  <2> QED BY <1>3, <2>2, <2>3, <2>4
<1> QED BY <1>4, <1>5, <1>6

\* Whatever was simulated: every metric that breaches its guardrail in one replication
\* is cited and reviewed, and a headline on breach risk has a metric to name
\* (compare_experiments and build_executive_brief).
THEOREM BreachesAlwaysFollowedUp == GateSpec => []BreachesAreFollowedUp
<1> QED BY GateHolds, BreachesLeaveATrace, PTL
\* Twice the pairs a metric that is better when higher improved in, against all pairs.
LEMMA ImprovementFacts ==
  ASSUME NEW b \in Measured, NEW c \in Measured, Size(b) = Size(c), NEW m \in Metrics, Higher(m)
  PROVE  /\ MetricComparison(b, c, m).improvements =
              Cardinality({i \in 1..Size(c) : Value(c, i, m) > Value(b, i, m)})
         /\ MetricComparison(b, c, m).improvements \in Nat
<1> DEFINE n == Size(c)
           sign == IF Higher(m) THEN 1 ELSE -1
           gains == [i \in 1..n |-> sign * (Value(c, i, m) - Value(b, i, m))]
           Up == {i \in 1..n : gains[i] > 0}
           Better == {i \in 1..n : Value(c, i, m) > Value(b, i, m)}
<1>1. MetricComparison(b, c, m).improvements = Cardinality(Up) BY DEF MetricComparison
<1>2. \A i \in 1..n : Value(c, i, m) \in Int /\ Value(b, i, m) \in Int BY ReplicationFacts
<1>3. Up = Better BY <1>2
<1>4. n \in Nat /\ Better \in SUBSET (1..n) BY ReplicationFacts
<1>5. Cardinality(Better) \in Nat
  <2> HIDE DEF Better, n
  <2> QED BY <1>4, CountFacts
<1> QED BY <1>1, <1>3, <1>5

\* What it takes to be recommended for adoption.
LEMMA AdoptMeans ==
  ASSUME NEW x, NEW n, DecisionStatus(x, n) = "adopt"
  PROVE  /\ Grade(n) = "decision_grade" /\ Constraints(x) = {}
         /\ MaterialImprovement(x["ebitda"])
         /\ 10 * x["ebitda"].improvements >= 6 * n
BY DEF DecisionStatus

\* An "adopt" of a summary in the portfolio, traced back to the replications.
LEMMA AdoptionsAreSound ==
  ASSUME GateInv
  PROVE  AdoptionIsEarned
<1> SUFFICES
      ASSUME NEW b \in baseline, NEW s \in portfolio, s.brief.status = "adopt"
      PROVE  LET c == s.experiment
             IN /\ Size(c) >= MinimumReplications
                /\ \A i \in 1..Size(c), m \in Metrics : ~Breaches(m, Value(c, i, m))
                /\ \A i \in 1..Size(c) : Value(c, i, "rescue_funding") = 0
                /\ \A m \in Metrics \ {"rescue_funding"} :
                     Total(c, m) >= Total(b, m) - Size(c) * Materiality[m]
                /\ 2 * Cardinality({i \in 1..Size(c) :
                                      Value(c, i, "ebitda") > Value(b, i, "ebitda")}) > Size(c)
                /\ DecisionStatus(CompareExperiments(c, b), Size(b)) # "adopt"
                /\ s.brief.headline = "adopt" /\ "record_decision" \in s.brief.actions
  BY DEF AdoptionIsEarned
<1> PICK c \in Candidates :
      /\ b \in Measured /\ c \in Measured
      /\ Size(b) = Size(c) /\ s.experiment = c
      /\ s.brief = ExecutiveBrief(CompareExperiments(b, c), Size(c))
  BY SummaryFacts DEF GateInv
<1> DEFINE x == CompareExperiments(b, c)
           n == Size(c)
<1>1. \A m \in Metrics : x[m] = MetricComparison(b, c, m) BY DEF CompareExperiments
<1>2. "ebitda" \in Metrics /\ "closing_cash" \in Metrics /\ Higher("ebitda") BY DEF Metrics, Higher
<1>3. n \in Nat \ {0} BY ReplicationFacts
<1>4. DecisionStatus(x, n) = "adopt" BY DEF ExecutiveBrief
<1> HIDE DEF x
<1>5. /\ Grade(n) = "decision_grade" /\ Constraints(x) = {}
      /\ MaterialImprovement(x["ebitda"])
      /\ 10 * x["ebitda"].improvements >= 6 * n
  BY <1>4, AdoptMeans
<1>6. \A m \in Metrics : ~(x[m].breaches > 0) /\ ~MaterialDownside(x[m])
  BY <1>5 DEF Constraints
<1>7. n >= MinimumReplications BY <1>5 DEF Grade
<1>8. \A i \in 1..n, m \in Metrics : ~Breaches(m, Value(c, i, m)) BY <1>1, <1>6, BreachFacts
<1>9. ASSUME NEW i \in 1..n PROVE Value(c, i, "rescue_funding") = 0
  <2>1. ~(Value(c, i, "rescue_funding") > 0) BY <1>1, <1>2, <1>6, BreachFacts
  <2>2. Value(c, i, "rescue_funding") \in Int /\ Value(c, i, "rescue_funding") >= 0
    BY ReplicationFacts DEF Metrics
  <2> QED BY <2>1, <2>2
<1>10. ASSUME NEW m \in Metrics \ {"rescue_funding"}
       PROVE  Total(c, m) >= Total(b, m) - n * Materiality[m]
  <2>1. x[m].gain = Total(c, m) - Total(b, m) BY <1>1, GainFacts DEF Higher
  <2>2. Magnitude(x[m].gain) > n * Materiality[m] => x[m].material
    <3>1. Magnitude(MetricComparison(b, c, m).gain) > Size(c) * Materiality[m]
            => MetricComparison(b, c, m).material
      BY ZenonT(60) DEF MetricComparison
    <3> QED BY <1>1, <3>1
  <2>0. n * Materiality[m] \in Nat
    <3>1. Materiality[m] \in Nat BY GateAssumption
    <3> QED BY <1>3, <3>1
  <2> PICK t \in Int, u \in Int, g \in Int, k \in Int :
        t = Total(c, m) /\ u = Total(b, m) /\ g = x[m].gain /\ k = n * Materiality[m]
    BY <2>0, <2>1, TotalIsInteger
  <2>3. ~(Magnitude(g) > k /\ g < 0) BY <1>6, <2>2 DEF MaterialDownside
  <2>4. k >= 0 BY <2>0
  <2>5. g = t - u /\ (g < 0 => Magnitude(g) = -g) BY <2>1 DEF Magnitude
  <2>6. t >= u - k BY <2>3, <2>4, <2>5
  <2> QED BY <2>6
<1>11. 2 * Cardinality({i \in 1..n : Value(c, i, "ebitda") > Value(b, i, "ebitda")}) > n
  <2>1. /\ x["ebitda"].improvements =
             Cardinality({i \in 1..n : Value(c, i, "ebitda") > Value(b, i, "ebitda")})
        /\ x["ebitda"].improvements \in Nat
    BY <1>1, <1>2, ImprovementFacts
  <2>2. 10 * x["ebitda"].improvements >= 6 * n => 2 * x["ebitda"].improvements > n
    BY <1>3, <2>1
  <2> QED BY <1>5, <2>1, <2>2
<1>12. DecisionStatus(CompareExperiments(c, b), Size(b)) # "adopt"
  <2> DEFINE y == CompareExperiments(c, b)
  <2>1. y["ebitda"] = MetricComparison(c, b, "ebitda") BY <1>2 DEF CompareExperiments
  <2>2. /\ x["ebitda"].gain = Total(c, "ebitda") - Total(b, "ebitda")
        /\ y["ebitda"].gain = Total(b, "ebitda") - Total(c, "ebitda")
    BY <1>1, <1>2, <2>1, GainFacts
  <2>3. Total(c, "ebitda") \in Int /\ Total(b, "ebitda") \in Int BY <1>2, TotalIsInteger
  <2> HIDE DEF y
  <2>4. x["ebitda"].gain > 0 BY <1>5 DEF MaterialImprovement
  <2>5. ~MaterialImprovement(y["ebitda"]) BY <2>2, <2>3, <2>4 DEF MaterialImprovement
  <2> QED BY <2>5, AdoptMeans DEF y
<1>13. s.brief.headline = "adopt" /\ "record_decision" \in s.brief.actions
  <2>1. Grade(n) # "exploratory" BY <1>5
  <2>2. Headline(x, n, "adopt") = "adopt" BY <2>1 DEF Headline
  <2>3. s.brief = ExecutiveBrief(x, n) BY DEF x
  <2>4. s.brief.headline = Headline(x, n, DecisionStatus(x, n)) /\ FirstAction(n) \in s.brief.actions
    BY <2>3 DEF ExecutiveBrief
  <2>5. FirstAction(n) = "record_decision" BY <2>1 DEF FirstAction
  <2> QED BY <1>4, <2>2, <2>4, <2>5
<1> QED BY <1>7, <1>8, <1>9, <1>10, <1>11, <1>12, <1>13

\* Whatever was simulated: an "adopt" of the gate has enough replications, breaks no
\* guardrail in any of them, loses nothing material on average, gains EBITDA in most
\* pairs, and is not the gate's answer to the reverse comparison too.
THEOREM AdoptionsAlwaysEarned == GateSpec => []AdoptionIsEarned
<1> QED BY GateHolds, AdoptionsAreSound, PTL

\* Domination among the candidates of a portfolio is a strict order.
Deltas == [{"ebitda", "free_cash_flow", "otif"} -> Int]

\* Domination in the portfolio is irreflexive and transitive.
LEMMA DominationFacts ==
  ASSUME NEW x, NEW y, NEW z, x.delta \in Deltas, y.delta \in Deltas, z.delta \in Deltas
  PROVE  ~Dominates(x, x) /\ (Dominates(x, y) /\ Dominates(y, z) => Dominates(x, z))
BY DEF Dominates, Deltas

\* The candidates of a portfolio have comparable deltas, and one summary each.
LEMMA PortfolioFacts ==
  ASSUME GateInv
  PROVE  /\ \A s \in portfolio : s.delta \in Deltas
         /\ \A s, o \in portfolio : s.experiment.id = o.experiment.id => s = o
<1>1. ASSUME NEW s \in portfolio PROVE s.delta \in Deltas
  <2> PICK b \in baseline, c \in Candidates :
           /\ b \in Measured /\ c \in Measured /\ Size(b) = Size(c)
           /\ s.delta = [m \in {"ebitda", "free_cash_flow", "otif"} |->
                           CompareExperiments(b, c)[m].gain]
    BY SummaryFacts
  <2>1. \A m \in {"ebitda", "free_cash_flow", "otif"} : CompareExperiments(b, c)[m].gain \in Int
    BY GainFacts DEF CompareExperiments, Metrics
  <2> QED BY <2>1 DEF Deltas
<1>2. ASSUME NEW s \in portfolio, NEW o \in portfolio, s.experiment.id = o.experiment.id
      PROVE  s = o
  <2> PICK b \in baseline, c \in Candidates : s = Summary(b, c, CompareExperiments(b, c))
    BY DEF GateInv
  <2> PICK a \in baseline, d \in Candidates : o = Summary(a, d, CompareExperiments(a, d))
    BY DEF GateInv
  <2>1. s.experiment = c /\ o.experiment = d BY DEF Summary
  <2>2. a = b BY DEF GateInv
  <2>3. c = d BY <1>2, <2>1, GateAssumption
  <2> QED BY <2>2, <2>3
<1> QED BY <1>1, <1>2

\* A finite set of candidates that is not empty has one that no other dominates.
LEMMA SomeoneIsUndominated ==
  ASSUME GateInv, NEW S \in SUBSET portfolio, S # {}
  PROVE  \E o \in S : \A q \in S : ~Dominates(q, o)
<1> DEFINE P == {T \in SUBSET S : T = {} \/ \E o \in T : \A q \in T : ~Dominates(q, o)}
<1>1. IsFiniteSet(S) BY FS_Subset DEF GateInv
<1>2. ASSUME NEW T \in SUBSET S, \A U \in SUBSET T : U # T => U \in P PROVE T \in P
  <2>1. SUFFICES ASSUME T # {} PROVE \E o \in T : \A q \in T : ~Dominates(q, o) OBVIOUS
  <2> PICK x \in T : TRUE BY <2>1
  <2>2. CASE \A q \in T \ {x} : ~Dominates(q, x)
    BY <2>2, PortfolioFacts, DominationFacts
  <2>3. CASE \E q \in T \ {x} : Dominates(q, x)
    <3> DEFINE Above == {q \in T : Dominates(q, x)}
    <3>1. \A q \in T : q.delta \in Deltas BY PortfolioFacts
    <3>2. x \notin Above BY <3>1, DominationFacts
    <3>3. Above \in P BY <1>2, <3>2
    <3>4. PICK o \in Above : \A q \in Above : ~Dominates(q, o) BY <2>3, <3>3
    <3>5. ASSUME NEW q \in T, Dominates(q, o) PROVE FALSE
      <4>1. Dominates(q, x) BY <3>1, <3>4, <3>5, DominationFacts
      <4> QED BY <3>4, <3>5, <4>1
    <3> QED BY <3>4, <3>5
  <2> QED BY <2>2, <2>3
<1>3. S \in P
  <2> HIDE DEF P
  <2> QED BY <1>1, <1>2, FiniteInduction
<1> QED BY <1>3

\* Efficiency and completeness, by finite induction over the candidates.
LEMMA FrontiersAreEfficient ==
  ASSUME GateInv
  PROVE  FrontierIsEfficient
<1>1. Eligible \subseteq portfolio /\ Frontier \subseteq Eligible BY DEF Eligible, Frontier
<1>2. \A q \in portfolio : q.delta \in Deltas BY PortfolioFacts
<1>3. \A q, o \in portfolio : Dominates(q, o) => q.experiment.id # o.experiment.id
  BY <1>2, PortfolioFacts, DominationFacts
<1>4. ASSUME NEW s \in Frontier, NEW o \in Frontier PROVE ~Dominates(s, o)
  BY <1>1, <1>3 DEF Frontier
<1>5. ASSUME NEW s \in Eligible \ Frontier PROVE \E o \in Frontier : Dominates(o, s)
  <2> DEFINE Above == {o \in Eligible : Dominates(o, s)}
  <2>1. Above # {} BY <1>5 DEF Frontier
  <2>2. Above \in SUBSET portfolio BY <1>1
  <2>3. PICK o \in Above : \A q \in Above : ~Dominates(q, o)
    <3> HIDE DEF Above
    <3> QED BY <2>1, <2>2, SomeoneIsUndominated
  <2>4. ASSUME NEW q \in Eligible, Dominates(q, o) PROVE FALSE
    <3>1. Dominates(q, s) BY <1>1, <1>2, <2>3, <2>4, DominationFacts
    <3> QED BY <2>3, <2>4, <3>1
  <2>5. o \in Frontier BY <2>3, <2>4 DEF Frontier
  <2> QED BY <2>3, <2>5
<1> QED BY <1>4, <1>5 DEF FrontierIsEfficient

\* Whatever was compared: the frontier of the portfolio has no dominated point, and a
\* candidate left out is dominated by a point of it (build_portfolio_frontier).
THEOREM FrontiersAlwaysEfficient == GateSpec => []FrontierIsEfficient
<1> QED BY GateHolds, FrontiersAreEfficient, PTL
-----------------------------------------------------------------------------
(* The adaptive controller: its counters against the stream and the trail.  *)

\* The periods in which the condition of a rule held.
Met(rule, observed) == {q \in 1 .. Len(observed) : Holds(rule, SubSeq(observed, 1, q))}

Trail == [rule : DOMAIN policy, position : 1 .. Len(stream)]

AdaptiveTypes ==
  /\ policy \in CandidatePolicies /\ Admitted(policy)
  /\ stream \in Seq(Observations)
  /\ consecutive \in [DOMAIN policy -> Nat]
  /\ last_fired \in [DOMAIN policy -> Nat]
  /\ activations \in Seq(Trail)

\* consecutive counts the periods up to the last one in which the condition held.
StreakInv ==
  \A i \in DOMAIN policy :
    /\ consecutive[i] <= Len(stream)
    /\ \A q \in 1 .. Len(stream) :
         /\ q > Len(stream) - consecutive[i] => q \in Met(policy[i], stream)
         /\ q = Len(stream) - consecutive[i] => q \notin Met(policy[i], stream)

\* last_fired is the last period of the rule in the trail, and 0 if there is none.
LastInv ==
  \A i \in DOMAIN policy :
    /\ last_fired[i] \in At(i) \cup {0}
    /\ \A q \in At(i) : q <= last_fired[i]

\* No activation is recorded twice.
OnceInv ==
  \A k, m \in DOMAIN activations :
    activations[k].rule = activations[m].rule
      /\ activations[k].position = activations[m].position => k = m

Due(i, p) ==
  LET rule == policy[i]
      earlier == {q \in At(i) : q < p}
  IN p \in At(i) <=>
       /\ \A q \in p - rule.persistence + 1 .. p : q \in Met(policy[i], stream)
       /\ Cardinality(earlier) < rule.limit
       /\ \A q \in earlier : q + rule.cooldown < p

AdaptiveInv ==
  /\ AdaptiveTypes /\ StreakInv /\ LastInv /\ OnceInv
  /\ \A i \in DOMAIN policy, p \in DOMAIN stream : Due(i, p)

\* What the assumption on the candidate policies says of a rule in force.
LEMMA RuleFacts ==
  ASSUME AdaptiveTypes, NEW i \in DOMAIN policy
  PROVE  /\ policy[i].threshold \in Int /\ policy[i].cooldown \in Nat
         /\ policy[i].priority \in Nat
         /\ policy[i].window \in Nat \ {0} /\ policy[i].persistence \in Nat \ {0}
         /\ policy[i].limit \in Nat \ {0}
         /\ policy[i].operator \in {"gt", "gte", "lt", "lte"}
         /\ \A values \in Observations : values[policy[i].metric] \in Int
         /\ i \in Nat
BY AdaptiveAssumption DEF AdaptiveTypes, ValidRule

\* The activations of a rule are as many as its periods.
LEMMA FiredOnce ==
  ASSUME AdaptiveTypes, OnceInv, NEW i \in DOMAIN policy
  PROVE  /\ IsFiniteSet(At(i)) /\ Cardinality(At(i)) = Fired(i) /\ Fired(i) \in Nat
         /\ At(i) \subseteq 1 .. Len(stream)
<1> DEFINE D == {k \in DOMAIN activations : activations[k].rule = i}
           b == [k \in D |-> activations[k].position]
<1>1. DOMAIN activations = 1 .. Len(activations) /\ Len(activations) \in Nat
      /\ \A k \in DOMAIN activations : activations[k] \in Trail
  BY DEF AdaptiveTypes
<1>2. IsFiniteSet(D)
  <2>1. IsFiniteSet(1 .. Len(activations)) BY <1>1, FS_Interval
  <2> QED BY <1>1, <2>1, FS_Subset
<1>3. At(i) \subseteq 1 .. Len(stream) BY <1>1 DEF At, Trail
<1>4. b \in [D -> At(i)] BY DEF At
<1>5. \A k, m \in D : b[k] = b[m] => k = m BY DEF OnceInv
<1>6. \A q \in At(i) : \E k \in D : b[k] = q BY DEF At
<1>7. Fired(i) = Cardinality(D) BY DEF Fired
<1> HIDE DEF D, b
<1>8. b \in Bijection(D, At(i))
  BY <1>4, <1>5, <1>6 DEF Bijection, Injection, Surjection, IsInjective
<1>9. ExistsBijection(D, At(i)) BY <1>8 DEF ExistsBijection
<1> QED BY <1>2, <1>3, <1>7, <1>9, FS_Bijection, FS_CardinalityType

\* A function on an initial interval of the naturals is a sequence.
LEMMA EnumerationIsSequence ==
  ASSUME NEW S, NEW n \in Nat, NEW s \in [1 .. n -> S]
  PROVE  s \in Seq(S) /\ Len(s) = n
OBVIOUS

\* The activations of a period: each firing rule has its place in their order.
LEMMA FiringOrder ==
  ASSUME AdaptiveTypes, NEW firing \in SUBSET DOMAIN policy,
         NEW order,
         order = [k \in 1 .. Cardinality(firing) |->
                    CHOOSE i \in firing :
                      Cardinality({j \in firing :
                        \/ policy[j].priority > policy[i].priority
                        \/ policy[j].priority = policy[i].priority /\ j < i}) = k - 1]
  PROVE  /\ Cardinality(firing) \in Nat
         /\ order \in Seq(firing) /\ Len(order) = Cardinality(firing)
         /\ \A k, m \in DOMAIN order : order[k] = order[m] => k = m
         /\ \A i \in firing : \E k \in DOMAIN order : order[k] = i
<1> DEFINE n == Cardinality(firing)
           FiresBefore(j, i) == \/ policy[j].priority > policy[i].priority
                                \/ policy[j].priority = policy[i].priority /\ j < i
           R == {e \in firing \X firing : FiresBefore(e[1], e[2])}
<1>1. \A i \in firing : i \in Nat /\ policy[i].priority \in Nat BY RuleFacts
<1>2. IsFiniteSet(firing) /\ n \in Nat
  <2>1. IsFiniteSet(DOMAIN policy) BY AdaptiveAssumption DEF AdaptiveTypes
  <2> QED BY <2>1, FS_Subset, FS_CardinalityType
<1>3. \A j, i \in firing : <<j, i>> \in R <=> FiresBefore(j, i) OBVIOUS
<1>4. Orders(R, firing)
  <2> HIDE DEF R
  <2> QED BY <1>1, <1>3 DEF Orders
<1>5. \A i \in firing : Cardinality({j \in firing : FiresBefore(j, i)}) = Rank(R, firing, i)
  <2>1. \A i \in firing : {j \in firing : FiresBefore(j, i)} = Below(R, firing, i)
    BY <1>3 DEF Below
  <2> QED BY <2>1 DEF Rank
<1> HIDE DEF R
<1>6. ASSUME NEW k \in 1 .. n
      PROVE  order[k] \in firing /\ Rank(R, firing, order[k]) = k - 1
  <2>1. k - 1 \in 0 .. n - 1 BY <1>2
  <2>2. \E i \in firing : Rank(R, firing, i) = k - 1 BY <1>2, <1>4, <2>1, RankExists
  <2>3. order[k] = CHOOSE i \in firing : Cardinality({j \in firing : FiresBefore(j, i)}) = k - 1
    OBVIOUS
  <2> HIDE DEF FiresBefore
  <2>4. \E i \in firing : Cardinality({j \in firing : FiresBefore(j, i)}) = k - 1 BY <1>5, <2>2
  <2> QED BY <1>5, <2>3, <2>4
<1>7. order \in [1 .. n -> firing] BY <1>6
<1>8. \A k, m \in 1 .. n : order[k] = order[m] => k = m
  <2> SUFFICES ASSUME NEW k \in 1 .. n, NEW m \in 1 .. n, order[k] = order[m] PROVE k = m
    OBVIOUS
  <2>1. k - 1 = m - 1 BY <1>6
  <2> QED BY <1>2, <2>1
<1>9. \A i \in firing : \E k \in 1 .. n : order[k] = i
  BY <1>2, <1>7, <1>8, EnumerationIsComplete
<1>10. order \in Seq(firing) /\ Len(order) = n /\ DOMAIN order = 1 .. n
  BY <1>2, <1>7, EnumerationIsSequence
<1> QED BY <1>2, <1>8, <1>9, <1>10

\* The step of the invariant: one turn of the loop of evaluate_adaptive_policy.
LEMMA ObservationsAreJudged ==
  ASSUME AdaptiveInv, NEW values \in Observations, Observe(values)
  PROVE  AdaptiveInv'
<1> PICK n \in Nat \ {0} : n = Len(stream) + 1 BY DEF AdaptiveInv, AdaptiveTypes
<1> DEFINE Old(i) == Met(policy[i], stream)
           New(i) == Met(policy[i], stream')
           firing == {i \in DOMAIN policy : MayFire(i, n)}
           order == [k \in 1 .. Cardinality(firing) |->
                       CHOOSE i \in firing :
                         Cardinality({j \in firing :
                           \/ policy[j].priority > policy[i].priority
                           \/ policy[j].priority = policy[i].priority /\ j < i}) = k - 1]
           news == [k \in DOMAIN order |-> [rule |-> order[k], position |-> n]]
<1>1. /\ stream' = Append(stream, values) /\ policy' = policy
      /\ consecutive' = [i \in DOMAIN policy |->
                           IF Holds(policy[i], stream') THEN consecutive[i] + 1 ELSE 0]
      /\ activations' = activations \o news
      /\ last_fired' = [i \in DOMAIN policy |-> IF i \in firing THEN n ELSE last_fired[i]]
  BY DEF Observe
<1>2. AdaptiveTypes BY DEF AdaptiveInv
<1>3. /\ stream \in Seq(Observations) /\ Len(stream) \in Nat /\ n \in Nat \ {0}
      /\ stream' \in Seq(Observations) /\ Len(stream') = n /\ DOMAIN stream' = 1 .. n
      /\ DOMAIN stream = 1 .. n - 1
  BY <1>1, <1>2 DEF AdaptiveTypes
<1>4. ASSUME NEW i \in DOMAIN policy, NEW q \in 1 .. n - 1
      PROVE  q \in New(i) <=> q \in Old(i)
  <2>1. SubSeq(stream', 1, q) = SubSeq(stream, 1, q) BY <1>1, <1>3
  <2>2. q \in 1 .. n /\ q \in 1 .. Len(stream) BY <1>3
  <2>3. q \in New(i) <=> Holds(policy[i], SubSeq(stream', 1, q))
    <3>1. New(i) = {m \in 1 .. n : Holds(policy[i], SubSeq(stream', 1, m))} BY <1>3 DEF Met
    <3> HIDE DEF New
    <3> QED BY <2>2, <3>1
  <2>4. q \in Old(i) <=> Holds(policy[i], SubSeq(stream, 1, q)) BY <2>2 DEF Met
  <2> HIDE DEF New, Old
  <2> QED BY <2>1, <2>3, <2>4
<1>5. ASSUME NEW i \in DOMAIN policy PROVE n \in New(i) <=> Holds(policy[i], stream')
  <2>1. SubSeq(stream', 1, n) = stream' BY <1>3
  <2>2. n \in 1 .. n BY <1>3
  <2>3. New(i) = {m \in 1 .. n : Holds(policy[i], SubSeq(stream', 1, m))} BY <1>3 DEF Met
  <2> HIDE DEF New
  <2> QED BY <2>1, <2>2, <2>3
<1>6. ASSUME NEW i \in DOMAIN policy
      PROVE  /\ consecutive[i] \in Nat /\ consecutive'[i] \in Nat
             /\ n \in New(i) => consecutive'[i] = consecutive[i] + 1
             /\ n \notin New(i) => consecutive'[i] = 0
  BY <1>1, <1>2, <1>5 DEF AdaptiveTypes
<1>7. ASSUME NEW i \in DOMAIN policy
      PROVE  /\ consecutive'[i] <= n
             /\ \A q \in 1 .. n : /\ q > n - consecutive'[i] => q \in New(i)
                                  /\ q = n - consecutive'[i] => q \notin New(i)
  <2> PICK c \in Nat, d \in Nat : c = consecutive[i] /\ d = consecutive'[i] BY <1>6
  <2>1. /\ c <= n - 1
        /\ \A q \in 1 .. n - 1 : /\ q > n - 1 - c => q \in Old(i)
                                 /\ q = n - 1 - c => q \notin Old(i)
    <3>1. Len(stream) = n - 1 BY <1>3
    <3> QED BY <3>1 DEF AdaptiveInv, StreakInv
  <2>2. /\ n \in New(i) => d = c + 1
        /\ n \notin New(i) => d = 0
    BY <1>6
  <2>3. d <= n BY <1>3, <2>1, <2>2
  <2>4. ASSUME NEW q \in 1 .. n
        PROVE  /\ q > n - d => q \in New(i)
               /\ q = n - d => q \notin New(i)
    <3>1. CASE q = n BY <1>3, <2>2, <3>1
    <3>2. CASE q # n
      <4>1. q \in 1 .. n - 1 BY <1>3, <3>2
      <4>2. q \in New(i) <=> q \in Old(i) BY <1>4, <4>1
      <4>3. CASE n \in New(i) BY <2>1, <2>2, <4>1, <4>2, <4>3
      <4>4. CASE n \notin New(i) BY <2>2, <4>1, <4>4
      <4> QED BY <4>3, <4>4
    <3> QED BY <3>1, <3>2
  <2> QED BY <2>3, <2>4
<1>71. StreakInv'
  <2>1. DOMAIN policy' = DOMAIN policy /\ Len(stream)' = n BY <1>1, <1>3
  <2> QED BY <1>1, <1>7, <2>1 DEF StreakInv
<1>8. /\ Cardinality(firing) \in Nat
      /\ order \in Seq(firing) /\ Len(order) = Cardinality(firing)
      /\ \A k, m \in DOMAIN order : order[k] = order[m] => k = m
      /\ \A i \in firing : \E k \in DOMAIN order : order[k] = i
  <2>1. firing \in SUBSET DOMAIN policy OBVIOUS
  <2> HIDE DEF firing
  <2>2. \A x : x = order => 
          /\ Cardinality(firing) \in Nat
          /\ x \in Seq(firing) /\ Len(x) = Cardinality(firing)
          /\ \A k, m \in DOMAIN x : x[k] = x[m] => k = m
          /\ \A i \in firing : \E k \in DOMAIN x : x[k] = i
    BY <1>2, <2>1, FiringOrder
  <2> QED BY <2>2
<1> HIDE DEF order, firing
<1>9. /\ firing \subseteq DOMAIN policy
      /\ \A i \in DOMAIN policy : i \in firing <=> MayFire(i, n)
  BY DEF firing
<1>10. /\ news \in Seq(Trail') /\ activations \in Seq(Trail')
       /\ Len(news) = Len(order) /\ Len(news) \in Nat /\ Len(activations) \in Nat
       /\ DOMAIN news = DOMAIN order
       /\ \A k \in 1 .. Len(news) : news[k].rule = order[k] /\ news[k].position = n
                                    /\ order[k] \in firing
  <2>1. DOMAIN order = 1 .. Len(order) /\ Len(order) \in Nat
        /\ \A k \in DOMAIN order : order[k] \in firing
    BY <1>8
  <2>2. \A k \in 1 .. Len(order) : news[k] = [rule |-> order[k], position |-> n] BY <2>1
  <2>3. \A k \in 1 .. Len(order) : news[k] \in Trail'
    BY <1>1, <1>3, <1>9, <2>1, <2>2 DEF Trail
  <2>4. news \in [1 .. Len(order) -> Trail'] BY <2>1, <2>3
  <2>5. news \in Seq(Trail') /\ Len(news) = Len(order) BY <2>1, <2>4, EnumerationIsSequence
  <2>6. Trail \subseteq Trail' BY <1>1, <1>3 DEF Trail
  <2>7. activations \in Seq(Trail) BY <1>2 DEF AdaptiveTypes
  <2>8. activations \in Seq(Trail') /\ Len(activations) \in Nat
    <3> HIDE DEF news
    <3> DEFINE T == Trail' 
    <3>1. Trail \subseteq T BY <2>6
    <3> HIDE DEF T
    <3>2. activations \in Seq(T) /\ Len(activations) \in Nat BY <2>7, <3>1
    <3> QED BY <3>2 DEF T
  <2> QED BY <2>1, <2>2, <2>5, <2>8
<1> HIDE DEF news
<1>11. /\ activations' \in Seq(Trail')
       /\ DOMAIN activations' = 1 .. Len(activations) + Len(news)
       /\ DOMAIN activations = 1 .. Len(activations)
       /\ \A k \in DOMAIN activations : activations'[k] = activations[k]
       /\ \A k \in 1 .. Len(news) : activations'[Len(activations) + k] = news[k]
       /\ \A k \in DOMAIN activations' : k \in DOMAIN activations
            \/ \E m \in 1 .. Len(news) : k = Len(activations) + m
  <2> DEFINE T == Trail'
  <2>1. news \in Seq(T) /\ activations \in Seq(T) BY <1>10
  <2> HIDE DEF T
  <2>2. activations' \in Seq(T) /\ Len(activations') = Len(activations) + Len(news)
    BY <1>1, <2>1
  <2>3. \A k \in 1 .. Len(activations) + Len(news) :
          activations'[k] = IF k <= Len(activations) THEN activations[k]
                            ELSE news[k - Len(activations)]
    BY <1>1, <2>1
  <2>4. DOMAIN activations = 1 .. Len(activations) BY <2>1
  <2>5. \A k \in 1 .. Len(news) : activations'[Len(activations) + k] = news[k]
    BY <1>10, <2>3
  <2>6. ASSUME NEW k \in 1 .. Len(activations) + Len(news)
        PROVE  k \in 1 .. Len(activations) \/ \E m \in 1 .. Len(news) : k = Len(activations) + m
    <3>1. CASE k <= Len(activations) BY <1>10, <3>1
    <3>2. CASE k > Len(activations)
      <4>1. k - Len(activations) \in 1 .. Len(news) /\ k = Len(activations) + (k - Len(activations))
        BY <1>10, <3>2
      <4> QED BY <4>1
    <3> QED BY <1>10, <3>1, <3>2
  <2>7. DOMAIN activations' = 1 .. Len(activations) + Len(news) BY <1>10, <2>2
  <2>8. \A k \in DOMAIN activations : activations'[k] = activations[k] BY <1>10, <2>3, <2>4
  <2>9. activations' \in Seq(Trail') BY <2>2 DEF T
  <2> QED BY <2>4, <2>5, <2>6, <2>7, <2>8, <2>9
<1>12. ASSUME NEW k \in DOMAIN activations PROVE activations[k].position \in 1 .. n - 1
  <2>1. activations[k] \in Trail BY <1>2 DEF AdaptiveTypes
  <2> QED BY <1>3, <2>1 DEF Trail
<1>13. ASSUME NEW i \in DOMAIN policy
       PROVE  At(i)' = IF i \in firing THEN At(i) \cup {n} ELSE At(i)
  <2>1. \A q : q \in At(i)' <=> \E k \in DOMAIN activations' :
                                  activations'[k].rule = i /\ activations'[k].position = q
    BY DEF At
  <2>2. \A q : q \in At(i) <=> \E k \in DOMAIN activations :
                                  activations[k].rule = i /\ activations[k].position = q
    BY DEF At
  <2>3. ASSUME NEW q \in At(i)' PROVE q \in At(i) \/ (i \in firing /\ q = n)
    <3> PICK k \in DOMAIN activations' : activations'[k].rule = i /\ activations'[k].position = q
      BY <2>1
    <3>1. CASE k \in DOMAIN activations BY <1>11, <2>2, <3>1
    <3>2. ASSUME NEW m \in 1 .. Len(news), k = Len(activations) + m
          PROVE  i \in firing /\ q = n
      <4>1. activations'[k] = news[m] BY <1>11, <3>2
      <4> QED BY <1>10, <4>1
    <3> QED BY <1>11, <3>1, <3>2
  <2>4. ASSUME NEW q \in At(i) PROVE q \in At(i)'
    <3> PICK k \in DOMAIN activations : activations[k].rule = i /\ activations[k].position = q
      BY <2>2
    <3>1. k \in DOMAIN activations' BY <1>10, <1>11
    <3> QED BY <1>11, <2>1, <3>1
  <2>5. ASSUME i \in firing PROVE n \in At(i)'
    <3> PICK k \in DOMAIN order : order[k] = i BY <1>8, <2>5
    <3>1. k \in 1 .. Len(news) BY <1>8, <1>10
    <3>2. Len(activations) + k \in DOMAIN activations' BY <1>10, <1>11, <3>1
    <3>3. activations'[Len(activations) + k] = news[k] BY <1>11, <3>1
    <3>4. news[k].rule = i /\ news[k].position = n BY <1>10, <3>1
    <3> QED BY <2>1, <3>2, <3>3, <3>4
  <2> QED BY <2>3, <2>4, <2>5
<1>14. OnceInv'
  <2> SUFFICES ASSUME NEW k \in DOMAIN activations', NEW m \in DOMAIN activations',
                      activations'[k].rule = activations'[m].rule,
                      activations'[k].position = activations'[m].position
               PROVE  k = m
    BY DEF OnceInv
  <2>1. CASE k \in DOMAIN activations /\ m \in DOMAIN activations
    BY <1>11, <2>1 DEF AdaptiveInv, OnceInv
  <2>2. ASSUME NEW a \in 1 .. Len(news), NEW b \in DOMAIN activations
        PROVE  activations'[Len(activations) + a].position # activations'[b].position
    <3>1. activations'[Len(activations) + a].position = n BY <1>10, <1>11
    <3>2. activations'[b].position \in 1 .. n - 1 BY <1>11, <1>12
    <3> QED BY <1>3, <3>1, <3>2
  <2>3. ASSUME NEW a \in 1 .. Len(news), NEW b \in 1 .. Len(news),
               k = Len(activations) + a, m = Len(activations) + b
        PROVE  k = m
    <3>1. order[a] = order[b] BY <1>10, <1>11, <2>3
    <3>2. a \in DOMAIN order /\ b \in DOMAIN order BY <1>8, <1>10
    <3> QED BY <1>8, <2>3, <3>1, <3>2
  <2> QED BY <1>11, <2>1, <2>2, <2>3
<1>15. ASSUME NEW i \in DOMAIN policy
       PROVE  /\ IsFiniteSet(At(i)) /\ Cardinality(At(i)) = Fired(i) /\ Fired(i) \in Nat
              /\ At(i) \subseteq 1 .. n - 1
  BY <1>2, <1>3, FiredOnce DEF AdaptiveInv
<1>16. LastInv'
  <2> SUFFICES ASSUME NEW i \in DOMAIN policy
               PROVE  /\ last_fired'[i] \in At(i)' \cup {0}
                      /\ \A q \in At(i)' : q <= last_fired'[i]
    BY <1>1 DEF LastInv
  <2>1. last_fired[i] \in At(i) \cup {0} /\ \A q \in At(i) : q <= last_fired[i]
    BY DEF AdaptiveInv, LastInv
  <2>2. CASE i \in firing
    <3>1. last_fired'[i] = n /\ At(i)' = At(i) \cup {n} BY <1>1, <1>13, <2>2
    <3>2. \A q \in At(i) : q <= n BY <1>3, <1>15
    <3> QED BY <1>3, <3>1, <3>2
  <2>3. CASE i \notin firing
    <3>1. last_fired'[i] = last_fired[i] /\ At(i)' = At(i) BY <1>1, <1>13, <2>3
    <3> QED BY <2>1, <3>1
  <2> QED BY <2>2, <2>3
<1>17. AdaptiveTypes'
  <2>1. consecutive' \in [DOMAIN policy -> Nat] BY <1>1, <1>6
  <2>2. last_fired' \in [DOMAIN policy -> Nat] BY <1>1, <1>2, <1>3 DEF AdaptiveTypes
  <2> QED BY <1>1, <1>2, <1>3, <1>11, <2>1, <2>2 DEF AdaptiveTypes, Admitted, RegionsOverlap, Increasing
<1>18. ASSUME NEW i \in DOMAIN policy, NEW p \in 1 .. n PROVE Due(i, p)'
  <2> DEFINE rule == policy[i]
             earlier == {q \in At(i) : q < p}
  <2>1. /\ rule.persistence \in Nat \ {0} /\ rule.limit \in Nat \ {0} /\ rule.cooldown \in Nat
    BY <1>2, RuleFacts
  <2>2. {q \in At(i)' : q < p} = earlier
    <3>1. ~(n < p) BY <1>3
    <3> QED BY <1>13, <3>1
  <2>3. Due(i, p)' <=>
          (p \in At(i)' <=>
             /\ \A q \in p - rule.persistence + 1 .. p : q \in New(i)
             /\ Cardinality(earlier) < rule.limit
             /\ \A q \in earlier : q + rule.cooldown < p)
    <3> HIDE DEF earlier
    <3> QED BY <1>1, <2>2 DEF Due
  <2>4. CASE p < n
    <3>1. p \in 1 .. n - 1 /\ p \in DOMAIN stream /\ p # n BY <1>3, <2>4
    <3>2. p \in At(i)' <=> p \in At(i) BY <1>13, <3>1
    <3>3. \A q \in p - rule.persistence + 1 .. p : q \in New(i) <=> q \in Old(i)
      <4> SUFFICES ASSUME NEW q \in p - rule.persistence + 1 .. p
                   PROVE  q \in New(i) <=> q \in Old(i)
        OBVIOUS
      <4>1. CASE q > 0
        <5>1. q \in 1 .. n - 1 BY <1>3, <2>1, <2>4, <4>1
        <5> QED BY <1>4, <5>1
      <4>2. CASE ~(q > 0) BY <1>3, <4>2 DEF Met
      <4> QED BY <4>1, <4>2
    <3>4. Due(i, p) BY <3>1 DEF AdaptiveInv
    <3> HIDE DEF rule
    <3>5. p \in At(i) <=>
             /\ \A q \in p - rule.persistence + 1 .. p : q \in Old(i)
             /\ Cardinality(earlier) < rule.limit
             /\ \A q \in earlier : q + rule.cooldown < p
      BY <3>4 DEF Due, rule
    <3> HIDE DEF earlier
    <3> QED BY <2>3, <3>2, <3>3, <3>5
  <2>5. CASE p = n
    <3>1. earlier = At(i) BY <1>3, <1>15, <2>5
    <3>2. p \in At(i)' <=> MayFire(i, n) BY <1>3, <1>9, <1>13, <1>15, <2>5
    <3>3. MayFire(i, n) <=>
            /\ consecutive'[i] >= rule.persistence
            /\ Fired(i) < rule.limit
            /\ last_fired[i] = 0 \/ n - last_fired[i] > rule.cooldown
      BY DEF MayFire, CooledDown
    <3>4. Cardinality(earlier) = Fired(i) BY <1>15, <3>1
    <3>5. (last_fired[i] = 0 \/ n - last_fired[i] > rule.cooldown)
            <=> \A q \in earlier : q + rule.cooldown < p
      <4>1. last_fired[i] \in At(i) \cup {0} /\ \A q \in At(i) : q <= last_fired[i]
        BY DEF AdaptiveInv, LastInv
      <4>2. \A q \in At(i) : q \in Nat /\ q > 0 BY <1>3, <1>15
      <4>3. last_fired[i] \in Nat BY <1>2 DEF AdaptiveTypes
      <4>4. CASE last_fired[i] = 0
        <5>1. At(i) = {} BY <4>1, <4>2, <4>4
        <5> QED BY <3>1, <4>4, <5>1
      <4>5. CASE last_fired[i] # 0
        <5>1. last_fired[i] \in At(i) BY <4>1, <4>5
        <5>2. (n - last_fired[i] > rule.cooldown) <=> last_fired[i] + rule.cooldown < n
          BY <1>3, <2>1, <4>3
        <5>3. (last_fired[i] + rule.cooldown < n)
                => \A q \in At(i) : q + rule.cooldown < n
          BY <1>3, <2>1, <4>1, <4>2, <4>3
        <5> HIDE DEF rule, earlier
        <5> QED BY <2>5, <3>1, <4>5, <5>1, <5>2, <5>3
      <4> QED BY <4>4, <4>5
    <3>6. consecutive'[i] >= rule.persistence
            <=> \A q \in p - rule.persistence + 1 .. p : q \in New(i)
      <4> PICK d \in Nat : d = consecutive'[i] BY <1>6
      <4>1. /\ d <= n
            /\ \A q \in 1 .. n : /\ q > n - d => q \in New(i)
                                 /\ q = n - d => q \notin New(i)
        BY <1>7
      <4> HIDE DEF rule
      <4>2. ASSUME d >= rule.persistence, NEW q \in p - rule.persistence + 1 .. p
            PROVE  q \in New(i)
        <5>1. q \in 1 .. n /\ q > n - d BY <1>3, <2>1, <2>5, <4>1, <4>2
        <5> QED BY <4>1, <5>1
      <4>3. ASSUME ~(d >= rule.persistence)
            PROVE  \E q \in p - rule.persistence + 1 .. p : q \notin New(i)
        <5> PICK q \in Int : q = n - d OBVIOUS
        <5>1. q \in p - rule.persistence + 1 .. p BY <1>3, <2>1, <2>5, <4>1, <4>3
        <5>2. q \notin New(i)
          <6>1. CASE q > 0
            <7>1. q \in 1 .. n BY <6>1
            <7> HIDE DEF New
            <7> QED BY <4>1, <7>1
          <6>2. CASE ~(q > 0)
            <7>1. New(i) \subseteq 1 .. n BY <1>3 DEF Met
            <7> HIDE DEF New
            <7> QED BY <6>2, <7>1
          <6> QED BY <6>1, <6>2
        <5> QED BY <5>1, <5>2
      <4> QED BY <4>2, <4>3
    <3> HIDE DEF rule, earlier
    <3> QED BY <2>3, <3>2, <3>3, <3>4, <3>5, <3>6
  <2> QED BY <1>3, <2>4, <2>5
<1>19. \A i \in DOMAIN policy', p \in DOMAIN stream' : Due(i, p)' BY <1>1, <1>3, <1>18
<1> QED BY <1>71, <1>14, <1>16, <1>17, <1>19 DEF AdaptiveInv

\* The invariant of the controller, from the validated policy on.
LEMMA ControllerInvariant == AdaptiveSpec => []AdaptiveInv
<1>1. AdaptiveInit => AdaptiveInv
  <2> SUFFICES ASSUME AdaptiveInit PROVE AdaptiveInv OBVIOUS
  <2>1. /\ policy \in CandidatePolicies /\ Admitted(policy) /\ stream = <<>> /\ activations = <<>>
        /\ consecutive = [i \in DOMAIN policy |-> 0]
        /\ last_fired = [i \in DOMAIN policy |-> 0]
    BY DEF AdaptiveInit
  <2>2. Len(stream) = 0 /\ DOMAIN stream = {} /\ DOMAIN activations = {} BY <2>1
  <2>3. stream \in Seq(Observations) /\ activations \in Seq(Trail) BY <2>1
  <2>4. \A i : At(i) = {} BY <2>2 DEF At
  <2> QED BY <2>1, <2>2, <2>3, <2>4 DEF AdaptiveInv, AdaptiveTypes, StreakInv, LastInv, OnceInv
<1>2. AdaptiveInv /\ [AdaptiveNext]_adaptiveVars => AdaptiveInv'
  <2> SUFFICES ASSUME AdaptiveInv, [AdaptiveNext]_adaptiveVars PROVE AdaptiveInv' OBVIOUS
  <2>1. CASE AdaptiveNext BY <2>1, ObservationsAreJudged DEF AdaptiveNext
  <2>2. CASE UNCHANGED adaptiveVars
    <3>1. /\ policy' = policy /\ stream' = stream /\ consecutive' = consecutive
          /\ last_fired' = last_fired /\ activations' = activations
      BY <2>2 DEF adaptiveVars
    <3>2. Trail' = Trail BY <3>1 DEF Trail
    <3>3. Admitted(policy)' <=> Admitted(policy)
      BY <3>1 DEF Admitted, RegionsOverlap, Increasing
    <3>4. AdaptiveTypes'
      <4>1. activations' \in Seq(Trail') BY <3>1, <3>2 DEF AdaptiveInv, AdaptiveTypes
      <4> QED BY <3>1, <3>3, <4>1 DEF AdaptiveInv, AdaptiveTypes
    <3>5. \A i : At(i)' = At(i) BY <3>1 DEF At
    <3>6. \A i : Met(policy[i], stream)' = Met(policy[i], stream) BY <3>1
    <3>7. StreakInv' BY <3>1, <3>6 DEF AdaptiveInv, StreakInv
    <3>8. LastInv' BY <3>1, <3>5 DEF AdaptiveInv, LastInv
    <3>9. OnceInv' BY <3>1 DEF AdaptiveInv, OnceInv
    <3>10. \A i, p : Due(i, p)' <=> Due(i, p) BY <3>1, <3>5, <3>6 DEF Due
    <3> QED BY <3>1, <3>4, <3>7, <3>8, <3>9, <3>10 DEF AdaptiveInv
  <2> QED BY <2>1, <2>2
<1> QED BY <1>1, <1>2, PTL DEF AdaptiveSpec

\* For every policy validate_policy admits and every stream: evaluate_adaptive_policy
\* records a rule in a period exactly if its condition held for persistence periods in
\* a row, its activations are not used up and its cooldown is over, and records it once.
THEOREM ActivationsAlwaysDue == AdaptiveSpec => []ActivationsAreDue
<1>1. AdaptiveInv => ActivationsAreDue
  <2> SUFFICES ASSUME AdaptiveInv PROVE ActivationsAreDue OBVIOUS
  <2>1. AdaptiveTypes /\ OnceInv BY DEF AdaptiveInv
  <2>2. \A i \in DOMAIN policy : Fired(i) = Cardinality(At(i)) BY <2>1, FiredOnce
  <2>3. ASSUME NEW i \in DOMAIN policy, NEW p \in DOMAIN stream,
               NEW q \in p - policy[i].persistence + 1 .. p
        PROVE  q \in Met(policy[i], stream) <=> q > 0 /\ Holds(policy[i], SubSeq(stream, 1, q))
    <3>1. p \in 1 .. Len(stream) /\ Len(stream) \in Nat /\ policy[i].persistence \in Nat
      BY <2>1, RuleFacts DEF AdaptiveTypes
    <3>2. q > 0 => q \in 1 .. Len(stream) BY <3>1
    <3>3. q \in 1 .. Len(stream) => q > 0 BY <3>1
    <3> QED BY <3>2, <3>3 DEF Met
  <2>4. ASSUME NEW i \in DOMAIN policy, NEW p \in DOMAIN stream
        PROVE  LET rule == policy[i]
                   earlier == {q \in At(i) : q < p}
               IN p \in At(i) <=>
                    /\ \A q \in p - rule.persistence + 1 .. p :
                         q > 0 /\ Holds(rule, SubSeq(stream, 1, q))
                    /\ Cardinality(earlier) < rule.limit
                    /\ \A q \in earlier : q + rule.cooldown < p
    <3>1. Due(i, p) BY DEF AdaptiveInv
    <3> QED BY <2>3, <3>1 DEF Due
  <2> QED BY <2>2, <2>4 DEF ActivationsAreDue
<1> QED BY <1>1, ControllerInvariant, PTL

\* A condition that holds is one of the sum over its window.
LEMMA WindowSums ==
  ASSUME AdaptiveTypes, NEW i \in DOMAIN policy, NEW q \in Met(policy[i], stream)
  PROVE  LET total == SumFunction([k \in q - policy[i].window + 1 .. q |->
                                     SubSeq(stream, 1, q)[k][policy[i].metric]])
             bound == policy[i].threshold * policy[i].window
         IN /\ total \in Int /\ bound \in Int
            /\ policy[i].operator = "gt" => total > bound
            /\ policy[i].operator = "gte" => total >= bound
            /\ policy[i].operator = "lt" => total < bound
            /\ policy[i].operator = "lte" => total <= bound
<1> DEFINE rule == policy[i]
           seen == SubSeq(stream, 1, q)
           f == [k \in q - rule.window + 1 .. q |-> seen[k][rule.metric]]
           total == SumFunction(f)
           bound == rule.threshold * rule.window
<1>1. /\ rule.threshold \in Int /\ rule.window \in Nat \ {0}
      /\ rule.operator \in {"gt", "gte", "lt", "lte"}
      /\ \A values \in Observations : values[rule.metric] \in Int
  BY RuleFacts
<1>2. stream \in Seq(Observations) /\ Len(stream) \in Nat /\ q \in 1 .. Len(stream)
      /\ Holds(rule, seen)
  BY DEF Met, AdaptiveTypes
<1>3. seen \in Seq(Observations) /\ Len(seen) = q /\ DOMAIN seen = 1 .. q BY <1>2
<1>4. /\ q >= rule.window
      /\ CASE rule.operator = "gt" -> total > bound
           [] rule.operator = "gte" -> total >= bound
           [] rule.operator = "lt" -> total < bound
           [] rule.operator = "lte" -> total <= bound
  BY <1>2, <1>3 DEF Holds
<1>5. f \in [q - rule.window + 1 .. q -> Int]
  <2> SUFFICES ASSUME NEW k \in q - rule.window + 1 .. q PROVE seen[k][rule.metric] \in Int
    OBVIOUS
  <2>1. k \in 1 .. q BY <1>1, <1>2, <1>4
  <2>2. seen[k] \in Observations BY <1>3, <2>1
  <2> QED BY <1>1, <2>2
<1>6. bound \in Int BY <1>1
<1>7. total \in Int
  <2>1. q - rule.window + 1 \in Int /\ q \in Int BY <1>1, <1>2
  <2>2. IsFiniteSet(q - rule.window + 1 .. q) BY <2>1, FS_Interval
  <2>3. DOMAIN f = q - rule.window + 1 .. q OBVIOUS
  <2>4. total = SumFunctionOnSet(f, DOMAIN f) BY DEF SumFunction
  <2>5. \A k \in DOMAIN f : f[k] \in Int BY <1>5
  <2> HIDE DEF f, total
  <2>6. SumFunctionOnSet(f, DOMAIN f) \in Int BY <2>2, <2>3, <2>5, SumType
  <2> QED BY <2>4, <2>6
<1> HIDE DEF total, bound, rule
<1> QED BY <1>1, <1>4, <1>6, <1>7 DEF total, bound, rule, f, seen

\* For every threshold and window: two opposing rules on one metric that
\* _intervals_overlap keeps apart never fire in one period, because both judge the
\* same window sum.
THEOREM OpposingRulesAlwaysApart == AdaptiveSpec => []OpposingRulesKeepApart
<1>1. AdaptiveInv => OpposingRulesKeepApart
  <2> SUFFICES ASSUME AdaptiveInv, NEW i \in DOMAIN policy, NEW j \in DOMAIN policy,
                      {policy[i].action, policy[j].action} \in Opposing,
                      policy[i].metric = policy[j].metric,
                      policy[i].window = policy[j].window,
                      NEW p \in At(i) \cap At(j)
               PROVE  FALSE
    BY DEF OpposingRulesKeepApart
  <2>1. AdaptiveTypes /\ OnceInv BY DEF AdaptiveInv
  <2>2. p \in DOMAIN stream /\ p \in 1 .. Len(stream) /\ Len(stream) \in Nat
    BY <2>1, FiredOnce DEF AdaptiveTypes
  <2>3. p \in Met(policy[i], stream) /\ p \in Met(policy[j], stream)
    <3>1. Due(i, p) /\ Due(j, p) BY <2>2 DEF AdaptiveInv
    <3>2. /\ p \in p - policy[i].persistence + 1 .. p
          /\ p \in p - policy[j].persistence + 1 .. p
      BY <2>1, <2>2, RuleFacts
    <3> QED BY <3>1, <3>2 DEF Due
  <2>4. ~RegionsOverlap(policy[i], policy[j]) BY <2>1 DEF AdaptiveTypes, Admitted
  <2> DEFINE total == SumFunction([k \in p - policy[i].window + 1 .. p |->
                                     SubSeq(stream, 1, p)[k][policy[i].metric]])
  <2>5. /\ total \in Int
        /\ policy[i].operator = "gt" => total > policy[i].threshold * policy[i].window
        /\ policy[i].operator = "gte" => total >= policy[i].threshold * policy[i].window
        /\ policy[i].operator = "lt" => total < policy[i].threshold * policy[i].window
        /\ policy[i].operator = "lte" => total <= policy[i].threshold * policy[i].window
    BY <2>1, <2>3, WindowSums
  <2>6. /\ policy[j].operator = "gt" => total > policy[j].threshold * policy[i].window
        /\ policy[j].operator = "gte" => total >= policy[j].threshold * policy[i].window
        /\ policy[j].operator = "lt" => total < policy[j].threshold * policy[i].window
        /\ policy[j].operator = "lte" => total <= policy[j].threshold * policy[i].window
    BY <2>1, <2>3, WindowSums
  <2> HIDE DEF total
  <2> PICK a \in Int, b \in Int, w \in Nat \ {0} :
        a = policy[i].threshold /\ b = policy[j].threshold /\ w = policy[i].window
    BY <2>1, RuleFacts
  <2>7. /\ policy[i].operator \in {"gt", "gte", "lt", "lte"}
        /\ policy[j].operator \in {"gt", "gte", "lt", "lte"}
    BY <2>1, RuleFacts
  <2>8. a * w \in Int /\ b * w \in Int OBVIOUS
  <2>9. (a < b => a * w < b * w) /\ (b < a => b * w < a * w)
    <3>1. ASSUME NEW x \in Int, NEW y \in Int, x < y PROVE x * w < y * w
      <4>1. y * w = x * w + (y - x) * w OBVIOUS
      <4>2. (y - x) * w > 0 BY <3>1
      <4> QED BY <4>1, <4>2
    <3> QED BY <3>1
  <2>10. CASE Increasing(policy[i])
    <3>1. b < a /\ policy[j].operator \in {"lt", "lte"} /\ policy[i].operator \in {"gt", "gte"}
      BY <2>4, <2>7, <2>10 DEF RegionsOverlap, Increasing
    <3>2. total >= a * w BY <2>5, <2>8, <3>1
    <3>3. total <= b * w BY <2>5, <2>6, <2>8, <3>1
    <3> QED BY <2>5, <2>8, <2>9, <3>1, <3>2, <3>3
  <2>11. CASE ~Increasing(policy[i])
    <3>1. a < b /\ policy[i].operator \in {"lt", "lte"} /\ policy[j].operator \in {"gt", "gte"}
      BY <2>4, <2>7, <2>11 DEF RegionsOverlap, Increasing
    <3>2. total <= a * w BY <2>5, <2>8, <3>1
    <3>3. total >= b * w BY <2>5, <2>6, <2>8, <3>1
    <3> QED BY <2>5, <2>8, <2>9, <3>1, <3>2, <3>3
  <2> QED BY <2>10, <2>11
<1> QED BY <1>1, ControllerInvariant, PTL
-----------------------------------------------------------------------------
(* The search: domination is a strict order, and ranks count along it. *)

\* Nobody dominates itself, and whoever dominates a dominator dominates.
LEMMA DominationIsStrict ==
  /\ \A g \in Genomes : ~DominatesGenome(g, g)
  /\ \A g, h, k \in Genomes :
       DominatesGenome(g, h) /\ DominatesGenome(h, k) => DominatesGenome(g, k)
<1>1. ASSUME NEW g \in Genomes
      PROVE  /\ DOMAIN Objectives(g) = ObjectiveNames
             /\ \A m \in ObjectiveNames : Objectives(g)[m] \in Int
             /\ Evaluation[g].violation \in Nat
  <2>1. Objectives(g) \in [ObjectiveNames -> Int] /\ Evaluation[g].violation \in Nat
    BY OptimizerAssumption
  <2> QED BY <2>1
<1>2. ASSUME NEW g \in Genomes PROVE ~DominatesGenome(g, g)
  BY <1>1 DEF DominatesGenome, ParetoDominates, FeasibleGenome
<1>3. ASSUME NEW g \in Genomes, NEW h \in Genomes, NEW k \in Genomes,
             DominatesGenome(g, h), DominatesGenome(h, k)
      PROVE  DominatesGenome(g, k)
  <2>1. CASE FeasibleGenome(g) /\ FeasibleGenome(h) /\ FeasibleGenome(k)
    <3>1. ParetoDominates(g, h) /\ ParetoDominates(h, k)
      BY <1>3, <2>1 DEF DominatesGenome
    <3>2. \A m \in ObjectiveNames : Objectives(g)[m] <= Objectives(k)[m]
      BY <1>1, <3>1 DEF ParetoDominates
    <3>3. PICK m \in ObjectiveNames : Objectives(g)[m] < Objectives(h)[m]
      BY <1>1, <3>1 DEF ParetoDominates
    <3>4. Objectives(h)[m] <= Objectives(k)[m] BY <1>1, <3>1 DEF ParetoDominates
    <3>5. Objectives(g)[m] < Objectives(k)[m] BY <1>1, <3>3, <3>4
    <3>6. ParetoDominates(g, k) BY <1>1, <3>2, <3>5 DEF ParetoDominates
    <3> QED BY <2>1, <3>6 DEF DominatesGenome
  <2>2. CASE ~(FeasibleGenome(g) /\ FeasibleGenome(h) /\ FeasibleGenome(k))
    BY <1>1, <1>3, <2>2 DEF DominatesGenome, FeasibleGenome
  <2> QED BY <2>1, <2>2
<1> QED BY <1>2, <1>3

\* In any company somebody is dominated by nobody of it.
LEMMA SomebodyIsUndominated ==
  ASSUME NEW S \in SUBSET Genomes, S # {}
  PROVE  \E g \in S : \A h \in S : ~DominatesGenome(h, g)
<1> DEFINE P == {T \in SUBSET S : T = {} \/ \E g \in T : \A h \in T : ~DominatesGenome(h, g)}
<1>0. IsFiniteSet(S) BY OptimizerAssumption, FS_Subset
<1>1. ASSUME NEW T \in SUBSET S, \A U \in SUBSET T : U # T => U \in P PROVE T \in P
  <2> SUFFICES ASSUME NEW x \in T
               PROVE  \E g \in T : \A h \in T : ~DominatesGenome(h, g)
    OBVIOUS
  <2>1. T \ {x} \in P BY <1>1
  <2>2. \A h, k \in S : DominatesGenome(h, x) /\ DominatesGenome(x, k) => DominatesGenome(h, k)
    BY DominationIsStrict
  <2>3. ~DominatesGenome(x, x) BY DominationIsStrict
  <2>4. CASE T \ {x} = {}
    <3>1. \A h \in T : ~DominatesGenome(h, x) BY <2>3, <2>4
    <3> QED BY <3>1
  <2>5. CASE T \ {x} # {}
    <3>1. PICK z \in T \ {x} : \A h \in T \ {x} : ~DominatesGenome(h, z) BY <2>1, <2>5
    <3>2. CASE ~DominatesGenome(x, z)
      <4>1. \A h \in T : ~DominatesGenome(h, z) BY <3>1, <3>2
      <4> QED BY <4>1
    <3>3. CASE DominatesGenome(x, z)
      <4>1. \A h \in T : ~DominatesGenome(h, x) BY <2>2, <2>3, <3>1, <3>3
      <4> QED BY <4>1
    <3> QED BY <3>2, <3>3
  <2> QED BY <2>4, <2>5
<1>2. S \in P
  <2> HIDE DEF P
  <2> QED BY <1>0, <1>1, FiniteInduction
<1> QED BY <1>2

Dominators(S, g) == {h \in S : DominatesGenome(h, g)}

RankAfter(f, A) == IF A = {} THEN 0 ELSE 1 + Max({f[h] : h \in A})

\* A ranking of T by the dominators in S.
RanksWithin(f, T, S) == \A g \in T : f[g] = RankAfter(f, Dominators(S, g))

\* The greatest rank of a set of ranked genomes.
LEMMA RankAfterFacts ==
  ASSUME NEW A \in SUBSET Genomes, NEW f, \A h \in A : f[h] \in Nat
  PROVE  RankAfter(f, A) \in Nat /\ \A h \in A : f[h] < RankAfter(f, A)
<1> DEFINE V == {f[h] : h \in A}
<1>1. CASE A = {} BY <1>1 DEF RankAfter
<1>2. CASE A # {}
  <2>1. IsFiniteSet(A) BY OptimizerAssumption, FS_Subset
  <2>2. IsFiniteSet(V) BY <2>1, ImageIsFinite
  <2>3. V \subseteq Int /\ V # {} /\ V \subseteq Nat BY <1>2
  <2> HIDE DEF V
  <2>4. Max(V) \in V /\ \A y \in V : Max(V) >= y BY <2>2, <2>3, MaxIsGreatest
  <2>5. RankAfter(f, A) = 1 + Max(V) BY <1>2 DEF RankAfter, V
  <2>6. \A h \in A : f[h] \in V BY DEF V
  <2>7. \A h \in A : f[h] <= Max(V) BY <2>3, <2>4, <2>6
  <2>8. Max(V) \in Nat BY <2>3, <2>4
  <2>9. RankAfter(f, A) \in Nat BY <2>5, <2>8
  <2> QED BY <2>5, <2>7, <2>8, <2>9
<1> QED BY <1>1, <1>2

\* The rank after a set depends on the ranks in the set alone.
LEMMA RankAfterSame ==
  ASSUME NEW A, NEW f, NEW g, \A h \in A : f[h] = g[h]
  PROVE  RankAfter(f, A) = RankAfter(g, A)
<1>1. {f[h] : h \in A} = {g[h] : h \in A} OBVIOUS
<1> QED BY <1>1 DEF RankAfter

\* A set of genomes with all their dominators, ranked, of the size of U.
RankedOf(S, U) ==
  \E T \in SUBSET S : \E f \in [T -> Nat] :
    /\ Cardinality(T) = Cardinality(U)
    /\ \A g \in T : Dominators(S, g) \subseteq T
    /\ RanksWithin(f, T, S)

\* One more genome, dominated only by those ranked already, can be ranked.
LEMMA OneMoreRanked ==
  ASSUME NEW S \in SUBSET Genomes, NEW U \in SUBSET S, NEW x \in U, RankedOf(S, U \ {x})
  PROVE  RankedOf(S, U)
<1>0. IsFiniteSet(S) BY OptimizerAssumption, FS_Subset
<1>1. PICK T \in SUBSET S : \E f \in [T -> Nat] :
        /\ Cardinality(T) = Cardinality(U \ {x})
        /\ \A g \in T : Dominators(S, g) \subseteq T
        /\ RanksWithin(f, T, S)
  BY DEF RankedOf
<1>2. PICK f \in [T -> Nat] :
        /\ Cardinality(T) = Cardinality(U \ {x})
        /\ \A g \in T : Dominators(S, g) \subseteq T
        /\ RanksWithin(f, T, S)
  BY <1>1
<1>3. IsFiniteSet(U) /\ IsFiniteSet(T) /\ Cardinality(U) <= Cardinality(S)
      /\ Cardinality(U) \in Nat /\ Cardinality(S) \in Nat
  BY <1>0, FS_Subset, FS_CardinalityType
<1>4. Cardinality(T) = Cardinality(U) - 1 BY <1>2, <1>3, FS_RemoveElement
<1>5. S \ T # {} BY <1>3, <1>4
<1>6. PICK g \in S \ T : \A h \in S \ T : ~DominatesGenome(h, g)
  BY <1>5, SomebodyIsUndominated
<1>7. Dominators(S, g) \subseteq T BY <1>6 DEF Dominators
<1> DEFINE V == T \cup {g}
           r == RankAfter(f, Dominators(S, g))
           e == [k \in V |-> IF k = g THEN r ELSE f[k]]
<1>8. r \in Nat
  <2>1. Dominators(S, g) \in SUBSET Genomes BY <1>7
  <2>2. \A h \in Dominators(S, g) : f[h] \in Nat BY <1>7
  <2> QED BY <2>1, <2>2, RankAfterFacts
<1>9. Cardinality(V) = Cardinality(U)
  <2>1. Cardinality(T \cup {g}) = Cardinality(T) + 1 BY <1>3, <1>6, FS_AddElement
  <2> QED BY <1>3, <1>4, <2>1
<1>10. \A k \in V : Dominators(S, k) \subseteq T BY <1>2, <1>7
<1>11. \A k \in T : e[k] = f[k] BY <1>6
<1>12. e[g] = r OBVIOUS
<1>13. e \in [V -> Nat] BY <1>8
<1> HIDE DEF e, r
<1>14. ASSUME NEW k \in V PROVE e[k] = RankAfter(e, Dominators(S, k))
  <2>1. RankAfter(e, Dominators(S, k)) = RankAfter(f, Dominators(S, k))
    BY <1>10, <1>11, RankAfterSame
  <2>2. CASE k = g BY <1>12, <2>1, <2>2 DEF r
  <2>3. CASE k # g
    <3>1. k \in T BY <2>3
    <3>2. f[k] = RankAfter(f, Dominators(S, k)) BY <1>2, <3>1 DEF RanksWithin
    <3> QED BY <1>11, <2>1, <3>1, <3>2
  <2> QED BY <2>2, <2>3
<1>15. RanksWithin(e, V, S) BY <1>14 DEF RanksWithin
<1>16. V \in SUBSET S OBVIOUS
<1>17. \A k \in V : Dominators(S, k) \subseteq V BY <1>10
<1> HIDE DEF V
<1> QED BY <1>9, <1>13, <1>15, <1>16, <1>17 DEF RankedOf

\* The recursion of Ranks has a solution.
LEMMA RanksExist ==
  ASSUME NEW S \in SUBSET Genomes
  PROVE  \E f \in [S -> Nat] : RanksWithin(f, S, S)
<1> DEFINE P == {U \in SUBSET S : RankedOf(S, U)}
<1>0. IsFiniteSet(S) BY OptimizerAssumption, FS_Subset
<1>1. ASSUME NEW U \in SUBSET S, \A W \in SUBSET U : W # U => W \in P PROVE U \in P
  <2>1. CASE U = {}
    <3> DEFINE f == [g \in {} |-> 0]
    <3>1. f \in [{} -> Nat] /\ RanksWithin(f, {}, S) BY DEF RanksWithin
    <3> HIDE DEF f
    <3>2. RankedOf(S, {}) BY <3>1 DEF RankedOf
    <3> QED BY <2>1, <3>2
  <2>2. CASE U # {}
    <3>1. PICK x \in U : TRUE BY <2>2
    <3>2. U \ {x} \in P BY <1>1, <3>1
    <3>3. RankedOf(S, U) BY <3>1, <3>2, OneMoreRanked
    <3> QED BY <3>3
  <2> QED BY <2>1, <2>2
<1>2. S \in P
  <2> HIDE DEF P
  <2> QED BY <1>0, <1>1, FiniteInduction
<1>3. PICK T \in SUBSET S : \E f \in [T -> Nat] :
        Cardinality(T) = Cardinality(S) /\ RanksWithin(f, T, S)
  BY <1>2 DEF RankedOf
<1>4. T = S BY <1>0, <1>3, FS_Subset
<1> QED BY <1>3, <1>4

\* Ranks are what their recursion chooses.
LEMMA RanksUnfold ==
  ASSUME NEW S \in SUBSET Genomes
  PROVE  Ranks[S] = CHOOSE f : f = [g \in S |-> RankAfter(f, Dominators(S, g))]
BY DEF Ranks, RankAfter, Dominators

\* Ranks is that recursion: nobody ahead is rank 0, otherwise one more than the last dominator.
LEMMA RankFollowsDominators ==
  ASSUME NEW S \in SUBSET Genomes
  PROVE  \A g \in S : Ranks[S][g] \in Nat /\ Ranks[S][g] = RankAfter(Ranks[S], Dominators(S, g))
<1> DEFINE f == Ranks[S]
           E(h) == [g \in S |-> RankAfter(h, Dominators(S, g))]
<1>1. PICK e \in [S -> Nat] : RanksWithin(e, S, S) BY RanksExist
<1>2. e = E(e) BY <1>1 DEF RanksWithin
<1>3. f = CHOOSE h : h = E(h) BY RanksUnfold
<1> HIDE DEF f
<1>4. f = E(f)
  <2> HIDE DEF E
  <2> QED BY <1>2, <1>3
<1>5. \A g \in S : f[g] = RankAfter(f, Dominators(S, g)) BY <1>4
<1>6. \A g \in S : f[g] \in Nat
  <2> DEFINE Bad == {g \in S : f[g] \notin Nat}
  <2> SUFFICES ASSUME Bad # {} PROVE FALSE OBVIOUS
  <2>1. Bad \in SUBSET Genomes OBVIOUS
  <2>2. PICK g \in Bad : \A h \in Bad : ~DominatesGenome(h, g)
    <3> HIDE DEF Bad
    <3> QED BY <2>1, SomebodyIsUndominated
  <2>3. \A h \in Dominators(S, g) : f[h] \in Nat BY <2>2 DEF Dominators
  <2>4. Dominators(S, g) \in SUBSET Genomes BY DEF Dominators
  <2>5. RankAfter(f, Dominators(S, g)) \in Nat BY <2>3, <2>4, RankAfterFacts
  <2> QED BY <1>5, <2>2, <2>5
<1> QED BY <1>5, <1>6 DEF f

\* A dominator ranks before whom it dominates; the first front are the undominated.
LEMMA RankFactsOfGenomes ==
  ASSUME NEW S \in SUBSET Genomes
  PROVE  /\ \A g, h \in S : DominatesGenome(h, g) => Ranks[S][h] < Ranks[S][g]
         /\ \A g \in S : Ranks[S][g] = 0 <=> \A h \in S : ~DominatesGenome(h, g)
<1> DEFINE f == Ranks[S]
<1>1. \A g \in S : f[g] \in Nat /\ f[g] = RankAfter(f, Dominators(S, g))
  BY RankFollowsDominators
<1> HIDE DEF f
<1>2. ASSUME NEW g \in S, NEW h \in S, DominatesGenome(h, g) PROVE f[h] < f[g]
  <2>1. h \in Dominators(S, g) /\ Dominators(S, g) \subseteq S BY <1>2 DEF Dominators
  <2>2. \A k \in Dominators(S, g) : f[k] \in Nat BY <1>1, <2>1
  <2>3. f[h] < RankAfter(f, Dominators(S, g)) BY <2>1, <2>2, RankAfterFacts
  <2> QED BY <1>1, <2>3
<1>3. ASSUME NEW g \in S, \A h \in S : ~DominatesGenome(h, g) PROVE f[g] = 0
  <2>1. Dominators(S, g) = {} BY <1>3 DEF Dominators
  <2> QED BY <1>1, <2>1 DEF RankAfter
<1>4. ASSUME NEW g \in S, NEW h \in S, f[g] = 0 PROVE ~DominatesGenome(h, g)
  BY <1>1, <1>2, <1>4
<1> QED BY <1>2, <1>3, <1>4 DEF f

\* Whoever keeps company with all its dominators keeps its rank.
LEMMA RanksAgree ==
  ASSUME NEW S \in SUBSET Genomes, NEW K \in SUBSET S,
         \A g \in K : Dominators(S, g) \subseteq K
  PROVE  \A g \in K : Ranks[K][g] = Ranks[S][g]
<1> DEFINE Bad == {g \in K : Ranks[K][g] # Ranks[S][g]}
<1> SUFFICES ASSUME Bad # {} PROVE FALSE OBVIOUS
<1>1. PICK g \in Bad : \A h \in Bad : ~DominatesGenome(h, g)
  <2>1. Bad \in SUBSET Genomes OBVIOUS
  <2> HIDE DEF Bad
  <2> QED BY <2>1, SomebodyIsUndominated
<1>2. Dominators(K, g) = Dominators(S, g) BY DEF Dominators
<1>3. \A h \in Dominators(K, g) : Ranks[K][h] = Ranks[S][h] BY <1>1 DEF Dominators
<1>4. RankAfter(Ranks[K], Dominators(K, g)) = RankAfter(Ranks[S], Dominators(K, g))
  BY <1>3, RankAfterSame
<1>5. Ranks[K][g] = RankAfter(Ranks[K], Dominators(K, g)) BY RankFollowsDominators
<1>6. Ranks[S][g] = RankAfter(Ranks[S], Dominators(S, g)) BY RankFollowsDominators
<1> QED BY <1>1, <1>2, <1>4, <1>5, <1>6

\* For every objective, the first front has a feasible genome as good as any feasible one.
LEMMA ExtremeIsFirst ==
  ASSUME NEW S \in SUBSET Genomes, NEW h \in S, FeasibleGenome(h), NEW m \in ObjectiveNames
  PROVE  \E g \in S : /\ FeasibleGenome(g) /\ Ranks[S][g] = 0
                      /\ Objectives(g)[m] <= Objectives(h)[m]
<1>0. \A g \in Genomes : DOMAIN Objectives(g) = ObjectiveNames /\ Objectives(g)[m] \in Int
  <2>1. \A g \in Genomes : Objectives(g) \in [ObjectiveNames -> Int] BY OptimizerAssumption
  <2> QED BY <2>1
<1> DEFINE A == {g \in S : FeasibleGenome(g) /\ Objectives(g)[m] <= Objectives(h)[m]}
<1>1. A \in SUBSET Genomes /\ A # {}
  <2>1. h \in A BY <1>0
  <2> QED BY <2>1
<1>2. PICK g \in A : \A k \in A : ~DominatesGenome(k, g)
  <2> HIDE DEF A
  <2> QED BY <1>1, SomebodyIsUndominated
<1>3. ASSUME NEW k \in S, DominatesGenome(k, g) PROVE FALSE
  <2>1. FeasibleGenome(k) /\ ParetoDominates(k, g) BY <1>2, <1>3 DEF DominatesGenome
  <2>2. Objectives(k)[m] <= Objectives(g)[m] BY <1>0, <2>1 DEF ParetoDominates
  <2>3. Objectives(k)[m] <= Objectives(h)[m] BY <1>0, <2>2
  <2> QED BY <1>2, <1>3, <2>1, <2>3
<1>4. Ranks[S][g] = 0 BY <1>3, RankFactsOfGenomes
<1> QED BY <1>4

\* Beside a feasible genome the first front is feasible.
LEMMA FirstFrontIsFeasible ==
  ASSUME NEW S \in SUBSET Genomes, NEW h \in S, FeasibleGenome(h), NEW g \in S, Ranks[S][g] = 0
  PROVE  FeasibleGenome(g)
BY RankFactsOfGenomes DEF DominatesGenome
-----------------------------------------------------------------------------
(* The search: the ends of a front, and the order of selection. *)

\* Every genome has a number for every objective.
LEMMA ObjectivesAreNumbers ==
  \A g \in Genomes : /\ DOMAIN Objectives(g) = ObjectiveNames
                     /\ \A m \in ObjectiveNames : Objectives(g)[m] \in Int
<1>1. \A g \in Genomes : Objectives(g) \in [ObjectiveNames -> Int] BY OptimizerAssumption
<1> QED BY <1>1

\* A set of positions is finite.
LEMMA PositionsAreFinite ==
  ASSUME NEW n \in Nat, NEW A \in SUBSET (1..n)
  PROVE  IsFiniteSet(A)
<1>1. 1 \in Int /\ n \in Int OBVIOUS
<1>2. IsFiniteSet(1..n) BY <1>1, FS_Interval
<1> QED BY <1>2, FS_Subset

\* Of two positions of a front one is lower, for every objective.
LEMMA OneIsLower ==
  ASSUME NEW n \in Nat, NEW genomes \in [1..n -> Genomes], NEW front \in SUBSET (1..n),
         NEW m \in ObjectiveNames, NEW i \in front, NEW j \in front
  PROVE  /\ LowerPositions(genomes, front, i, m) \subseteq front \ {i}
         /\ i # j => \/ j \in LowerPositions(genomes, front, i, m)
                     \/ i \in LowerPositions(genomes, front, j, m)
         /\ ~(/\ j \in LowerPositions(genomes, front, i, m)
              /\ i \in LowerPositions(genomes, front, j, m))
<1>1. \A k \in front : Objectives(genomes[k])[m] \in Int /\ k \in Int BY ObjectivesAreNumbers
<1> QED BY <1>1 DEF LowerPositions

\* Somebody is lowest for an objective, and so at an end.
LEMMA LowestIsAtEnd ==
  ASSUME NEW n \in Nat, NEW genomes \in [1..n -> Genomes], NEW front \in SUBSET (1..n),
         NEW m \in ObjectiveNames, front # {}
  PROVE  \E i \in front :
           /\ AtEnd(genomes, front, i)
           /\ \A j \in front : Objectives(genomes[i])[m] <= Objectives(genomes[j])[m]
<1> DEFINE value == [j \in front |-> Objectives(genomes[j])[m]]
           V == {value[j] : j \in front}
           A == {j \in front : value[j] = Min(V)}
           i == Min(A)
<1>1. IsFiniteSet(front) BY PositionsAreFinite
<1>2. \A j \in front : value[j] \in Int /\ j \in Int BY ObjectivesAreNumbers
<1>3. \A j \in front : value[j] = Objectives(genomes[j])[m] OBVIOUS
<1> HIDE DEF value
<1>4. IsFiniteSet(V) /\ V \subseteq Int /\ V # {}
  <2>1. IsFiniteSet(V) BY <1>1, ImageIsFinite
  <2> QED BY <1>2, <2>1
<1>5. Min(V) \in V /\ \A y \in V : Min(V) <= y
  <2> HIDE DEF V
  <2> QED BY <1>4, MinIsLeast
<1>6. IsFiniteSet(A) /\ A \subseteq Int /\ A # {}
  <2>1. IsFiniteSet(A) BY <1>1, FS_Subset
  <2> QED BY <1>2, <1>5, <2>1
<1>7. i \in A /\ \A j \in A : i <= j
  <2> HIDE DEF A
  <2> QED BY <1>6, MinIsLeast
<1>8. \A j \in front : value[i] <= value[j] BY <1>5, <1>7
<1>9. \A j \in front : value[j] = value[i] => i <= j BY <1>7
<1>10. i \in front BY <1>7
<1> HIDE DEF i, A, V
<1>11. LowerPositions(genomes, front, i, m) = {}
  <2> SUFFICES ASSUME NEW j \in LowerPositions(genomes, front, i, m) PROVE FALSE OBVIOUS
  <2>1. /\ j \in front
        /\ \/ Objectives(genomes[j])[m] < Objectives(genomes[i])[m]
           \/ Objectives(genomes[j])[m] = Objectives(genomes[i])[m] /\ j < i
    BY DEF LowerPositions
  <2>2. value[j] < value[i] \/ (value[j] = value[i] /\ j < i) BY <1>3, <1>10, <2>1
  <2>3. value[i] \in Int /\ value[j] \in Int /\ i \in Int /\ j \in Int BY <1>2, <1>10, <2>1
  <2>4. value[i] <= value[j] BY <1>8, <2>1
  <2>5. value[j] = value[i] => i <= j BY <1>9, <2>1
  <2> QED BY <2>2, <2>3, <2>4, <2>5
<1>12. DOMAIN Objectives(genomes[i]) = ObjectiveNames BY <1>10, ObjectivesAreNumbers
<1>13. AtEnd(genomes, front, i) BY <1>11, <1>12 DEF AtEnd
<1> QED BY <1>3, <1>8, <1>10, <1>13

Ends(genomes, front) == {i \in front : AtEnd(genomes, front, i)}

\* A front has at most two ends for every objective.
LEMMA EndsAreFew ==
  ASSUME NEW n \in Nat, NEW genomes \in [1..n -> Genomes], NEW front \in SUBSET (1..n)
  PROVE  /\ IsFiniteSet(Ends(genomes, front))
         /\ Cardinality(Ends(genomes, front)) <= 2 * Cardinality(ObjectiveNames)
<1> DEFINE E == Ends(genomes, front)
           Sides == ObjectiveNames \X {0, 1}
           Lower(i, m) == LowerPositions(genomes, front, i, m)
           IsSide(i, s) == \/ s[2] = 0 /\ Lower(i, s[1]) = {}
                           \/ s[2] = 1 /\ Lower(i, s[1]) = front \ {i}
           side == [i \in E |-> CHOOSE s \in Sides : IsSide(i, s)]
<1>1. ASSUME NEW i \in E PROVE \E s \in Sides : IsSide(i, s)
  <2>1. i \in front /\ AtEnd(genomes, front, i) BY DEF Ends
  <2>2. DOMAIN Objectives(genomes[i]) = ObjectiveNames BY <2>1, ObjectivesAreNumbers
  <2>3. PICK m \in ObjectiveNames : Lower(i, m) \in {{}, front \ {i}} BY <2>1, <2>2 DEF AtEnd
  <2> HIDE DEF Lower
  <2>4. CASE Lower(i, m) = {}
    <3>1. <<m, 0>> \in Sides /\ IsSide(i, <<m, 0>>) BY <2>4
    <3> QED BY <3>1
  <2>5. CASE Lower(i, m) = front \ {i}
    <3>1. <<m, 1>> \in Sides /\ IsSide(i, <<m, 1>>) BY <2>5
    <3> QED BY <3>1
  <2> QED BY <2>3, <2>4, <2>5
<1>2. ASSUME NEW i \in E PROVE side[i] \in Sides /\ IsSide(i, side[i])
  <2> HIDE DEF IsSide, Sides
  <2> QED BY <1>1
<1>3. side \in [E -> Sides]
  <2> HIDE DEF IsSide, Sides
  <2> QED BY <1>1
<1> HIDE DEF side
<1>4. ASSUME NEW i \in E, NEW j \in E, side[i] = side[j], i # j PROVE FALSE
  <2>1. i \in front /\ j \in front BY DEF Ends
  <2>2. PICK m \in ObjectiveNames : m = side[i][1] BY <1>2
  <2>3. /\ Lower(i, m) \subseteq front \ {i}
        /\ j \in Lower(i, m) \/ i \in Lower(j, m)
        /\ ~(j \in Lower(i, m) /\ i \in Lower(j, m))
    BY <1>4, <2>1, OneIsLower
  <2> HIDE DEF Lower
  <2>4. IsSide(i, side[i]) /\ IsSide(j, side[i]) BY <1>2, <1>4
  <2> QED BY <1>4, <2>1, <2>2, <2>3, <2>4
<1>5. side \in Injection(E, Sides)
  <2> HIDE DEF Sides, E
  <2> QED BY <1>3, <1>4 DEF Injection, IsInjective
<1>6. IsFiniteSet(Sides) /\ Cardinality(Sides) = 2 * Cardinality(ObjectiveNames)
  <2>1. {0, 1} = 0..1 OBVIOUS
  <2>6. 0 \in Int /\ 1 \in Int /\ ~(0 > 1) OBVIOUS
  <2>7. IsFiniteSet(0..1) /\ Cardinality(0..1) = 1 - 0 + 1 BY <2>6, FS_Interval
  <2>2. IsFiniteSet({0, 1}) /\ Cardinality({0, 1}) = 2 BY <2>1, <2>7
  <2>3. IsFiniteSet(ObjectiveNames) BY OptimizerAssumption
  <2>4. Cardinality(ObjectiveNames) \in Nat BY <2>3, FS_CardinalityType
  <2>5. IsFiniteSet(Sides) /\ Cardinality(Sides) = Cardinality(ObjectiveNames) * Cardinality({0, 1})
    BY <2>2, <2>3, FS_Product
  <2> QED BY <2>2, <2>4, <2>5
<1> HIDE DEF Sides, E
<1>7. IsFiniteSet(E) /\ Cardinality(E) <= Cardinality(Sides) BY <1>5, <1>6, FS_Injection
<1> QED BY <1>6, <1>7 DEF E

\* Between the ends a distance is a number.
LEMMA GapIsNumber ==
  ASSUME NEW n \in Nat, NEW genomes \in [1..n -> Genomes], NEW front \in SUBSET (1..n),
         NEW i \in front, ~AtEnd(genomes, front, i)
  PROVE  GapSum(genomes, front, i) \in Int
<1> DEFINE Values(positions, m) == {Objectives(genomes[j])[m] : j \in positions}
           Lower(m) == LowerPositions(genomes, front, i, m)
           Upper(m) == front \ (Lower(m) \cup {i})
           span == [m \in DOMAIN Objectives(genomes[i]) |->
                      Max(Values(front, m)) - Min(Values(front, m))]
           wide == {m \in DOMAIN span : span[m] > 0}
           gap == [m \in wide |-> (Min(Values(Upper(m), m)) - Max(Values(Lower(m), m)))
                                    * ProductOver(span, wide \ {m})]
<1>1. GapSum(genomes, front, i) = SumFunctionOnSet(gap, wide) BY DEF GapSum, ProductOver
<1>2. DOMAIN Objectives(genomes[i]) = ObjectiveNames /\ IsFiniteSet(ObjectiveNames)
  BY ObjectivesAreNumbers, OptimizerAssumption
<1>3. ASSUME NEW m \in ObjectiveNames, NEW A \in SUBSET front, A # {}
      PROVE  Max(Values(A, m)) \in Int /\ Min(Values(A, m)) \in Int
  <2> DEFINE value == [j \in A |-> Objectives(genomes[j])[m]]
             V == {value[j] : j \in A}
  <2>1. V = Values(A, m) OBVIOUS
  <2>2. \A j \in A : value[j] \in Int BY ObjectivesAreNumbers
  <2> HIDE DEF value
  <2>3. IsFiniteSet(A)
    <3>1. A \in SUBSET (1..n) OBVIOUS
    <3> QED BY <3>1, PositionsAreFinite
  <2>4. IsFiniteSet(V) BY <2>3, ImageIsFinite
  <2>5. V \subseteq Int /\ V # {} BY <1>3, <2>2
  <2> HIDE DEF V
  <2>6. Max(V) \in V /\ Min(V) \in V BY <2>4, <2>5, MaxIsGreatest, MinIsLeast
  <2> HIDE DEF Values
  <2> QED BY <2>1, <2>5, <2>6
<1>4. \A m \in ObjectiveNames : span[m] \in Int
  <2> HIDE DEF Values
  <2> QED BY <1>2, <1>3
<1>5. wide \subseteq ObjectiveNames /\ IsFiniteSet(wide) BY <1>2, FS_Subset
<1>6. \A m \in ObjectiveNames : /\ Lower(m) \in SUBSET front /\ Lower(m) # {}
                                /\ Upper(m) \in SUBSET front /\ Upper(m) # {}
  <2> SUFFICES ASSUME NEW m \in ObjectiveNames
               PROVE  /\ Lower(m) \in SUBSET front /\ Lower(m) # {}
                      /\ Upper(m) \in SUBSET front /\ Upper(m) # {}
    OBVIOUS
  <2>1. Lower(m) \notin {{}, front \ {i}} BY <1>2 DEF AtEnd
  <2>2. Lower(m) \subseteq front \ {i} BY OneIsLower
  <2> QED BY <2>1, <2>2
<1>7. ASSUME NEW m \in wide PROVE gap[m] \in Int
  <2>1. m \in ObjectiveNames BY <1>5
  <2>2. Min(Values(Upper(m), m)) \in Int /\ Max(Values(Lower(m), m)) \in Int
    <3> HIDE DEF Values, Upper, Lower
    <3> QED BY <1>3, <1>6, <2>1
  <2>3. IsFiniteSet(wide \ {m}) BY <1>5, FS_RemoveElement
  <2>4. \A k \in wide \ {m} : span[k] \in Int BY <1>4, <1>5
  <2> HIDE DEF span, wide, Values, Upper, Lower
  <2>5. ProductOver(span, wide \ {m}) \in Int BY <2>3, <2>4, ProductType
  <2> QED BY <2>2, <2>5
<1> HIDE DEF gap, wide
<1>8. SumFunctionOnSet(gap, wide) \in Int BY <1>5, <1>7, SumType
<1> QED BY <1>1, <1>8
-----------------------------------------------------------------------------
(* The search: selection is the prefix of a total order. *)

Company(genomes, rank, i) == {j \in DOMAIN genomes : rank[genomes[j]] = rank[genomes[i]]}
PlacedSet(genomes, rank) == {Placed(genomes, rank, i) : i \in DOMAIN genomes}
AheadPairs(S) == {pair \in S \X S : Ahead(pair[1], pair[2])}

IsKey(x) == x.rank \in Nat /\ x.at \in Nat /\ x.room \in [end : BOOLEAN, gap : Int]

\* What a position is sorted by.
LEMMA PlacedFields ==
  ASSUME NEW n \in Nat, NEW genomes \in [1..n -> Genomes], NEW rank, NEW i \in 1..n
  PROVE  /\ Placed(genomes, rank, i).genome = genomes[i]
         /\ Placed(genomes, rank, i).rank = rank[genomes[i]]
         /\ Placed(genomes, rank, i).at = i
         /\ Placed(genomes, rank, i).room = Crowding(genomes, Company(genomes, rank, i), i)
BY DEF Placed, Company

\* The key is made of numbers, and its room has the end of the crowding.
LEMMA PlacedIsKey ==
  ASSUME NEW n \in Nat, NEW genomes \in [1..n -> Genomes], NEW rank,
         \A j \in 1..n : rank[genomes[j]] \in Nat, NEW i \in 1..n
  PROVE  /\ IsKey(Placed(genomes, rank, i))
         /\ Placed(genomes, rank, i).room.end <=> AtEnd(genomes, Company(genomes, rank, i), i)
<1> DEFINE front == Company(genomes, rank, i)
           room == Crowding(genomes, front, i)
           end == AtEnd(genomes, front, i)
<1>1. front \in SUBSET (1..n) /\ i \in front BY DEF Company
<1> HIDE DEF front
<1>2. end \in BOOLEAN BY DEF AtEnd
<1>3. ~end => GapSum(genomes, front, i) \in Int BY <1>1, GapIsNumber
<1> HIDE DEF end
<1>4. room = [end |-> end, gap |-> IF end THEN 0 ELSE GapSum(genomes, front, i)]
  BY DEF Crowding, end
<1> HIDE DEF room
<1>5. (IF end THEN 0 ELSE GapSum(genomes, front, i)) \in Int BY <1>2, <1>3
<1>6. room \in [end : BOOLEAN, gap : Int] BY <1>2, <1>4, <1>5
<1>7. room.end = end BY <1>4
<1>8. /\ Placed(genomes, rank, i).rank = rank[genomes[i]]
      /\ Placed(genomes, rank, i).at = i /\ Placed(genomes, rank, i).room = room
  BY PlacedFields DEF room, front
<1>9. IsKey(Placed(genomes, rank, i)) BY <1>6, <1>8 DEF IsKey
<1>10. Placed(genomes, rank, i).room.end = end BY <1>7, <1>8
<1> QED BY <1>2, <1>9, <1>10 DEF end, front

\* Keys are ordered: rank, then the ends, then the distance, then the position.
LEMMA KeysAreOrdered ==
  ASSUME NEW S, \A x \in S : IsKey(x), \A x, y \in S : x.at = y.at => x = y
  PROVE  Orders(AheadPairs(S), S)
<1>1. \A x, y \in S : <<x, y>> \in AheadPairs(S) <=> Ahead(x, y) BY DEF AheadPairs
<1>2. \A x \in S : /\ x.rank \in Nat /\ x.at \in Nat
                   /\ x.room.end \in BOOLEAN /\ x.room.gap \in Int
                   /\ x.room = [end |-> x.room.end, gap |-> x.room.gap]
  BY DEF IsKey
<1>3. ASSUME NEW x \in S, NEW y \in S
      PROVE  /\ ~Ahead(x, x)
             /\ x # y => Ahead(x, y) \/ Ahead(y, x)
  <2>1. /\ x.rank \in Nat /\ y.rank \in Nat /\ x.at \in Nat /\ y.at \in Nat
        /\ x.room.gap \in Int /\ y.room.gap \in Int
    BY <1>2
  <2>2. ~Ahead(x, x)
    <3>1. ~(x.room.end /\ ~x.room.end) BY Zenon
    <3> QED BY <2>1, <3>1 DEF Ahead
  <2>3. ASSUME x # y, x.rank = y.rank PROVE Ahead(x, y) \/ Ahead(y, x)
    <3>1. x.at # y.at BY <2>3
    <3>2. x.at < y.at \/ y.at < x.at BY <2>1, <3>1
    <3>3. CASE x.room = y.room BY <2>3, <3>2, <3>3 DEF Ahead
    <3>4. CASE x.room # y.room
      <4>1. CASE x.room.end = y.room.end
        <5>1. x.room.gap # y.room.gap
          <6>1. /\ x.room = [end |-> x.room.end, gap |-> x.room.gap]
                /\ y.room = [end |-> y.room.end, gap |-> y.room.gap]
            BY <1>2
          <6> SUFFICES ASSUME x.room.gap = y.room.gap PROVE FALSE OBVIOUS
          <6> DEFINE e == x.room.end
                     g == x.room.gap
          <6>2. x.room = [end |-> e, gap |-> g] /\ y.room = [end |-> e, gap |-> g]
            BY <4>1, <6>1, Zenon
          <6> QED BY <3>4, <6>2, Zenon
        <5>2. x.room.gap > y.room.gap \/ y.room.gap > x.room.gap BY <2>1, <5>1
        <5> QED BY <2>3, <4>1, <5>2 DEF Ahead
      <4>2. CASE x.room.end # y.room.end
        <5>1. x.room.end \in BOOLEAN /\ y.room.end \in BOOLEAN BY <1>2
        <5>2. (x.room.end /\ ~y.room.end) \/ (y.room.end /\ ~x.room.end)
          BY <4>2, <5>1, Zenon
        <5> QED BY <2>3, <5>2, Zenon DEF Ahead
      <4> QED BY <4>1, <4>2
    <3> QED BY <3>3, <3>4
  <2>4. ASSUME x.rank # y.rank PROVE Ahead(x, y) \/ Ahead(y, x)
    BY <2>1, <2>4 DEF Ahead
  <2> QED BY <2>2, <2>3, <2>4
<1>4. ASSUME NEW x \in S, NEW y \in S, NEW z \in S, Ahead(x, y), Ahead(y, z)
      PROVE  Ahead(x, z)
  <2>1. /\ x.rank \in Nat /\ y.rank \in Nat /\ z.rank \in Nat
        /\ x.at \in Nat /\ y.at \in Nat /\ z.at \in Nat
        /\ x.room.gap \in Int /\ y.room.gap \in Int /\ z.room.gap \in Int
    BY <1>2
  <2>2. x.rank <= y.rank /\ y.rank <= z.rank BY <1>4, <2>1 DEF Ahead
  <2>3. CASE x.rank < z.rank BY <2>3 DEF Ahead
  <2>4. CASE ~(x.rank < z.rank)
    <3>1. x.rank = y.rank /\ y.rank = z.rank BY <2>1, <2>2, <2>4
    <3>2. \/ x.room.end /\ ~y.room.end
          \/ x.room.end = y.room.end /\ x.room.gap > y.room.gap
          \/ x.room = y.room /\ x.at < y.at
      BY <1>4, <2>1, <3>1 DEF Ahead
    <3>3. \/ y.room.end /\ ~z.room.end
          \/ y.room.end = z.room.end /\ y.room.gap > z.room.gap
          \/ y.room = z.room /\ y.at < z.at
      BY <1>4, <2>1, <3>1 DEF Ahead
    <3>4. \/ x.room.end /\ ~z.room.end
          \/ x.room.end = z.room.end /\ x.room.gap > z.room.gap
          \/ x.room = z.room /\ x.at < z.at
      <4> DEFINE B(u, v) == u.room.end /\ ~v.room.end
                 C(u, v) == u.room.end = v.room.end /\ u.room.gap > v.room.gap
                 D(u, v) == u.room = v.room /\ u.at < v.at
      <4>1. CASE B(x, y)
        <5>1. ~B(y, z) BY <4>1
        <5>2. ~z.room.end BY <3>3, <4>1, <5>1, Zenon
        <5> QED BY <4>1, <5>2
      <4>2. CASE B(y, z)
        <5>1. x.room.end BY <3>2, <4>2, Zenon
        <5> QED BY <4>2, <5>1
      <4>3. CASE C(x, y) /\ C(y, z) BY <2>1, <4>3
      <4>4. CASE C(x, y) /\ D(y, z) BY <4>4
      <4>5. CASE D(x, y) /\ C(y, z) BY <4>5
      <4>6. CASE D(x, y) /\ D(y, z) BY <2>1, <4>6
      <4> QED BY <3>2, <3>3, <4>1, <4>2, <4>3, <4>4, <4>5, <4>6
    <3> QED BY <3>1, <3>4 DEF Ahead
  <2> QED BY <2>3, <2>4
<1> QED BY <1>1, <1>3, <1>4 DEF Orders

\* What Sorted returns: everybody, at one more than the number of those ahead.
LEMMA SortedFacts ==
  ASSUME NEW n \in Nat, NEW genomes \in [1..n -> Genomes], NEW rank,
         \A j \in 1..n : rank[genomes[j]] \in Nat
  PROVE  LET S == PlacedSet(genomes, rank)
             R == AheadPairs(S)
             order == Sorted(genomes, rank)
         IN  /\ IsFiniteSet(S) /\ Orders(R, S)
             /\ \A p \in 1..n : order[p] \in S /\ Rank(R, S, order[p]) = p - 1
             /\ \A x \in S : Rank(R, S, x) + 1 \in 1..n /\ order[Rank(R, S, x) + 1] = x
<1> DEFINE S == PlacedSet(genomes, rank)
           R == AheadPairs(S)
           order == Sorted(genomes, rank)
           place == [i \in 1..n |-> Placed(genomes, rank, i)]
<1>1. S = {place[i] : i \in 1..n} BY DEF PlacedSet
<1>2. \A i \in 1..n : IsKey(place[i]) /\ place[i].at = i BY PlacedIsKey, PlacedFields
<1> HIDE DEF place
<1>3. \A x \in S : IsKey(x) BY <1>1, <1>2
<1>4. \A x, y \in S : x.at = y.at => x = y BY <1>1, <1>2
<1>5. Orders(R, S)
  <2> HIDE DEF S
  <2> QED BY <1>3, <1>4, KeysAreOrdered
<1>6. IsFiniteSet(1..n) /\ Cardinality(1..n) = n
  <2>1. 1 \in Int /\ n \in Int /\ (1 > n <=> n = 0) OBVIOUS
  <2> QED BY <2>1, FS_Interval
<1>7. place \in Surjection(1..n, S) /\ place \in Injection(1..n, S)
  <2>1. place \in [1..n -> S]
    <3>1. place = [i \in 1..n |-> place[i]] BY DEF place
    <3> QED BY <1>1, <3>1
  <2> HIDE DEF S
  <2> QED BY <1>1, <1>2, <2>1 DEF Surjection, Injection, IsInjective
<1>8. IsFiniteSet(S) /\ Cardinality(S) = n
  <2> HIDE DEF S
  <2> QED BY <1>6, <1>7, FS_Surjection
<1>9. \A x \in S : {y \in S : Ahead(y, x)} = Below(R, S, x) BY DEF Below, AheadPairs
<1>10. ASSUME NEW p \in 1..n PROVE order[p] \in S /\ Rank(R, S, order[p]) = p - 1
  <2>1. order[p] = CHOOSE x \in S : Cardinality({y \in S : Ahead(y, x)}) = p - 1
    BY DEF Sorted, PlacedSet
  <2> HIDE DEF S, R, order
  <2>2. p - 1 \in 0 .. Cardinality(S) - 1 BY <1>8
  <2>3. \E x \in S : Rank(R, S, x) = p - 1 BY <1>5, <1>8, <2>2, RankExists
  <2>4. \E x \in S : Cardinality({y \in S : Ahead(y, x)}) = p - 1
    BY <1>9, <2>3 DEF Rank
  <2>5. order[p] \in S /\ Cardinality({y \in S : Ahead(y, order[p])}) = p - 1
    BY <2>1, <2>4
  <2> QED BY <1>9, <2>5 DEF Rank
<1> HIDE DEF S, R, order
<1>11. ASSUME NEW x \in S PROVE Rank(R, S, x) + 1 \in 1..n /\ order[Rank(R, S, x) + 1] = x
  <2> DEFINE p == Rank(R, S, x) + 1
  <2>1. \A y \in S : Rank(R, S, y) \in 0 .. n - 1 BY <1>5, <1>8, RankFacts
  <2>2. p \in 1..n BY <2>1
  <2>3. order[p] \in S /\ Rank(R, S, order[p]) = p - 1 BY <1>10, <2>2
  <2>4. \A y, z \in S : <<y, z>> \in R => Rank(R, S, y) < Rank(R, S, z)
    BY <1>5, <1>8, RankFacts
  <2>5. Rank(R, S, order[p]) = Rank(R, S, x) BY <2>1, <2>3
  <2>6. order[p] = x
    <3> SUFFICES ASSUME order[p] # x PROVE FALSE OBVIOUS
    <3>1. <<order[p], x>> \in R \/ <<x, order[p]>> \in R BY <1>5, <2>3 DEF Orders
    <3>2. \/ Rank(R, S, order[p]) < Rank(R, S, x)
          \/ Rank(R, S, x) < Rank(R, S, order[p])
      BY <2>3, <2>4, <3>1
    <3>3. Rank(R, S, x) \in Int BY <2>1
    <3> QED BY <2>5, <3>2, <3>3
  <2> QED BY <2>2, <2>6
<1> QED BY <1>5, <1>8, <1>10, <1>11 DEF S, R, order

Survivors(genomes, rank, k) == {Sorted(genomes, rank)[p] : p \in 1..k}

\* Whoever is ahead of a survivor survives.
LEMMA SurvivorsArePrefix ==
  ASSUME NEW n \in Nat, NEW genomes \in [1..n -> Genomes], NEW rank,
         \A j \in 1..n : rank[genomes[j]] \in Nat, NEW k \in 0..n,
         NEW x \in Survivors(genomes, rank, k), NEW y \in PlacedSet(genomes, rank), Ahead(y, x)
  PROVE  y \in Survivors(genomes, rank, k)
<1> DEFINE S == PlacedSet(genomes, rank)
           R == AheadPairs(S)
           order == Sorted(genomes, rank)
<1>1. /\ IsFiniteSet(S) /\ Orders(R, S)
      /\ \A p \in 1..n : order[p] \in S /\ Rank(R, S, order[p]) = p - 1
      /\ \A z \in S : Rank(R, S, z) + 1 \in 1..n /\ order[Rank(R, S, z) + 1] = z
  BY SortedFacts, SMTT(60)
<1>2. PICK p \in 1..k : x = order[p] BY DEF Survivors
<1>3. p \in 1..n OBVIOUS
<1>4. x \in S /\ y \in S /\ <<y, x>> \in R BY <1>1, <1>2, <1>3 DEF AheadPairs
<1> HIDE DEF S, R, order
<1>5. Rank(R, S, y) < Rank(R, S, x) BY <1>1, <1>4, RankFacts
<1> DEFINE q == Rank(R, S, y) + 1
<1>6. Rank(R, S, x) = p - 1 BY <1>1, <1>2, <1>3
<1>7. q \in 1..n /\ order[q] = y BY <1>1, <1>4
<1>8. q \in 1..k
  <2>1. q <= p - 1 + 1 /\ p <= k /\ 1 <= q
    <3>1. Rank(R, S, y) + 1 \in 1..n BY <1>7
    <3>2. Rank(R, S, y) \in Int BY <1>1, <1>4, RankFacts
    <3> QED BY <1>5, <1>6, <3>1, <3>2
  <2> QED BY <1>7, <2>1
<1> QED BY <1>7, <1>8 DEF Survivors, order

\* Where there is room for two ends of every objective, the ends of the first front survive.
LEMMA EndsSurvive ==
  ASSUME NEW n \in Nat, NEW genomes \in [1..n -> Genomes], NEW rank,
         \A j \in 1..n : rank[genomes[j]] \in Nat, NEW k \in 0..n,
         2 * Cardinality(ObjectiveNames) <= k,
         NEW x \in PlacedSet(genomes, rank), x.rank = 0, x.room.end
  PROVE  x \in Survivors(genomes, rank, k)
<1> DEFINE S == PlacedSet(genomes, rank)
           R == AheadPairs(S)
           order == Sorted(genomes, rank)
           front == {j \in 1..n : rank[genomes[j]] = 0}
           T == Below(R, S, x) \cup {x}
           at == [y \in T |-> y.at]
<1>1. /\ IsFiniteSet(S) /\ Orders(R, S)
      /\ \A z \in S : Rank(R, S, z) + 1 \in 1..n /\ order[Rank(R, S, z) + 1] = z
  BY SortedFacts
<1>2. \A y \in S : \E i \in 1..n : y = Placed(genomes, rank, i) BY DEF PlacedSet
<1>3. ASSUME NEW y \in T PROVE y \in S /\ y.rank = 0 /\ y.room.end
  <2>1. CASE y = x BY <2>1
  <2>2. CASE y # x
    <3>1. y \in S /\ Ahead(y, x) BY <2>2 DEF Below, AheadPairs
    <3>2. PICK i \in 1..n : y = Placed(genomes, rank, i) BY <1>2, <3>1
    <3>3. IsKey(y) BY <3>2, PlacedIsKey
    <3>4. y.rank \in Nat /\ y.room.end \in BOOLEAN BY <3>3 DEF IsKey
    <3>5. y.rank < x.rank \/ y.rank = x.rank BY <3>1, Zenon DEF Ahead
    <3>6. y.rank = 0 /\ ~(y.rank < x.rank)
      <4> DEFINE r == y.rank
      <4>1. r \in Nat /\ (r < 0 \/ r = 0) BY <3>4, <3>5
      <4> HIDE DEF r
      <4>2. r = 0 /\ ~(r < 0) BY <4>1
      <4> QED BY <4>2 DEF r
    <3>7. y.room.end \/ y.room.end = x.room.end \/ y.room = x.room
      BY <3>1, <3>6, Zenon DEF Ahead
    <3>8. y.room.end BY <3>7, Zenon
    <3> QED BY <3>1, <3>6, <3>8
  <2> QED BY <2>1, <2>2
<1>4. ASSUME NEW y \in T PROVE y.at \in Ends(genomes, front) /\ y = Placed(genomes, rank, y.at)
  <2>1. PICK i \in 1..n : y = Placed(genomes, rank, i) BY <1>2, <1>3
  <2>2. y.at = i /\ y.rank = rank[genomes[i]] BY <2>1, PlacedFields
  <2>3. AtEnd(genomes, Company(genomes, rank, i), i) BY <1>3, <2>1, PlacedIsKey
  <2>4. rank[genomes[i]] = 0 BY <1>3, <2>2
  <2>5. Company(genomes, rank, i) = front BY <2>4 DEF Company
  <2> QED BY <2>1, <2>2, <2>3, <2>4, <2>5 DEF Ends
<1>5. at \in Injection(T, Ends(genomes, front))
  <2>1. at \in [T -> Ends(genomes, front)] BY <1>4
  <2>2. \A y, z \in T : at[y] = at[z] => y = z BY <1>4
  <2> HIDE DEF at, T
  <2> QED BY <2>1, <2>2 DEF Injection, IsInjective
<1>6. /\ IsFiniteSet(Ends(genomes, front))
      /\ Cardinality(Ends(genomes, front)) <= 2 * Cardinality(ObjectiveNames)
  BY EndsAreFew
<1> HIDE DEF front, at
<1>7. Cardinality(T) <= Cardinality(Ends(genomes, front))
  <2> HIDE DEF T
  <2> QED BY <1>5, <1>6, FS_Injection
<1> HIDE DEF S, R, order
<1>8. IsFiniteSet(Below(R, S, x)) BY <1>1, FS_Subset DEF Below
<1>9. x \notin Below(R, S, x)
  <2>1. x \in S BY DEF S
  <2> QED BY <1>1, <2>1 DEF Below, Orders
<1>10. Cardinality(T) = Rank(R, S, x) + 1 BY <1>8, <1>9, FS_AddElement DEF Rank
<1>11. x \in S BY DEF S
<1> DEFINE q == Rank(R, S, x) + 1
<1>12. q \in 1..n /\ order[q] = x BY <1>1, <1>11
<1>13. IsFiniteSet(ObjectiveNames) BY OptimizerAssumption
<1>14. Cardinality(ObjectiveNames) \in Nat /\ Cardinality(Ends(genomes, front)) \in Nat
  BY <1>6, <1>13, FS_CardinalityType
<1> HIDE DEF T
<1>15. q \in 1..k BY <1>6, <1>7, <1>10, <1>12, <1>14
<1> QED BY <1>12, <1>15 DEF Survivors, order
-----------------------------------------------------------------------------
(* The search: its invariant. *)

\* A population has room for the two extreme policies of every objective.  Without it
\* selection may drop one; the configuration does not ask for it.
RoomForExtremes == 2 * Cardinality(ObjectiveNames) <= PopulationSize

Present == {x.genome : x \in Range(population)}

SearchType ==
  /\ evaluated \subseteq Genomes
  /\ population \in [1..PopulationSize -> [genome : Genomes, rank : Nat]]
  /\ offspring \in Seq(Genomes)
  /\ search \in {"running", "converged", "exhausted", "answered"}

\* Whatever feasible genome was evaluated, one as good is in the population or drafted.
ExtremesKept ==
  \A g \in evaluated : FeasibleGenome(g) =>
    \A m \in ObjectiveNames : \E h \in Present \cup Range(offspring) :
      FeasibleGenome(h) /\ Objectives(h)[m] <= Objectives(g)[m]

\* A search that evaluated a feasible genome has a feasible one in the population or drafted.
FeasibleKept ==
  (\E g \in evaluated : FeasibleGenome(g)) =>
    \E h \in Present \cup Range(offspring) : FeasibleGenome(h)

RanksAreCurrent == \A x \in Range(population) : x.rank = Ranks[Present][x.genome]

\* A generation starts below the budget, or with the initial population.
GenerationStartsInBudget ==
  search = "running" /\ offspring = <<>> =>
    Cardinality(evaluated) <= PopulationSize \/ ~BudgetSpent

AnswersAreSound ==
  \A r \in answer :
    /\ r.recommended # {} <=> \E g \in r.searched : FeasibleGenome(g)
    /\ \A x \in r.recommended, y \in r.candidates : ~DominatesGenome(y.genome, x.genome)

SearchInv ==
  /\ SearchType
  /\ search # "running" => offspring = <<>>
  /\ Present \cup Range(offspring) \subseteq evaluated
  /\ search # "answered" => FeasibleKept
  /\ RoomForExtremes /\ search # "answered" => ExtremesKept
  /\ RanksAreCurrent
  /\ OverrunIsBounded /\ GenerationStartsInBudget
  /\ AnswersAreSound

\* Selection keeps with everybody all its dominators, and so its rank.
LEMMA SelectionKeepsRanks ==
  ASSUME NEW n \in Nat, NEW genomes \in [1..n -> Genomes], NEW k \in 0..n
  PROVE  LET rank == Ranks[Range(genomes)]
             order == Sorted(genomes, rank)
             K == {order[p].genome : p \in 1..k}
         IN  \A p \in 1..k : /\ order[p].genome \in Range(genomes)
                             /\ order[p].rank \in Nat
                             /\ order[p].rank = Ranks[K][order[p].genome]
<1> DEFINE pool == Range(genomes)
           rank == Ranks[pool]
           order == Sorted(genomes, rank)
           K == {order[p].genome : p \in 1..k}
<1>1. pool \in SUBSET Genomes /\ \A j \in 1..n : genomes[j] \in pool BY DEF Range
<1>2. \A g \in pool : \E j \in 1..n : g = genomes[j] BY DEF Range
<1> HIDE DEF pool
<1>3. \A g \in pool : rank[g] \in Nat BY <1>1, RankFollowsDominators
<1>4. \A g, h \in pool : DominatesGenome(h, g) => rank[h] < rank[g]
  BY <1>1, RankFactsOfGenomes
<1> HIDE DEF rank
<1>5. \A j \in 1..n : rank[genomes[j]] \in Nat BY <1>1, <1>3
<1>6. \A p \in 1..n : order[p] \in PlacedSet(genomes, rank) BY <1>5, SortedFacts
<1>7. ASSUME NEW p \in 1..k
      PROVE  \E i \in 1..n : /\ order[p] = Placed(genomes, rank, i)
                             /\ order[p].genome = genomes[i]
                             /\ order[p].rank = rank[genomes[i]]
  <2>1. order[p] \in PlacedSet(genomes, rank) BY <1>6
  <2>2. PICK i \in 1..n : order[p] = Placed(genomes, rank, i) BY <2>1 DEF PlacedSet
  <2> HIDE DEF order
  <2> QED BY <2>2, PlacedFields
<1>8. K \in SUBSET pool BY <1>1, <1>7
<1>9. ASSUME NEW p \in 1..k, NEW h \in Dominators(pool, order[p].genome) PROVE h \in K
  <2>1. PICK i \in 1..n : /\ order[p] = Placed(genomes, rank, i)
                          /\ order[p].genome = genomes[i]
                          /\ order[p].rank = rank[genomes[i]]
    BY <1>7
  <2>2. h \in pool /\ DominatesGenome(h, genomes[i]) BY <2>1 DEF Dominators
  <2>3. PICK j \in 1..n : h = genomes[j] BY <1>2, <2>2
  <2> DEFINE y == Placed(genomes, rank, j)
  <2>4. y.genome = h /\ y.rank = rank[h] BY <2>3, PlacedFields
  <2>5. y.rank < order[p].rank BY <1>1, <1>4, <2>1, <2>2, <2>4
  <2>6. y \in PlacedSet(genomes, rank) BY DEF PlacedSet
  <2>7. Ahead(y, order[p]) BY <2>5 DEF Ahead
  <2>8. order[p] \in Survivors(genomes, rank, k) BY DEF Survivors
  <2> HIDE DEF y, order
  <2>9. y \in Survivors(genomes, rank, k) BY <1>5, <2>6, <2>7, <2>8, SurvivorsArePrefix
  <2>10. PICK q \in 1..k : y = order[q] BY <2>9 DEF Survivors, order
  <2> QED BY <2>4, <2>10
<1>10. \A g \in K : Dominators(pool, g) \subseteq K BY <1>9
<1> HIDE DEF K
<1>11. \A g \in K : Ranks[K][g] = rank[g] BY <1>1, <1>8, <1>10, RanksAgree DEF rank
<1>12. ASSUME NEW p \in 1..k
       PROVE  /\ order[p].genome \in pool /\ order[p].rank \in Nat
              /\ order[p].rank = Ranks[K][order[p].genome]
  <2>1. order[p].genome \in K BY DEF K
  <2> HIDE DEF order
  <2> QED BY <1>1, <1>5, <1>7, <1>11, <2>1
<1> QED BY <1>12 DEF K, order, rank, pool

\* Selection keeps for every objective a feasible genome as good as any, where there is room.
LEMMA SelectionKeepsExtremes ==
  ASSUME RoomForExtremes, NEW n \in Nat, NEW genomes \in [1..n -> Genomes], PopulationSize <= n,
         NEW g \in Range(genomes), FeasibleGenome(g), NEW m \in ObjectiveNames
  PROVE  LET order == Sorted(genomes, Ranks[Range(genomes)])
         IN  \E p \in 1..PopulationSize :
               /\ FeasibleGenome(order[p].genome)
               /\ Objectives(order[p].genome)[m] <= Objectives(g)[m]
<1> DEFINE pool == Range(genomes)
           rank == Ranks[pool]
           front == {j \in 1..n : rank[genomes[j]] = 0}
<1>1. pool \in SUBSET Genomes /\ \A j \in 1..n : genomes[j] \in pool BY DEF Range
<1>2. \A h \in pool : \E j \in 1..n : h = genomes[j] BY DEF Range
<1>3. g \in pool OBVIOUS
<1> HIDE DEF pool
<1>4. PICK h \in pool : /\ FeasibleGenome(h) /\ Ranks[pool][h] = 0
                        /\ Objectives(h)[m] <= Objectives(g)[m]
  BY <1>1, <1>3, ExtremeIsFirst
<1>5. \A j \in 1..n : rank[genomes[j]] \in Nat BY <1>1, RankFollowsDominators
<1>6. PICK j \in front : h = genomes[j] BY <1>2, <1>4
<1>7. PICK i \in front :
        /\ AtEnd(genomes, front, i)
        /\ \A l \in front : Objectives(genomes[i])[m] <= Objectives(genomes[l])[m]
  <2>1. front # {} /\ front \in SUBSET (1..n) BY <1>6
  <2> HIDE DEF front
  <2> QED BY <2>1, LowestIsAtEnd
<1>8. i \in 1..n /\ rank[genomes[i]] = 0 OBVIOUS
<1>9. Company(genomes, rank, i) = front BY <1>8 DEF Company
<1>10. FeasibleGenome(genomes[i]) BY <1>1, <1>4, <1>8, FirstFrontIsFeasible
<1>11. Objectives(genomes[i])[m] <= Objectives(g)[m]
  <2>1. \A l \in Genomes : Objectives(l)[m] \in Int BY ObjectivesAreNumbers
  <2>2. genomes[i] \in Genomes /\ h \in Genomes /\ g \in Genomes BY <1>1, <1>3, <1>8
  <2>3. Objectives(genomes[i])[m] <= Objectives(h)[m] BY <1>6, <1>7
  <2> QED BY <1>4, <2>1, <2>2, <2>3
<1> DEFINE x == Placed(genomes, rank, i)
<1> HIDE DEF rank
<1>12. x.genome = genomes[i] /\ x.rank = 0 BY <1>8, PlacedFields
<1>13. x.room.end BY <1>5, <1>7, <1>8, <1>9, PlacedIsKey
<1>14. x \in PlacedSet(genomes, rank) BY <1>8 DEF PlacedSet
<1> HIDE DEF x
<1>15. PopulationSize \in 0..n /\ 2 * Cardinality(ObjectiveNames) <= PopulationSize
  BY OptimizerAssumption DEF RoomForExtremes
<1>16. x \in Survivors(genomes, rank, PopulationSize)
  BY <1>5, <1>12, <1>13, <1>14, <1>15, EndsSurvive
<1>17. PICK p \in 1..PopulationSize : x = Sorted(genomes, rank)[p] BY <1>16 DEF Survivors
<1> QED BY <1>10, <1>11, <1>12, <1>17 DEF rank, pool

\* Selection keeps a feasible genome if there is one, whatever the room.
LEMMA SelectionKeepsFeasible ==
  ASSUME NEW n \in Nat, NEW genomes \in [1..n -> Genomes], NEW k \in 1..n,
         NEW g \in Range(genomes), FeasibleGenome(g)
  PROVE  LET order == Sorted(genomes, Ranks[Range(genomes)])
         IN  \E p \in 1..k : FeasibleGenome(order[p].genome)
<1> DEFINE pool == Range(genomes)
           rank == Ranks[pool]
           order == Sorted(genomes, rank)
<1>1. pool \in SUBSET Genomes /\ \A j \in 1..n : genomes[j] \in pool BY DEF Range
<1>2. PICK j \in 1..n : g = genomes[j] BY DEF Range
<1> HIDE DEF pool
<1>3. \A i \in 1..n : rank[genomes[i]] \in Nat BY <1>1, RankFollowsDominators
<1>4. 1 \in 1..n /\ 1 \in 1..k /\ k \in 0..n OBVIOUS
<1>5. order[1] \in PlacedSet(genomes, rank)
  <2> HIDE DEF rank
  <2> QED BY <1>3, <1>4, SortedFacts
<1> HIDE DEF order
<1>6. PICK i \in 1..n : order[1] = Placed(genomes, rank, i) BY <1>5 DEF PlacedSet
<1>7. SUFFICES ASSUME ~FeasibleGenome(order[1].genome)
               PROVE  \E p \in 1..k : FeasibleGenome(order[p].genome)
  BY <1>4 DEF order, rank, pool
<1>8. order[1].genome = genomes[i] /\ order[1].rank = rank[genomes[i]] BY <1>6, PlacedFields
<1>9. DominatesGenome(genomes[j], genomes[i]) BY <1>2, <1>7, <1>8 DEF DominatesGenome
<1>10. rank[genomes[j]] < rank[genomes[i]] BY <1>1, <1>9, RankFactsOfGenomes
<1> DEFINE y == Placed(genomes, rank, j)
<1>11. y.genome = genomes[j] /\ y.rank = rank[genomes[j]] /\ y \in PlacedSet(genomes, rank)
  BY PlacedFields DEF PlacedSet
<1> HIDE DEF y, rank
<1>12. Ahead(y, order[1]) BY <1>8, <1>10, <1>11 DEF Ahead
<1>13. order[1] \in Survivors(genomes, rank, k) BY <1>4 DEF Survivors, order
<1>14. y \in Survivors(genomes, rank, k)
  BY <1>3, <1>4, <1>11, <1>12, <1>13, SurvivorsArePrefix
<1>15. PICK p \in 1..k : y = order[p] BY <1>14 DEF Survivors, order
<1> QED BY <1>2, <1>11, <1>15
-----------------------------------------------------------------------------
(* The search: its actions. *)

\* A set of genomes is finite.
LEMMA GenomesAreFinite ==
  ASSUME NEW S \in SUBSET Genomes
  PROVE  IsFiniteSet(S) /\ Cardinality(S) \in Nat
<1>1. IsFiniteSet(S) BY OptimizerAssumption, FS_Subset
<1> QED BY <1>1, FS_CardinalityType

SoftBudget == Max({PopulationSize + 2, MaxEvaluations + 1})

\* The soft budget holds an initial population and a pair, or the budget and a child.
LEMMA SoftBudgetIs ==
  /\ PopulationSize \in Nat \ {0} /\ MaxEvaluations \in Nat /\ LeverCount \in Nat
  /\ SoftBudget \in Int
  /\ SoftBudget >= PopulationSize + 2 /\ SoftBudget >= MaxEvaluations + 1
<1>1. PopulationSize \in Nat \ {0} /\ MaxEvaluations \in Nat /\ LeverCount \in Nat
  BY OptimizerAssumption
<1> DEFINE S == {PopulationSize + 2, MaxEvaluations + 1}
<1>2. IsFiniteSet(S)
  <2>1. S = {PopulationSize + 2} \cup {MaxEvaluations + 1} OBVIOUS
  <2>2. IsFiniteSet({PopulationSize + 2}) BY FS_Singleton
  <2> QED BY <2>1, <2>2, FS_AddElement
<1>3. S \subseteq Int /\ S # {} BY <1>1
<1>4. PopulationSize + 2 \in S /\ MaxEvaluations + 1 \in S OBVIOUS
<1>5. SoftBudget = Max(S) BY DEF SoftBudget
<1> HIDE DEF S
<1>6. Max(S) \in S /\ \A y \in S : Max(S) >= y BY <1>2, <1>3, MaxIsGreatest
<1> QED BY <1>1, <1>3, <1>4, <1>5, <1>6

\* Who is in the population.
LEMMA PopulationIs ==
  ASSUME SearchType
  PROVE  /\ \A x \in Range(population) : x.genome \in Genomes /\ x.rank \in Nat
         /\ Range(population) = {population[p] : p \in 1..PopulationSize}
         /\ \A p \in 1..PopulationSize :
              population[p].genome \in Present /\ population[p] \in Range(population)
         /\ \A x \in Range(population) : x.genome \in Present
         /\ Present \in SUBSET Genomes
<1>1. population \in [1..PopulationSize -> [genome : Genomes, rank : Nat]] BY DEF SearchType
<1> QED BY <1>1 DEF Range, Present

\* The initial population, just evaluated and ranked, has the invariant.
LEMMA InitHoldsInvariant ==
  ASSUME OptimizerInit
  PROVE  SearchInv
<1>1. PICK drawn \in InitialPopulations :
        /\ evaluated = Range(drawn)
        /\ population = [p \in 1..PopulationSize |->
                           [genome |-> drawn[p], rank |-> Ranks[Range(drawn)][drawn[p]]]]
        /\ offspring = <<>> /\ history = <<>> /\ search = "running" /\ answer = {}
  BY DEF OptimizerInit
<1>2. drawn \in [1..PopulationSize -> Genomes] BY OptimizerAssumption
<1> DEFINE S == Range(drawn)
<1>3. /\ S \in SUBSET Genomes /\ \A p \in 1..PopulationSize : drawn[p] \in S
      /\ \A g \in S : \E p \in 1..PopulationSize : g = drawn[p]
  BY <1>2 DEF Range
<1>4. drawn \in Surjection(1..PopulationSize, S)
  <2>1. drawn \in [1..PopulationSize -> S] BY <1>2, <1>3
  <2> HIDE DEF S
  <2> QED BY <1>3, <2>1 DEF Surjection
<1> HIDE DEF S
<1>5. \A g \in S : Ranks[S][g] \in Nat BY <1>3, RankFollowsDominators
<1>6. \A p \in 1..PopulationSize :
        population[p] = [genome |-> drawn[p], rank |-> Ranks[S][drawn[p]]]
  BY <1>1 DEF S
<1>7. population \in [1..PopulationSize -> [genome : Genomes, rank : Nat]]
  <2>1. \A p \in 1..PopulationSize : drawn[p] \in Genomes /\ Ranks[S][drawn[p]] \in Nat
    BY <1>2, <1>3, <1>5
  <2> QED BY <1>1, <2>1 DEF S
<1>8. SearchType BY <1>1, <1>3, <1>7 DEF SearchType, S
<1>9. /\ Range(population) = {population[p] : p \in 1..PopulationSize}
      /\ \A p \in 1..PopulationSize :
           population[p].genome = drawn[p] /\ population[p].rank = Ranks[S][drawn[p]]
  <2>1. Range(population) = {population[p] : p \in 1..PopulationSize} BY <1>8, PopulationIs
  <2>2. ASSUME NEW p \in 1..PopulationSize
        PROVE  population[p].genome = drawn[p] /\ population[p].rank = Ranks[S][drawn[p]]
    <3> DEFINE r == Ranks[S][drawn[p]]
    <3>1. population[p] = [genome |-> drawn[p], rank |-> r] BY Zenon, <1>6
    <3> HIDE DEF r
    <3>2. population[p].genome = drawn[p] /\ population[p].rank = r BY <3>1
    <3> QED BY Zenon, <3>2 DEF r
  <2> QED BY <2>1, <2>2
<1>10. Present = S
  <2>1. \A x \in Range(population) : x.genome \in S
    <3> SUFFICES ASSUME NEW p \in 1..PopulationSize PROVE population[p].genome \in S BY <1>9
    <3>1. population[p].genome = drawn[p] BY <1>9
    <3> QED BY <1>3, <3>1
  <2>2. \A g \in S : \E x \in Range(population) : g = x.genome
    <3> SUFFICES ASSUME NEW g \in S PROVE \E x \in Range(population) : g = x.genome
      OBVIOUS
    <3>1. PICK p \in 1..PopulationSize : g = drawn[p] BY <1>3
    <3>2. population[p].genome = g BY <1>9, <3>1
    <3>3. population[p] \in Range(population) BY <1>9
    <3> QED BY <3>2, <3>3
  <2> QED BY <2>1, <2>2 DEF Present
<1>11. RanksAreCurrent
  <2>1. \A x \in Range(population) : x.rank = Ranks[S][x.genome]
    <3> SUFFICES ASSUME NEW p \in 1..PopulationSize
                 PROVE  population[p].rank = Ranks[S][population[p].genome]
      BY <1>9
    <3> QED BY Zenon, <1>9
  <2> QED BY <1>10, <2>1 DEF RanksAreCurrent
<1>12. Range(offspring) = {} BY <1>1 DEF Range
<1>13. Cardinality(evaluated) <= PopulationSize /\ Cardinality(evaluated) \in Nat
  <2>1. PopulationSize \in Nat BY SoftBudgetIs
  <2>2. 1 \in Int /\ PopulationSize \in Int /\ ~(1 > PopulationSize) BY SoftBudgetIs
  <2>3. IsFiniteSet(1..PopulationSize) /\ Cardinality(1..PopulationSize) = PopulationSize
    BY <2>1, <2>2, FS_Interval
  <2>4. Cardinality(S) <= PopulationSize BY <1>4, <2>3, FS_Surjection
  <2> QED BY <1>1, <1>3, <2>4, GenomesAreFinite DEF S
<1>14. OverrunIsBounded
  BY <1>1, <1>13, SoftBudgetIs DEF OverrunIsBounded, SoftBudget
<1>15. GenerationStartsInBudget BY <1>13 DEF GenerationStartsInBudget
<1>16. ExtremesKept
  <2> SUFFICES ASSUME NEW g \in evaluated, FeasibleGenome(g), NEW m \in ObjectiveNames
               PROVE  \E h \in Present \cup Range(offspring) :
                        FeasibleGenome(h) /\ Objectives(h)[m] <= Objectives(g)[m]
    BY DEF ExtremesKept
  <2>1. g \in Present /\ g \in Genomes BY <1>1, <1>3, <1>10 DEF S
  <2>2. Objectives(g)[m] <= Objectives(g)[m] BY <2>1, ObjectivesAreNumbers
  <2> QED BY <2>1, <2>2
<1>17. AnswersAreSound BY <1>1 DEF AnswersAreSound
<1>18. Present \cup Range(offspring) \subseteq evaluated BY <1>1, <1>10, <1>12 DEF S
<1>19. FeasibleKept BY <1>1, <1>10 DEF FeasibleKept, S
<1> QED BY <1>1, <1>8, <1>11, <1>14, <1>15, <1>16, <1>17, <1>18, <1>19 DEF SearchInv

\* Two children are drafted; a pair is begun below the budget or is the first.
LEMMA ReproduceKeepsInvariant ==
  ASSUME SearchInv, NEW g \in Genomes, NEW h \in Genomes, Reproduce(g, h)
  PROVE  SearchInv'
<1>1. /\ search = "running" /\ ~GenerationComplete
      /\ offspring' = offspring \o <<g, h>> /\ evaluated' = evaluated \cup {g, h}
      /\ UNCHANGED <<population, history, search, answer>>
  BY DEF Reproduce
<1>2. /\ SearchType /\ Present \cup Range(offspring) \subseteq evaluated
      /\ FeasibleKept /\ RanksAreCurrent /\ OverrunIsBounded
      /\ GenerationStartsInBudget /\ AnswersAreSound
      /\ RoomForExtremes => ExtremesKept
  BY <1>1 DEF SearchInv
<1>3. offspring \in Seq(Genomes) /\ evaluated \subseteq Genomes BY <1>2 DEF SearchType
<1>4. offspring' \in Seq(Genomes) BY <1>1, <1>3
<1>5. Range(offspring') = Range(offspring) \cup {g, h}
  <2>1. /\ DOMAIN offspring = 1..Len(offspring) /\ Len(offspring) \in Nat
        /\ DOMAIN offspring' = 1 .. Len(offspring) + 2
        /\ \A i \in 1..Len(offspring) : offspring'[i] = offspring[i]
        /\ offspring'[Len(offspring) + 1] = g /\ offspring'[Len(offspring) + 2] = h
    BY <1>1, <1>3
  <2>2. Range(offspring') \subseteq Range(offspring) \cup {g, h}
    <3> SUFFICES ASSUME NEW i \in DOMAIN offspring'
                 PROVE  offspring'[i] \in Range(offspring) \cup {g, h}
      BY DEF Range
    <3>1. \/ i \in 1..Len(offspring)
          \/ i = Len(offspring) + 1
          \/ i = Len(offspring) + 2
      BY <2>1
    <3> QED BY <2>1, <3>1 DEF Range
  <2>3. Range(offspring) \subseteq Range(offspring')
    <3> SUFFICES ASSUME NEW i \in DOMAIN offspring PROVE offspring[i] \in Range(offspring')
      BY DEF Range
    <3>1. i \in DOMAIN offspring' /\ offspring'[i] = offspring[i] BY <2>1
    <3> QED BY <3>1 DEF Range
  <2>4. {g, h} \subseteq Range(offspring')
    <3>1. Len(offspring) + 1 \in DOMAIN offspring' /\ Len(offspring) + 2 \in DOMAIN offspring'
      BY <2>1
    <3>2. offspring'[Len(offspring) + 1] \in Range(offspring')
          /\ offspring'[Len(offspring) + 2] \in Range(offspring')
      BY <3>1 DEF Range
    <3> QED BY <2>1, <3>2
  <2> QED BY <2>2, <2>3, <2>4
<1>6. SearchType' BY <1>1, <1>2, <1>4 DEF SearchType
<1>7. Present' = Present BY <1>1 DEF Present
<1>8. (Present \cup Range(offspring) \subseteq evaluated)' BY <1>1, <1>2, <1>5, <1>7
<1>9. RanksAreCurrent' BY <1>1, <1>2, <1>7 DEF RanksAreCurrent
<1>10. ASSUME RoomForExtremes PROVE ExtremesKept'
  <2> SUFFICES ASSUME NEW e \in evaluated', FeasibleGenome(e), NEW m \in ObjectiveNames
               PROVE  \E k \in Present' \cup Range(offspring') :
                        FeasibleGenome(k) /\ Objectives(k)[m] <= Objectives(e)[m]
    BY DEF ExtremesKept
  <2>1. CASE e \in evaluated
    <3>1. PICK k \in Present \cup Range(offspring) :
            FeasibleGenome(k) /\ Objectives(k)[m] <= Objectives(e)[m]
      BY <1>2, <1>10, <2>1 DEF ExtremesKept
    <3> QED BY <1>5, <1>7, <3>1
  <2>2. CASE e \in {g, h}
    <3>1. e \in Genomes BY <2>2
    <3>2. Objectives(e)[m] <= Objectives(e)[m] BY <3>1, ObjectivesAreNumbers
    <3> QED BY <1>5, <2>2, <3>2
  <2> QED BY <1>1, <2>1, <2>2
<1>11. Cardinality(evaluated) <= PopulationSize \/ Cardinality(evaluated) < MaxEvaluations
  <2>1. CASE offspring = <<>>
    BY <1>1, <1>2, <1>3, <2>1, GenomesAreFinite, SoftBudgetIs
    DEF GenerationStartsInBudget, BudgetSpent
  <2>2. CASE offspring # <<>>
    BY <1>1, <1>3, <2>2, GenomesAreFinite, SoftBudgetIs DEF GenerationComplete, BudgetSpent
  <2> QED BY <2>1, <2>2
<1>12. Cardinality(evaluated') \in Nat /\ Cardinality(evaluated') <= Cardinality(evaluated) + 2
  <2>1. IsFiniteSet(evaluated) /\ Cardinality(evaluated) \in Nat BY <1>3, GenomesAreFinite
  <2>2. IsFiniteSet(evaluated \cup {g})
        /\ Cardinality(evaluated \cup {g}) <= Cardinality(evaluated) + 1
    <3>1. /\ IsFiniteSet(evaluated \cup {g})
          /\ Cardinality(evaluated \cup {g})
               = IF g \in evaluated THEN Cardinality(evaluated) ELSE Cardinality(evaluated) + 1
      BY <2>1, FS_AddElement
    <3> QED BY <2>1, <3>1
  <2>3. Cardinality(evaluated \cup {g}) \in Nat BY <2>2, FS_CardinalityType
  <2>4. IsFiniteSet((evaluated \cup {g}) \cup {h})
        /\ Cardinality((evaluated \cup {g}) \cup {h}) <= Cardinality(evaluated \cup {g}) + 1
    BY <2>2, <2>3, FS_AddElement
  <2>5. evaluated' = (evaluated \cup {g}) \cup {h} BY <1>1
  <2>6. Cardinality(evaluated') \in Nat BY <2>4, <2>5, FS_CardinalityType
  <2> QED BY <2>1, <2>2, <2>3, <2>4, <2>5, <2>6
<1>13. Cardinality(evaluated) \in Nat BY <1>3, GenomesAreFinite
<1>14. OverrunIsBounded'
  <2>1. Cardinality(evaluated') <= SoftBudget BY <1>11, <1>12, <1>13, SoftBudgetIs
  <2>2. SoftBudget \in Int BY SoftBudgetIs
  <2>3. Cardinality(evaluated') <= SoftBudget + 0 BY <1>12, <2>1, <2>2
  <2>4. ~(search' = "answered") BY <1>1
  <2> QED BY <2>3, <2>4 DEF OverrunIsBounded, SoftBudget
<1>15. offspring' # <<>>
  <2>1. Len(offspring') = Len(offspring) + 2 /\ Len(offspring) \in Nat BY <1>1, <1>3
  <2> QED BY <2>1
<1>16. GenerationStartsInBudget' BY <1>15 DEF GenerationStartsInBudget
<1>17. AnswersAreSound' BY <1>1, <1>2 DEF AnswersAreSound
<1>18. FeasibleKept'
  <2> SUFFICES ASSUME NEW e \in evaluated', FeasibleGenome(e)
               PROVE  \E k \in Present' \cup Range(offspring') : FeasibleGenome(k)
    BY DEF FeasibleKept
  <2>1. CASE e \in evaluated
    <3>1. PICK k \in Present \cup Range(offspring) : FeasibleGenome(k)
      BY <1>2, <2>1 DEF FeasibleKept
    <3> QED BY <1>5, <1>7, <3>1
  <2>2. CASE e \in {g, h} BY <1>5, <2>2
  <2> QED BY <1>1, <2>1, <2>2
<1> QED BY <1>1, <1>6, <1>8, <1>9, <1>10, <1>14, <1>16, <1>17, <1>18
        DEF SearchInv, RoomForExtremes

\* Selection: a new population out of the old one and its offspring.
LEMMA SelectKeepsInvariant ==
  ASSUME SearchInv, Select
  PROVE  SearchInv'
<1> DEFINE parents == [p \in 1..PopulationSize |-> population[p].genome]
           combined == parents \o offspring
           n == PopulationSize + Len(offspring)
           order == Sorted(combined, Ranks[Range(combined)])
<1>1. /\ search = "running"
      /\ population' = [p \in 1..PopulationSize |->
                          [genome |-> order[p].genome, rank |-> order[p].rank]]
      /\ offspring' = <<>>
      /\ search' = IF Converged(history') THEN "converged"
                   ELSE IF BudgetSpent \/ Len(history') = MaxGenerations THEN "exhausted"
                   ELSE "running"
      /\ UNCHANGED <<evaluated, answer>>
  BY DEF Select
<1>2. /\ SearchType /\ Present \cup Range(offspring) \subseteq evaluated
      /\ FeasibleKept /\ OverrunIsBounded /\ AnswersAreSound
      /\ RoomForExtremes => ExtremesKept
  BY <1>1 DEF SearchInv
<1>3. PopulationSize \in Nat \ {0} BY SoftBudgetIs
<1>4. /\ offspring \in Seq(Genomes) /\ evaluated \subseteq Genomes
      /\ population \in [1..PopulationSize -> [genome : Genomes, rank : Nat]]
  BY <1>2 DEF SearchType
<1>5. parents \in [1..PopulationSize -> Genomes] BY <1>4
<1>6. n \in Nat /\ PopulationSize <= n /\ Len(offspring) \in Nat BY <1>3, <1>4
<1>7. combined \in [1..n -> Genomes]
  <2>1. parents \in Seq(Genomes) /\ Len(parents) = PopulationSize BY <1>3, <1>5
  <2> HIDE DEF parents
  <2>2. combined \in Seq(Genomes) /\ Len(combined) = n BY <1>4, <2>1
  <2> HIDE DEF combined, n
  <2> QED BY <2>2
<1>8. Range(combined) = Present \cup Range(offspring)
  <2>1. /\ DOMAIN offspring = 1..Len(offspring)
        /\ \A i \in 1..PopulationSize : combined[i] = population[i].genome
        /\ \A i \in 1..Len(offspring) : combined[PopulationSize + i] = offspring[i]
        /\ DOMAIN combined = 1..n
    BY <1>3, <1>4, <1>5, <1>7
  <2> HIDE DEF combined
  <2>2. Range(combined) \subseteq Present \cup Range(offspring)
    <3> SUFFICES ASSUME NEW i \in 1..n PROVE combined[i] \in Present \cup Range(offspring)
      BY <2>1 DEF Range
    <3>1. CASE i \in 1..PopulationSize BY <1>2, <2>1, <3>1, PopulationIs
    <3>2. CASE i \notin 1..PopulationSize
      <4>1. i - PopulationSize \in 1..Len(offspring) BY <1>3, <1>6, <3>2
      <4>2. combined[PopulationSize + (i - PopulationSize)] = offspring[i - PopulationSize]
        BY <2>1, <4>1
      <4>3. PopulationSize + (i - PopulationSize) = i BY <1>3
      <4> QED BY <2>1, <4>1, <4>2, <4>3 DEF Range
    <3> QED BY <3>1, <3>2
  <2>3. Present \subseteq Range(combined)
    <3> SUFFICES ASSUME NEW g \in Present PROVE g \in Range(combined) OBVIOUS
    <3>1. Range(population) = {population[p] : p \in 1..PopulationSize} BY <1>2, PopulationIs
    <3>2. PICK p \in 1..PopulationSize : g = population[p].genome BY <3>1 DEF Present
    <3>3. p \in 1..n /\ combined[p] = g BY <1>3, <1>6, <2>1, <3>2
    <3> QED BY <2>1, <3>3 DEF Range
  <2>4. Range(offspring) \subseteq Range(combined)
    <3> SUFFICES ASSUME NEW i \in 1..Len(offspring) PROVE offspring[i] \in Range(combined)
      BY <2>1 DEF Range
    <3>1. PopulationSize + i \in 1..n BY <1>3, <1>6
    <3>2. combined[PopulationSize + i] \in Range(combined) BY <2>1, <3>1 DEF Range
    <3> QED BY <2>1, <3>2
  <2> QED BY <2>2, <2>3, <2>4
<1> HIDE DEF combined, parents, n
<1> DEFINE K == {order[p].genome : p \in 1..PopulationSize}
<1>9. \A p \in 1..PopulationSize : /\ order[p].genome \in Range(combined)
                                   /\ order[p].rank \in Nat
                                   /\ order[p].rank = Ranks[K][order[p].genome]
  <2>1. PopulationSize \in 0..n BY <1>3, <1>6
  <2> QED BY <1>6, <1>7, <2>1, SelectionKeepsRanks
<1>10. ASSUME RoomForExtremes,
              NEW g \in Range(combined), FeasibleGenome(g), NEW m \in ObjectiveNames
       PROVE  \E p \in 1..PopulationSize :
                /\ FeasibleGenome(order[p].genome)
                /\ Objectives(order[p].genome)[m] <= Objectives(g)[m]
  BY <1>6, <1>7, <1>10, SelectionKeepsExtremes
<1>11. Range(combined) \subseteq evaluated /\ Range(combined) \subseteq Genomes
  BY <1>2, <1>4, <1>8
<1>24. ASSUME NEW g \in Range(combined), FeasibleGenome(g)
       PROVE  \E p \in 1..PopulationSize : FeasibleGenome(order[p].genome)
  <2>1. PopulationSize \in 1..n BY <1>3, <1>6
  <2> QED BY <1>6, <1>7, <1>24, <2>1, SelectionKeepsFeasible
<1> HIDE DEF order
<1>12. population' \in [1..PopulationSize -> [genome : Genomes, rank : Nat]]
  BY <1>1, <1>9, <1>11
<1>13. SearchType' BY <1>1, <1>2, <1>12 DEF SearchType
<1>14. \A p \in 1..PopulationSize :
         population'[p].genome = order[p].genome /\ population'[p].rank = order[p].rank
  BY <1>1
<1>15. Range(population') = {population'[p] : p \in 1..PopulationSize} BY <1>12 DEF Range
<1>16. Present' = K BY <1>14, <1>15 DEF Present
<1>17. RanksAreCurrent' BY <1>9, <1>14, <1>15, <1>16 DEF RanksAreCurrent
<1>18. Range(offspring') = {} BY <1>1 DEF Range
<1>19. K \subseteq evaluated BY <1>9, <1>11
<1>20. ASSUME RoomForExtremes PROVE ExtremesKept'
  <2> SUFFICES ASSUME NEW e \in evaluated, FeasibleGenome(e), NEW m \in ObjectiveNames
               PROVE  \E k \in Present' \cup Range(offspring') :
                        FeasibleGenome(k) /\ Objectives(k)[m] <= Objectives(e)[m]
    BY <1>1 DEF ExtremesKept
  <2>1. PICK g \in Range(combined) : FeasibleGenome(g) /\ Objectives(g)[m] <= Objectives(e)[m]
    BY <1>2, <1>8, <1>20 DEF ExtremesKept
  <2>2. PICK p \in 1..PopulationSize :
          FeasibleGenome(order[p].genome) /\ Objectives(order[p].genome)[m] <= Objectives(g)[m]
    BY <1>10, <1>20, <2>1
  <2>3. order[p].genome \in K /\ order[p].genome \in Genomes BY <1>9, <1>11
  <2>4. g \in Genomes /\ e \in Genomes BY <1>4, <1>11
  <2>5. Objectives(order[p].genome)[m] <= Objectives(e)[m]
    <3>1. \A k \in Genomes : Objectives(k)[m] \in Int BY ObjectivesAreNumbers
    <3> QED BY <2>1, <2>2, <2>3, <2>4, <3>1
  <2> QED BY <1>16, <2>2, <2>3, <2>5
<1>21. OverrunIsBounded'
  <2>1. search' # "answered" /\ search # "answered" BY <1>1
  <2> QED BY <1>1, <1>2, <2>1 DEF OverrunIsBounded
<1>22. GenerationStartsInBudget' BY <1>1 DEF GenerationStartsInBudget, BudgetSpent
<1>23. AnswersAreSound' BY <1>1, <1>2 DEF AnswersAreSound
<1>25. FeasibleKept'
  <2> SUFFICES ASSUME NEW e \in evaluated, FeasibleGenome(e)
               PROVE  \E k \in Present' : FeasibleGenome(k)
    BY <1>1 DEF FeasibleKept
  <2>1. PICK g \in Range(combined) : FeasibleGenome(g) BY <1>2, <1>8 DEF FeasibleKept
  <2>2. PICK p \in 1..PopulationSize : FeasibleGenome(order[p].genome) BY <1>24, <2>1
  <2> QED BY <1>16, <2>2
<1> HIDE DEF K
<1> QED BY <1>1, <1>13, <1>16, <1>17, <1>18, <1>19, <1>20, <1>21, <1>22, <1>23, <1>25
        DEF SearchInv, RoomForExtremes

\* Between two generations, and with the search at its end, the extremes are in the population.
LEMMA NothingIsLost ==
  ASSUME RoomForExtremes, SearchInv
  PROVE  NothingGoodIsLost
<1>1. /\ SearchType /\ RanksAreCurrent
      /\ Present \cup Range(offspring) \subseteq evaluated /\ evaluated \subseteq Genomes
  BY DEF SearchInv, SearchType
<1>2. /\ \A x \in Range(population) : x.genome \in Genomes /\ x.rank \in Nat
      /\ \A x \in Range(population) : x.genome \in Present
      /\ Present \in SUBSET Genomes
  BY <1>1, PopulationIs
<1>3. ASSUME search # "answered", offspring = <<>>, NEW g \in evaluated, FeasibleGenome(g),
             NEW m \in ObjectiveNames
      PROVE  \E x \in Range(population) :
               /\ FeasibleGenome(x.genome) /\ x.rank = 0
               /\ Objectives(x.genome)[m] <= Objectives(g)[m]
  <2>1. ExtremesKept BY <1>3 DEF SearchInv
  <2>2. Range(offspring) = {} BY <1>3 DEF Range
  <2>3. PICK h \in Present : FeasibleGenome(h) /\ Objectives(h)[m] <= Objectives(g)[m]
    BY <1>3, <2>1, <2>2 DEF ExtremesKept
  <2>4. PICK k \in Present : /\ FeasibleGenome(k) /\ Ranks[Present][k] = 0
                             /\ Objectives(k)[m] <= Objectives(h)[m]
    BY <1>2, <2>3, ExtremeIsFirst
  <2>5. PICK x \in Range(population) : x.genome = k BY DEF Present
  <2>6. x.rank = 0 BY <1>1, <2>4, <2>5 DEF RanksAreCurrent
  <2>7. Objectives(k)[m] <= Objectives(g)[m]
    <3>1. \A l \in Genomes : Objectives(l)[m] \in Int BY ObjectivesAreNumbers
    <3>2. g \in Genomes /\ h \in Genomes /\ k \in Genomes BY <1>1, <1>2
    <3> QED BY <2>3, <2>4, <3>1, <3>2
  <2> QED BY <2>4, <2>5, <2>6, <2>7
<1>4. \A g \in Genomes : DOMAIN Objectives(g) = ObjectiveNames BY ObjectivesAreNumbers
<1>5. search # "answered" /\ offspring = <<>> =>
        \A g \in {e \in evaluated : FeasibleGenome(e)} : \A m \in DOMAIN Objectives(g) :
          \E x \in Range(population) :
            /\ FeasibleGenome(x.genome) /\ x.rank = 0
            /\ Objectives(x.genome)[m] <= Objectives(g)[m]
  BY <1>1, <1>3, <1>4
<1>6. \A x \in Range(population) :
        x.rank = Ranks[{y.genome : y \in Range(population)}][x.genome]
  BY <1>1 DEF RanksAreCurrent, Present
<1> QED BY <1>5, <1>6 DEF NothingGoodIsLost

\* The result: a recommendation exactly if there was a feasible policy, and none better.
LEMMA BuildKeepsInvariant ==
  ASSUME SearchInv, NEW probes \in SUBSET Genomes, BuildResult(probes)
  PROVE  SearchInv'
<1> DEFINE front == FrontOf(Range(population))
<1>1. /\ search \in {"converged", "exhausted"}
      /\ Cardinality(probes) <= IF front = {} THEN 0 ELSE 2 * LeverCount
      /\ evaluated' = evaluated \cup probes /\ search' = "answered"
      /\ UNCHANGED <<population, offspring, history>>
  BY DEF BuildResult
<1>2. PICK chosen \in SUBSET front :
        /\ Cardinality(chosen) = IF front = {} THEN 0 ELSE 1
        /\ answer' = {[candidates |-> Range(population), recommended |-> chosen,
                       searched |-> evaluated, converged |-> search = "converged",
                       evaluations |-> Cardinality(evaluated \cup probes)]}
  BY DEF BuildResult
<1>3. /\ SearchType /\ offspring = <<>> /\ Present \cup Range(offspring) \subseteq evaluated
      /\ RanksAreCurrent /\ OverrunIsBounded /\ evaluated \subseteq Genomes
      /\ FeasibleKept
  BY <1>1 DEF SearchInv, SearchType
<1>4. /\ \A x \in Range(population) : x.genome \in Present
      /\ Present \in SUBSET Genomes
  BY <1>3, PopulationIs
<1>5. \A x \in front : x \in Range(population) /\ x.rank = 0 /\ FeasibleGenome(x.genome)
  BY DEF FrontOf
<1>6. front # {} <=> \E g \in evaluated : FeasibleGenome(g)
  <2>1. ASSUME NEW x \in front PROVE \E g \in evaluated : FeasibleGenome(g)
    BY <1>3, <1>4, <1>5
  <2>2. ASSUME NEW g \in evaluated, FeasibleGenome(g) PROVE front # {}
    <3>1. PICK m \in ObjectiveNames : TRUE BY OptimizerAssumption
    <3>2. Range(offspring) = {} BY <1>3 DEF Range
    <3>3. PICK h \in Present : FeasibleGenome(h) BY <1>3, <2>2, <3>2 DEF FeasibleKept
    <3>4. PICK k \in Present : FeasibleGenome(k) /\ Ranks[Present][k] = 0
      BY <1>4, <3>1, <3>3, ExtremeIsFirst
    <3>5. PICK x \in Range(population) : x.genome = k BY DEF Present
    <3>6. x.rank = 0 BY <1>3, <3>4, <3>5 DEF RanksAreCurrent
    <3> QED BY <3>4, <3>5, <3>6 DEF FrontOf
  <2> QED BY <2>1, <2>2
<1> HIDE DEF front
<1>7. chosen # {} <=> front # {}
  <2>1. Cardinality({}) = 0 BY FS_EmptySet
  <2> QED BY <1>2, <2>1
<1>8. ASSUME NEW x \in chosen, NEW y \in Range(population)
      PROVE  ~DominatesGenome(y.genome, x.genome)
  <2>1. x \in Range(population) /\ x.rank = 0 BY <1>2, <1>5
  <2>2. Ranks[Present][x.genome] = 0 BY <1>3, <2>1 DEF RanksAreCurrent
  <2> QED BY <1>4, <2>1, <2>2, RankFactsOfGenomes
<1>9. AnswersAreSound'
  <2> SUFFICES ASSUME NEW r \in answer'
               PROVE  /\ r.recommended # {} <=> \E g \in r.searched : FeasibleGenome(g)
                      /\ \A x \in r.recommended, y \in r.candidates :
                           ~DominatesGenome(y.genome, x.genome)
    BY DEF AnswersAreSound
  <2>1. /\ r.recommended = chosen /\ r.searched = evaluated
        /\ r.candidates = Range(population)
    BY <1>2
  <2> QED BY <1>6, <1>7, <1>8, <2>1
<1>10. OverrunIsBounded'
  <2>1. /\ IsFiniteSet(evaluated) /\ Cardinality(evaluated) \in Nat
        /\ IsFiniteSet(probes) /\ Cardinality(probes) \in Nat
        /\ Cardinality(evaluated \cap probes) \in Nat
    <3>1. evaluated \cap probes \in SUBSET Genomes OBVIOUS
    <3> QED BY <1>3, <3>1, GenomesAreFinite
  <2>2. Cardinality(evaluated') =
          Cardinality(evaluated) + Cardinality(probes) - Cardinality(evaluated \cap probes)
    BY <1>1, <2>1, FS_Union
  <2>3. Cardinality(evaluated) <= SoftBudget
    <3>1. Cardinality(evaluated) <= SoftBudget + 0
      <4>1. search # "answered" BY <1>1
      <4> QED BY <1>3, <4>1 DEF OverrunIsBounded, SoftBudget
    <3> QED BY <3>1, SoftBudgetIs
  <2>4. Cardinality(probes) <= 2 * LeverCount
    <3>1. 0 <= 2 * LeverCount BY SoftBudgetIs
    <3> QED BY <1>1, <2>1, <3>1, SoftBudgetIs
  <2>5. Cardinality(evaluated') <= SoftBudget + 2 * LeverCount
    BY <2>1, <2>2, <2>3, <2>4, SoftBudgetIs
  <2> QED BY <1>1, <2>5 DEF OverrunIsBounded, SoftBudget
<1>11. SearchType' BY <1>1, <1>3 DEF SearchType
<1>12. Present' = Present /\ Range(offspring') = Range(offspring) BY <1>1 DEF Present
<1>13. (Present \cup Range(offspring) \subseteq evaluated)' BY <1>1, <1>3, <1>12
<1>14. RanksAreCurrent' BY <1>1, <1>3, <1>12 DEF RanksAreCurrent
<1>15. GenerationStartsInBudget' BY <1>1 DEF GenerationStartsInBudget
<1> QED BY <1>1, <1>3, <1>9, <1>10, <1>11, <1>13, <1>14, <1>15 DEF SearchInv

\* A step that leaves the search alone keeps the invariant.
LEMMA SearchStutters ==
  ASSUME SearchInv, UNCHANGED optimizerVars
  PROVE  SearchInv'
BY DEF SearchInv, SearchType, ExtremesKept, FeasibleKept, RanksAreCurrent, OverrunIsBounded,
       GenerationStartsInBudget, BudgetSpent, AnswersAreSound, Present, optimizerVars

\* The invariant of the policy search, for every configuration.
THEOREM SearchInvariant == OptimizerSpec => []SearchInv
<1>1. OptimizerInit => SearchInv BY InitHoldsInvariant
<1>2. SearchInv /\ [OptimizerNext]_optimizerVars => SearchInv'
  <2> SUFFICES ASSUME SearchInv, [OptimizerNext]_optimizerVars PROVE SearchInv' OBVIOUS
  <2>1. ASSUME NEW pair \in Children, Reproduce(pair[1], pair[2]) PROVE SearchInv'
    <3>1. pair[1] \in Genomes /\ pair[2] \in Genomes BY OptimizerAssumption
    <3> QED BY <2>1, <3>1, ReproduceKeepsInvariant
  <2>2. CASE Select BY <2>2, SelectKeepsInvariant
  <2>3. ASSUME NEW probes \in SUBSET Genomes, BuildResult(probes) PROVE SearchInv'
    BY <2>3, BuildKeepsInvariant
  <2>4. CASE UNCHANGED optimizerVars BY <2>4, SearchStutters
  <2> QED BY <2>1, <2>2, <2>3, <2>4 DEF OptimizerNext
<1> QED BY <1>1, <1>2, PTL DEF OptimizerSpec

\* For every configuration the search overruns its budget by no more than a pair and the
\* probes, recommends a policy exactly if it evaluated a feasible one, and has no candidate
\* that dominates its recommendation.
THEOREM SearchAnswersWithinBudget == OptimizerSpec => [](OverrunIsBounded /\ AnswersAreSound)
<1>1. SearchInv => OverrunIsBounded /\ AnswersAreSound BY DEF SearchInv
<1> QED BY <1>1, SearchInvariant, PTL

\* Where a population has room for the extremes, the search is sound: besides the above, no
\* extreme feasible policy is lost.
THEOREM SearchAlwaysSound == RoomForExtremes => (OptimizerSpec => []SearchIsSound)
<1> SUFFICES ASSUME RoomForExtremes PROVE OptimizerSpec => []SearchIsSound OBVIOUS
<1>1. SearchInv => SearchIsSound
  <2> SUFFICES ASSUME SearchInv PROVE SearchIsSound OBVIOUS
  <2>1. NothingGoodIsLost BY NothingIsLost
  <2>2. OverrunIsBounded /\ AnswersAreSound BY DEF SearchInv
  <2> QED BY <2>1, <2>2 DEF SearchIsSound, AnswersAreSound
<1>2. OptimizerSpec => []SearchInv BY SearchInvariant
<1> QED BY <1>1, <1>2, PTL
=============================================================================
