---------------------------- MODULE AdaptivePolicy ----------------------------
(***************************************************************************)
(* The controller of analytics/adaptive.py: rules evaluated over a stream  *)
(* of observations, with a trailing window, persistence, cooldown and a    *)
(* bound on activations; and the policies its validation admits.           *)
(* The position of an observation stands for its period.                   *)
(***************************************************************************)
EXTENDS Integers, Sequences, FiniteSets, Functions

CONSTANTS
  CandidatePolicies,  \* sequences of rules [metric, operator, threshold, window,
                      \* persistence, cooldown, limit, priority, action]
  Observations,       \* values of a period: functions from metrics to integers
  MaxPeriods             \* bound of the model on observed periods

\* What the model of a rule validates; an observation has a value for its metric.
ValidRule(rule) ==
  /\ rule.threshold \in Int /\ {rule.cooldown, rule.priority} \subseteq Nat
  /\ {rule.window, rule.persistence, rule.limit} \subseteq Nat \ {0}
  /\ rule.operator \in {"gt", "gte", "lt", "lte"}
  /\ \A values \in Observations : values[rule.metric] \in Int

ASSUME AdaptiveAssumption ==
  \A rules \in CandidatePolicies :
    /\ DOMAIN rules \subseteq Nat /\ IsFiniteSet(DOMAIN rules)
    /\ \A i \in DOMAIN rules : ValidRule(rules[i])

VARIABLES
  policy,         \* the validated policy
  stream,         \* the observations so far
  consecutive,    \* rule -> windows in a row its condition held
  last_fired,     \* rule -> position of its last activation, 0 for None
  activations     \* the audit trail: sequence of [rule, position]

adaptiveVars == <<policy, stream, consecutive, last_fired, activations>>

Opposing ==
  {{"increase_commercial_investment", "reduce_commercial_investment"},
   {"raise_prices", "cut_prices"}}
Increasing(rule) == rule.operator \in {"gt", "gte"}
-----------------------------------------------------------------------------
(* Wrong variants, each named for the bug it plants, for mutation runs.    *)

TouchingRegionsAreApart(a, b) ==
  \/ Increasing(a) = Increasing(b)
  \/ IF Increasing(a) THEN a.threshold < b.threshold ELSE b.threshold < a.threshold
CooldownOneShort(previous, rule, position) ==
  previous = 0 \/ position - previous >= rule.cooldown
-----------------------------------------------------------------------------
\* _intervals_overlap, of two rules on one metric.
RegionsOverlap(a, b) ==
  \/ Increasing(a) = Increasing(b)
  \/ IF Increasing(a) THEN a.threshold <= b.threshold ELSE b.threshold <= a.threshold

\* validate_policy
Admitted(rules) ==
  \A i, j \in DOMAIN rules :
    {rules[i].action, rules[j].action} \in Opposing =>
      rules[i].metric # rules[j].metric \/ ~RegionsOverlap(rules[i], rules[j])

\* _window_mean and _condition_holds: the mean of the last window values of the
\* stream against the threshold, both times the length of the window.
Holds(rule, observed) ==
  LET last == Len(observed)
      total == SumFunction([k \in last - rule.window + 1 .. last |->
                              observed[k][rule.metric]])
      bound == rule.threshold * rule.window
  IN /\ last >= rule.window
     /\ CASE rule.operator = "gt" -> total > bound
          [] rule.operator = "gte" -> total >= bound
          [] rule.operator = "lt" -> total < bound
          [] rule.operator = "lte" -> total <= bound

Fired(i) == Cardinality({k \in DOMAIN activations : activations[k].rule = i})

CooledDown(previous, rule, position) ==
  previous = 0 \/ position - previous > rule.cooldown

\* _may_fire, with the count of this period
MayFire(i, position) ==
  /\ consecutive'[i] >= policy[i].persistence
  /\ Fired(i) < policy[i].limit
  /\ CooledDown(last_fired[i], policy[i], position)
-----------------------------------------------------------------------------
AdaptiveInit ==
  /\ policy \in {rules \in CandidatePolicies : Admitted(rules)}
  /\ stream = <<>> /\ activations = <<>>
  /\ consecutive = [i \in DOMAIN policy |-> 0]
  /\ last_fired = [i \in DOMAIN policy |-> 0]

\* One turn of the loop of evaluate_adaptive_policy.  Activations of a period
\* are recorded by falling priority, then by rule.
Observe(values) ==
  LET position == Len(stream) + 1
      firing == {i \in DOMAIN policy : MayFire(i, position)}
      Ahead(i, j) == \/ policy[i].priority > policy[j].priority
                     \/ policy[i].priority = policy[j].priority /\ i < j
      order == [k \in 1..Cardinality(firing) |->
                  CHOOSE i \in firing : Cardinality({j \in firing : Ahead(j, i)}) = k - 1]
  IN /\ Len(stream) < MaxPeriods
     /\ stream' = Append(stream, values)
     /\ consecutive' = [i \in DOMAIN policy |->
                          IF Holds(policy[i], stream') THEN consecutive[i] + 1 ELSE 0]
     /\ activations' = activations \o [k \in DOMAIN order |->
                                         [rule |-> order[k], position |-> position]]
     /\ last_fired' = [i \in DOMAIN policy |->
                         IF i \in firing THEN position ELSE last_fired[i]]
     /\ UNCHANGED policy

AdaptiveNext == \E values \in Observations : Observe(values)

AdaptiveSpec == AdaptiveInit /\ [][AdaptiveNext]_adaptiveVars
-----------------------------------------------------------------------------
At(i) == {activations[k].position : k \in {q \in DOMAIN activations : activations[q].rule = i}}

\* The trail against the stream alone, without the controller's counters: a
\* rule has fired in a period exactly if its condition held in that period and
\* in each of the persistence - 1 before it, it had activations left, and its
\* last one lies more than the cooldown back.  So no firing is missed, none is
\* early, and none is recorded twice.
ActivationsAreDue ==
  /\ \A i \in DOMAIN policy, p \in DOMAIN stream :
       LET rule == policy[i]
           earlier == {q \in At(i) : q < p}
       IN p \in At(i) <=>
            /\ \A q \in p - rule.persistence + 1 .. p :
                 q > 0 /\ Holds(rule, SubSeq(stream, 1, q))
            /\ Cardinality(earlier) < rule.limit
            /\ \A q \in earlier : q + rule.cooldown < p
  /\ \A i \in DOMAIN policy : Fired(i) = Cardinality(At(i))

\* Validation keeps contradictory rules out by comparing thresholds, the
\* controller compares window means: with windows of one length, two opposing
\* rules on a metric never fire in the same period.
OpposingRulesKeepApart ==
  \A i, j \in DOMAIN policy :
    /\ {policy[i].action, policy[j].action} \in Opposing
    /\ policy[i].metric = policy[j].metric
    /\ policy[i].window = policy[j].window
    => At(i) \cap At(j) = {}
=============================================================================
