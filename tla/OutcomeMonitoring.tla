-------------------------- MODULE OutcomeMonitoring --------------------------
(***************************************************************************)
(* Monitoring of a decision after it was implemented: analytics/           *)
(* monitoring.py and the store of its reports.                             *)
(*                                                                         *)
(* Values are integers.  A standardized deviation is the fraction of the   *)
(* adverse deviation over the scale; it is compared with 1.5 and 3 with    *)
(* both sides brought to integers.  The caller of reconcile_alerts keeps   *)
(* the alerts it was given as the active ones of its next call.            *)
(***************************************************************************)
EXTENDS Integers, Sequences, FiniteSets, FiniteSetsExt, Functions

CONSTANTS
  Predictions,     \* KPI -> [mean, lower, upper, direction, hard, bound]
  Batches,         \* submissions: KPI -> sequence of [as_of, value]
  CooldownDays,
  MaxDays,         \* bounds of the model on days and reports
  MaxReports

\* KPIs of the decision are predicted; a batch holds a record of every KPI it names.
ASSUME MonitoringAssumption ==
  /\ CooldownDays \in Nat
  /\ \A k \in DOMAIN Predictions :
       /\ {Predictions[k].mean, Predictions[k].lower, Predictions[k].upper,
           Predictions[k].bound} \subseteq Int
       /\ Predictions[k].direction \in {"higher", "lower"}
       /\ Predictions[k].hard \in BOOLEAN
  /\ \A batch \in Batches :
       /\ DOMAIN batch \subseteq DOMAIN Predictions
       /\ \A k \in DOMAIN batch :
            batch[k] \in Seq([as_of : Nat, value : Int]) /\ batch[k] # <<>>

VARIABLES
  today,
  reports,     \* saved reports, oldest first
  active_alerts   \* alerts emitted so far: [kpi, level, day]

monitoringVars == <<today, reports, active_alerts>>

Decision == "decision"     \* the metric_name None of a recalibration alert

Ladder == <<"within_expectation", "early_warning", "material_deviation",
            "decision_review_required">>
Rung(level) == CHOOSE n \in DOMAIN Ladder : Ladder[n] = level

\* ALERT_SEVERITY, as _severity_rank orders it
Severity(level) ==
  CASE level = "within_expectation" -> 0
    [] level \in {"early_warning", "material_deviation", "recalibration_required"} -> 1
    [] level = "decision_review_required" -> 2

Adverse(p, value) == IF p.direction = "higher" THEN p.mean - value ELSE value - p.mean
Within(p, value) == p.lower <= value /\ value <= p.upper
-----------------------------------------------------------------------------
(* Wrong variants, each named for the bug it plants, for mutation runs.    *)

FirstAlertSuppresses(alert) ==
  {a \in active_alerts : /\ a.kpi = alert.kpi /\ a.level = alert.level
                  /\ \A b \in active_alerts :
                       b.kpi = alert.kpi /\ b.level = alert.level => a.day <= b.day}
-----------------------------------------------------------------------------
\* The scale of _evaluate_kpi as a fraction: the half width of the interval, or
\* a tenth of the mean, or 1.
Scale(p) ==
  IF p.upper > p.lower THEN [num |-> p.upper - p.lower, den |-> 2]
  ELSE IF p.mean # 0 THEN [num |-> Max({p.mean, -p.mean}), den |-> 10]
  ELSE [num |-> 1, den |-> 1]

HardConstraintOk(p, value) ==
  p.hard => IF p.direction = "higher" THEN value >= p.bound ELSE value <= p.bound

\* _classify
Classify(p, value) ==
  LET scaled == Adverse(p, value) * Scale(p).den
  IN IF ~HardConstraintOk(p, value) THEN "decision_review_required"
     ELSE IF Within(p, value) THEN "within_expectation"
     ELSE IF scaled <= 0 THEN "early_warning"
     ELSE IF scaled >= 3 * Scale(p).num THEN "decision_review_required"
     ELSE IF 2 * scaled >= 3 * Scale(p).num THEN "material_deviation"
     ELSE "early_warning"

\* The record _evaluate_kpi reads: the last of the latest as_of.
Realized(records) ==
  LET latest == {i \in DOMAIN records : \A j \in DOMAIN records :
                                          records[j].as_of <= records[i].as_of}
  IN records[Max(latest)].value

\* _assess_drift: result drift, the mean over the KPIs of the adverse standardized
\* deviations over 3, reaches one half; or parameter or data drift does.
RecalibrationRequired(realized, drifted) ==
  LET kpis == DOMAIN realized
      num == [k \in kpis |-> Scale(Predictions[k]).num]
      Product(s) == FoldFunctionOnSet(LAMBDA a, b : a * b, 1, num, s)
      Share(k) == Max({0, Adverse(Predictions[k], realized[k])})
                    * Scale(Predictions[k]).den * Product(kpis \ {k})
  IN drifted \/ (kpis # {} /\ 2 * MapThenSumSet(Share, kpis)
                                >= 3 * Cardinality(kpis) * Product(kpis))

\* _recommended_level
Recommended(levels) ==
  LET order == <<"decision_review_required", "recalibration_required",
                 "material_deviation", "early_warning", "within_expectation">>
      present == {n \in DOMAIN order : order[n] \in levels}
  IN IF present = {} THEN "within_expectation" ELSE order[Min(present)]

\* monitor_outcomes
Report(batch, drifted) ==
  LET realized == [k \in DOMAIN batch |-> Realized(batch[k])]
      level == [k \in DOMAIN batch |-> Classify(Predictions[k], realized[k])]
      recalibrate == RecalibrationRequired(realized, drifted)
      loud == {k \in DOMAIN batch : level[k] # "within_expectation"}
  IN [realized |-> realized,
      alerts |-> {[kpi |-> k, level |-> level[k], day |-> today] : k \in loud}
                   \cup {a \in {[kpi |-> Decision, level |-> "recalibration_required",
                                 day |-> today]} : recalibrate},
      recommended |-> Recommended(Range(level)
                        \cup {l \in {"recalibration_required"} : recalibrate})]

\* reconcile_alerts: the latest active alert of the key of an incoming one.
LatestLike(alert) ==
  {a \in active_alerts : /\ a.kpi = alert.kpi /\ a.level = alert.level
                  /\ \A b \in active_alerts :
                       b.kpi = alert.kpi /\ b.level = alert.level => b.day <= a.day}
Emitted(alerts) ==
  {alert \in alerts :
     \A previous \in LatestLike(alert) : alert.day - previous.day > CooldownDays}
-----------------------------------------------------------------------------
MonitoringInit == today = 1 /\ reports = <<>> /\ active_alerts = {}

\* MonitoringService.record_outcomes, then reconcile_alerts.
RecordOutcomes(batch, drifted) ==
  \E report \in {Report(batch, drifted)} :
    /\ Len(reports) < MaxReports
    /\ reports' = Append(reports, report)
    /\ active_alerts' = active_alerts \cup Emitted(report.alerts)
    /\ UNCHANGED today

NextDay ==
  /\ today < MaxDays
  /\ today' = today + 1
  /\ UNCHANGED <<reports, active_alerts>>

MonitoringNext ==
  \/ \E batch \in Batches, drifted \in BOOLEAN : RecordOutcomes(batch, drifted)
  \/ NextDay

MonitoringSpec == MonitoringInit /\ [][MonitoringNext]_monitoringVars
-----------------------------------------------------------------------------
SameKey(a, b) == a.kpi = b.kpi /\ a.level = b.level

\* Suppression keeps the loop quiet and never silent: two emitted alerts of one
\* key are more than the cooldown apart, and for every alert a report raised,
\* one of its key was emitted that day or within the cooldown before it.
AlertsAreSpaced ==
  /\ \A a, b \in active_alerts : a.day < b.day /\ SameKey(a, b) => b.day - a.day > CooldownDays
  /\ \A i \in DOMAIN reports : \A alert \in reports[i].alerts :
       \E a \in active_alerts : SameKey(a, alert) /\ alert.day - a.day \in 0..CooldownDays

\* The level a report recommends and the severities of its alerts, which the
\* code orders apart, agree: it is the level of one of the gravest alerts.
GravestLevelIsRecommended ==
  \A i \in DOMAIN reports :
    LET r == reports[i]
    IN IF r.alerts = {} THEN r.recommended = "within_expectation"
       ELSE \E a \in r.alerts :
              a.level = r.recommended /\ \A b \in r.alerts : Severity(b.level) <= Severity(a.level)

\* Where the expected value lies in its interval, an outcome further on the
\* adverse side never stands on a lower rung, whichever report it is in.
LadderIsMonotone ==
  \A i, j \in DOMAIN reports :
    \A k \in DOMAIN reports[i].realized \cap DOMAIN reports[j].realized :
      LET p == Predictions[k]
          v == reports[i].realized[k]
          w == reports[j].realized[k]
      IN Within(p, p.mean) /\ 0 <= Adverse(p, v) /\ Adverse(p, v) <= Adverse(p, w)
           => Rung(Classify(p, v)) <= Rung(Classify(p, w))

\* What monitoring owes the owner of a decision.
AlarmsAreHeard == AlertsAreSpaced /\ GravestLevelIsRecommended /\ LadderIsMonotone
=============================================================================
