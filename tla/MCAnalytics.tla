----------------------------- MODULE MCAnalytics -----------------------------
(* The models of what the program computes, one instance of each for TLC:   *)
(* the simulated days of a company, the way from replications to a          *)
(* recommendation, the policy search and the adaptive controller.  They     *)
(* share no state; "part" picks the one that runs, the others stand still.  *)
EXTENDS DailyEngine, EvidenceGate, Optimizer, AdaptivePolicy, TLC

VARIABLE part

(* A small company: two products that share a machine and a material.       *)
MCProduct ==
  << [opening |-> 1, lead |-> 1, baseline |-> <<1>>, minutes |-> [r \in {"machine"} |-> 2],
      usage |-> [m \in {"steel"} |-> 1], cost |-> 3, price |-> <<6>>],
     [opening |-> 0, lead |-> 2, baseline |-> <<1>>, minutes |-> [r \in {"machine"} |-> 1],
      usage |-> [m \in {"steel"} |-> 2], cost |-> 2, price |-> <<8>>] >>

MCSegment == << [size |-> 2, promise |-> 1, grace |-> 0, terms |-> 2] >>

MCMaterial ==
  [m \in {"steel"} |->
     [opening |-> 5, reorder |-> 2, safety |-> 1, lead |-> 1, terms |-> 0,
      standard |-> 800, cost |-> 700]]

MCResource == [r \in {"machine"} |-> [overtime |-> 1, rate |-> 1]]

MCPolicy ==
  [cash |-> 12, floor |-> 3, target |-> 12, limit |-> 8, fixed |-> 31, interest |-> 10,
   commercial |-> 1, commitment |-> -1, capital |-> 2]

Day(a, b, yield, capacity, late, delay) ==
  [arrivals |-> (<<1, 1>> :> a @@ <<2, 1>> :> b), yield |-> <<yield, 100>>,
   capacity |-> [r \in {"machine"} |-> capacity], late |-> [m \in {"steel"} |-> late],
   delay |-> <<delay>>]

MCShocks ==
  {Day(1, 1, 100, 4, 0, 0), Day(2, 0, 50, 2, 2, -3), Day(0, 0, 50, 6, 0, 2)}

(* Experiments of two or three replications; the first one of a candidate   *)
(* may breach, be rescued, or differ from the others.                       *)
Replication(value, otif, rescue) ==
  [ebitda |-> value, free_cash_flow |-> value, closing_cash |-> 1, otif |-> otif,
   rescue_funding |-> rescue]
MCCandidates ==
  {[id |-> <<x, y, o, r, n, p>>, provenance |-> p, tapes |-> "tapes", baseline |-> "base",
    replications |-> [i \in 1..n |-> IF i = 1 THEN Replication(x, o, r)
                                     ELSE Replication(y, o, 0)]] :
     <<x, y, o, r, n, p>> \in
       {t \in {1, 3, 6} \X {1, 6} \X (0..2) \X (0..1) \X {2, 3} \X {"p1", "p2"} :
          (t[4] = 1 => t[3] = 1) /\ (t[5] = 2 \/ t[6] = "p2" => t[3] = 1)}}
MCBaselines ==
  {[id |-> "base", provenance |-> "p1", tapes |-> "tapes", baseline |-> "none",
    replications |-> [i \in 1..n |-> Replication(2, o, 0)]] :
     <<n, o>> \in {<<2, 1>>, <<3, 0>>, <<3, 1>>}}
MCMateriality == [m \in Metrics |-> IF m = "ebitda" THEN 1 ELSE 0]
MCGuardrail == [m \in Metrics |-> IF m \in {"otif", "closing_cash"} THEN 1 ELSE 0]

(* Seven genomes: a frontier of four, a dominated one, two infeasible ones. *)
Outcome(a, b, violation, score) ==
  [objectives |-> <<a, b>>, violation |-> violation, score |-> score]
MCEvaluation ==
  << Outcome(1, 4, 0, 5), Outcome(2, 2, 0, 6), Outcome(4, 1, 0, 5), Outcome(3, 3, 0, 4),
     Outcome(0, 0, 1, 9), Outcome(0, 5, 2, 9), Outcome(1, 3, 0, 7) >>
MCPopulations == {<<1, 2, 3, 4>>, <<4, 2, 4, 5>>, <<5, 6, 6, 5>>}
MCChildren == {<<2, 4>>, <<7, 3>>, <<5, 5>>, <<6, 1>>, <<1, 1>>, <<4, 7>>}

(* Two opposing rules on a metric and a third one on another metric.        *)
Rule(metric, operator, threshold, window, persistence, cooldown, limit, priority, action) ==
  [metric |-> metric, operator |-> operator, threshold |-> threshold, window |-> window,
   persistence |-> persistence, cooldown |-> cooldown, limit |-> limit,
   priority |-> priority, action |-> action]
MCPolicies ==
  {<<Rule("backlog_days", "gte", t, w, p, 1, 2, 1, "raise_prices"),
     Rule("backlog_days", "lte", u, v, 1, 0, 5, q, "cut_prices"),
     Rule("otif", "lt", 2, 1, 2, 2, 2, 1, "raise_prices")>> :
     t \in {1, 2}, u \in {0, 1}, w \in {1, 2}, v \in {1, 2}, p \in {1, 2}, q \in {0, 1}}
MCObservations == {[backlog_days |-> x, otif |-> 2 - x] : x \in 0..2}

Parts == {"engine", "gate", "optimizer", "adaptive"}

\* A search and a policy that do not run are empty.
NoSearch ==
  /\ evaluated = {} /\ population = <<>> /\ offspring = <<>> /\ history = <<>>
  /\ search = "running" /\ answer = {}
NoPolicy ==
  /\ policy = <<>> /\ stream = <<>> /\ activations = <<>>
  /\ consecutive = <<>> /\ last_fired = <<>>

AnalyticsInit ==
  /\ part \in Parts
  /\ EngineInit /\ GateInit
  /\ part # "engine" => allowRescue /\ shock = CHOOSE x \in MCShocks : TRUE
  /\ IF part = "optimizer" THEN OptimizerInit ELSE NoSearch
  /\ IF part = "adaptive" THEN AdaptiveInit ELSE NoPolicy

AnalyticsNext ==
  /\ UNCHANGED part
  /\ \/ part = "engine" /\ EngineNext /\ UNCHANGED <<gateVars, optimizerVars, adaptiveVars>>
     \/ part = "gate" /\ GateNext /\ UNCHANGED <<engineVars, optimizerVars, adaptiveVars>>
     \/ part = "optimizer" /\ OptimizerNext /\ UNCHANGED <<engineVars, gateVars, adaptiveVars>>
     \/ part = "adaptive" /\ AdaptiveNext /\ UNCHANGED <<engineVars, gateVars, optimizerVars>>

AnalyticsSpec ==
  AnalyticsInit /\ [][AnalyticsNext]_<<part, engineVars, gateVars, optimizerVars, adaptiveVars>>
=============================================================================
