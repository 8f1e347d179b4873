SPECIFICATION AnalyticsSpec
CONSTANTS
  Products = {1, 2}
  Segments = {1}
  Materials = {"steel"}
  Resources = {"machine"}
  Product <- MCProduct
  Segment <- MCSegment
  Material <- MCMaterial
  Resource <- MCResource
  Policy <- MCPolicy
  WarmupDays = 1
  EvaluationDays = 5
  RunoffDays = 2
  Shocks <- MCShocks
  Baselines <- MCBaselines
  Candidates <- MCCandidates
  Materiality <- MCMateriality
  Guardrail <- MCGuardrail
  MinimumReplications = 3
  MaxPortfolio = 3
  Evaluation <- MCEvaluation
  InitialPopulations <- MCPopulations
  Children <- MCChildren
  PopulationSize = 4
  MaxGenerations = 2
  MaxEvaluations = 5
  LeverCount = 1
  Patience = 1
  Tolerance = 0
  CandidatePolicies <- MCPolicies
  Observations <- MCObservations
  MaxPeriods = 6
INVARIANT BreachIntervalIsOfItsProbability
CHECK_DEADLOCK FALSE
