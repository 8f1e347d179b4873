SPECIFICATION HandlersSpec
CONSTANTS
  Workers = {w1, w2}
  NoWorker = NoWorker
  MaxAttempts = 3
  Lease = 2
  RetryDelay = 0
  Jobs = {1}
  Stages <- ThreeStages
  HeartbeatEvery = 1
  Lag = 0
  Faulty = {w1, w2}
  SkipLocked = FALSE
  ClockMode = "free"
  MaxClock = 2
SYMMETRY WorkerSymmetry
INVARIANTS
  JobLeadsToItsResult
PROPERTIES
  ExperimentOutcomeIsFinal
  NoSecondSimulation
  OptimizationIsIdempotent
CHECK_DEADLOCK FALSE
