SPECIFICATION ExperimentSpec
CONSTANTS
  Workers = {w1, w2}
  NoWorker = NoWorker
  MaxAttempts = 2
  Lease = 2
  RetryDelay = 0
  Jobs = {1}
  Stages <- ThreeStages
  HeartbeatEvery = 1
  Lag = 0
  Faulty = {w1, w2}
  SkipLocked = FALSE
  ClockMode = "free"
  MaxClock = 3
PROPERTIES
  StaleWorkerCannotCommit
CHECK_DEADLOCK FALSE
