SPECIFICATION Spec
CONSTANTS
  Workers = {w1, w2}
  NoWorker = NoWorker
  MaxAttempts = 2
  Lease = 2
  RetryDelay = 1
  Jobs = {1}
  Stages <- OneStage
  HeartbeatEvery = 1
  Lag = 1
  Faulty = {w1}
  SkipLocked = TRUE
  ClockMode = "free"
  MaxClock = 4
INVARIANTS
  TypeOK
  JobRowsSound
  AttemptsAreFenced
  ReliableWorkerSurvives
PROPERTIES
  ProgressMonotone
  LiveLeaseIsRespected
  LifecycleSpec
CHECK_DEADLOCK FALSE
