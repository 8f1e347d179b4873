SPECIFICATION ServicesSpec
CONSTANTS
  Workers = {w1, w2}
  NoWorker = NoWorker
  MaxAttempts = 2
  Lease = 5
  RetryDelay = 1
  Jobs = {1}
  Stages <- TwoStages
  HeartbeatEvery = 1
  Lag = 1
  Faulty = {}
  SkipLocked = FALSE
  ClockMode = "timely"
  MaxClock = 7
  Threads = {a, b}
  Kids = {"k1", "k2"}
  FirstKids = {"k1"}
  Ttl = 1
  Slowest = 1
  MaxJwksTime = 4
  Tenants = {1, 2, 3}
  Writers = {h1, h2, h3}
  Experiments = {1, 2, 3}
  PoolThreads = {p1}
  QueueSize = 1
  Requests = {r1, r2, r3}
  MaxBuilds = 3
  Predictions <- MCPredictions
  Batches <- MCBatches
  CooldownDays = 1
  MaxDays = 4
  MaxReports = 3
  Seeds = {"s1"}
  Drafts = {"a", "b"}
INVARIANTS
  PunctualWorkerKeepsJob
  WithdrawnKeyIsRefused
  TenantServedInTurn
  CommittedArtifactSurvives
  SlotsAccounted
  NoQueuedExperimentForgotten
  AlarmsAreHeard
  RunsArrive
PROPERTIES
  SnapshotSettles
CHECK_DEADLOCK FALSE
