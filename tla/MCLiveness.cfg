SPECIFICATION LivenessSpec
CONSTANTS
  Workers = {w1, w2}
  NoWorker = NoWorker
  MaxAttempts = 3
  Lease = 2
  RetryDelay = 1
  Jobs = {1}
  Stages <- OneStage
  HeartbeatEvery = 1
  Lag = 1
  Faulty = {w1}
  SkipLocked = FALSE
  ClockMode = "lazy"
  MaxClock = 9
  Clients = {c1}
  Starters = {s1, s2}
  Keys = {k1}
  NoKey = NoKey
  Payloads = {p1}
  Blank = Blank
  Experiments = {1, 2}
  Legacy = {1, 2}
  NewJobs = {j1, j2, j3}
  Unlinked = Unlinked
  Nobody = Nobody
PROPERTIES
  EveryJobEnds
  EveryExperimentGetsAJob
CHECK_DEADLOCK FALSE
