SPECIFICATION Spec
CONSTANTS
  Number = 2
  Concurrency = 2
  RateLimit = 0
  LiveUI = TRUE
  MaxConcurrency = 3
  DefaultConcurrency = 2
  MaxInt32 = 3
  StepDivisor = 2
  KeyPressed = {}
  LimiterFails = FALSE
  SlowResponses = FALSE
  Keys = {"<Left>"}
  MaxKeys = 1
  MaxInterrupts = 0
  MaxRate = 0
INVARIANTS ReportAfterJobs
CHECK_DEADLOCK FALSE
