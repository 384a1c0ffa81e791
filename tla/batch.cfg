SPECIFICATION FairSpec
CONSTANTS
  Number = 3
  Concurrency = 2
  RateLimit = 1
  LiveUI = FALSE
  MaxConcurrency = 3
  DefaultConcurrency = 2
  MaxInt32 = 3
  StepDivisor = 20
  KeyPressed = {}
  LimiterFails = TRUE
  SlowResponses = TRUE
  Keys = {}
  MaxKeys = 0
  MaxInterrupts = 2
  MaxRate = 0
INVARIANTS ReportAfterJobs OutcomesAccounted FailureHasCause
PROPERTIES StopBound Termination ImplementsLoadRun
