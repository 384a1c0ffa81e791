SPECIFICATION FairSpec
CONSTANTS
  Number = 1
  Concurrency = 4
  RateLimit = 0
  LiveUI = FALSE
  MaxConcurrency = 3
  DefaultConcurrency = 2
  MaxInt32 = 3
  StepDivisor = 2
  KeyPressed = {}
  LimiterFails = FALSE
  SlowResponses = FALSE
  Keys = {}
  MaxKeys = 0
  MaxInterrupts = 0
  MaxRate = 0
PROPERTIES Termination
CHECK_DEADLOCK FALSE
