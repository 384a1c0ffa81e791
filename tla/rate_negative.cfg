SPECIFICATION FairSpec
CONSTANTS
  Number = 2
  Concurrency = 2
  RateLimit = 0
  LiveUI = TRUE
  MaxConcurrency = 3
  DefaultConcurrency = 2
  MaxInt32 = 3
  StepDivisor = 2
  KeyPressed = {}
  LimiterFails = FALSE
  SlowResponses = FALSE
  Keys = {"<Down>"}
  MaxKeys = 1
  MaxInterrupts = 1
  MaxRate = 1
PROPERTIES StopIsHonoured
CHECK_DEADLOCK FALSE
