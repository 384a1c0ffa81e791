SPECIFICATION FairSpec
CONSTANTS
  Number = 2
  Concurrency = 2
  RateLimit = 1
  LiveUI = TRUE
  MaxConcurrency = 3
  DefaultConcurrency = 2
  MaxInt32 = 3
  StepDivisor = 2
  KeyPressed = {"<Left>"}
  LimiterFails = FALSE
  SlowResponses = FALSE
  Keys = {"<Up>", "<Down>", "<Left>", "q"}
  MaxKeys = 1
  MaxInterrupts = 1
  MaxRate = 0
INVARIANTS LimiterInstalled ForcedExit
PROPERTIES StopIsHonoured PollerReturns InterruptStops
