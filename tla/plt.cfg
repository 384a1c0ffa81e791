SPECIFICATION PltFairSpec
CONSTANTS
  Number = 2
  Concurrency = 2
  RateLimit = 0
  LiveUI = TRUE
  MaxConcurrency = 2
  DefaultConcurrency = 2
  MaxInt32 = 3
  StepDivisor = 20
  KeyPressed = {}
  LimiterFails = FALSE
  SlowResponses = FALSE
  Keys = {}
  MaxKeys = 0
  MaxInterrupts = 0
  MaxRate = 0
  MaxIdleConns = 1
  Codes = {200}
  CodeLimit = 600
  IgnoreResponseBody = TRUE
  NoKeepalive = FALSE
  Envoy = FALSE
  Failures = {"trip"}
  NoJob = NoJob
  DrawingLoop = DrawingLoop
  MainLoop = MainLoop
INVARIANTS ReportsAgree
PROPERTIES ImplementsRunner
