SPECIFICATION Spec
CONSTANTS
  Number = 3
  Concurrency = 4
  RateLimit = 0
  LiveUI = TRUE
  MaxConcurrency = 6
  DefaultConcurrency = 2
  MaxInt32 = 3
  StepDivisor = 2
  KeyPressed = {}
  LimiterFails = FALSE
  SlowResponses = FALSE
  Keys = {"<Left>", "<Right>"}
  MaxKeys = 2
  MaxInterrupts = 0
  MaxRate = 0
INVARIANTS SlotInv ConcurrencyBound ReleaseNeverBlocks SlotComesBack NeverPanics
PROPERTIES ReportMissesFew
CHECK_DEADLOCK FALSE
