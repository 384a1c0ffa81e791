SPECIFICATION Spec
CONSTANTS
  Jobs = {1, 2, 3}
  NoJob = NoJob
  Observers = {reader}
  AtOnce = 2
  Concurrency = 2
  DefaultConcurrency = 3
  MaxIdleConns = 1
  Codes = {200, 404, 600}
  CodeLimit = 600
  IgnoreResponseBody = FALSE
  NoKeepalive = FALSE
  Envoy = TRUE
  Failures = {"prepare", "connect", "trip", "sample", "body", "close"}
INVARIANTS TypeOK OneInside LockHolder ReportComplete
PROPERTIES SamplesStay
CHECK_DEADLOCK FALSE
