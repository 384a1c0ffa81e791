SPECIFICATION FairSpec
CONSTANTS
  Jobs = {1, 2}
  NoJob = NoJob
  Observers = {reader}
  AtOnce = 2
  Concurrency = 2
  DefaultConcurrency = 3
  MaxIdleConns = 1
  Codes = {200, 404}
  CodeLimit = 600
  IgnoreResponseBody = FALSE
  NoKeepalive = FALSE
  Envoy = FALSE
  Failures = {"sample"}
PROPERTIES CountsReturn
CHECK_DEADLOCK FALSE
