SPECIFICATION FairSpec
CONSTANTS
  Concurrency = 3
  requestsThreshold = 3
  ErrorRatio = 3
  MaxRequests = 2
  MaxCount = 8
INVARIANTS HalfOpenDecides
PROPERTIES ClosesWhenAllSucceeded OpensAfterOwnDelay Recovers
