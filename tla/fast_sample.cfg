SPECIFICATION Spec
CONSTANTS
  Jobs = {1, 2}
  NoJob = NoJob
  Concurrency = 2
  Codes = {200, 404}
  Forms = {"plain"}
  Failures = {}
INVARIANTS SampleIntact
