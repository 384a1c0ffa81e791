SPECIFICATION ProgramSpec
CONSTANTS
  Jobs = {0, 1, 2}
  NoJob = NoJob
  Concurrency = 2
  Codes = {200, 404}
  Forms = {"plain", "encoded"}
  Failures = {"prepare", "do"}
  KILOBYTE = 24
  Lines <- MCLines
  Counts = {0, 1, 5}
  Second = 1
  MaxInt32 = 5000
  MaxDuration = 5000
  ByteCounts <- MCByteCounts
  Bodies <- MCBodies
  SampleLimit = 4
  Size = 3
  S3Failures = {"open", "transfer"}
INVARIANTS OptionsUsed HeadersAsGiven BodyAsGiven LoadAsGiven AverageIsSize SavedByFirst SizesClose SamplesAreHeads PoolBalanced SampleIntactAtFirst ReportComplete
PROPERTIES SavedStays
