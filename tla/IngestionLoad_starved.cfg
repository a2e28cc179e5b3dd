\* One worker that dies once, and uploads that never stop.
CONSTANTS
  Jobs = {j1, j2}
  Workers = {w1}
  NoJob = NoJob
  Kinds = {"clean"}
  ScanInjection = TRUE
  MaxAttempts = 1
  MaxCrashes = 1
  MaxDelays = 0
SPECIFICATION LoadSpec
PROPERTY
  StaleJobsRecovered
