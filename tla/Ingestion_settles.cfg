\* Two workers on one job of any kind: progress.
CONSTANTS
  Jobs = {j1}
  Workers = {w1, w2}
  NoJob = NoJob
  Kinds = {"corrupt", "malware", "unparsable", "misplaced", "poisoned", "flagged", "clean"}
  ScanInjection = TRUE
  MaxAttempts = 2
  MaxCrashes = 1
  MaxDelays = 1
SPECIFICATION FairSpec
PROPERTY
  EventuallySettled
