\* One worker crashes once around the dead-letter push.
CONSTANTS
  Jobs = {j1}
  Workers = {w1}
  NoJob = NoJob
  Kinds = {"corrupt"}
  ScanInjection = TRUE
  MaxAttempts = 2
  MaxCrashes = 1
  MaxDelays = 1
SPECIFICATION FairSpec
PROPERTY
  EventuallyDeadLettered
