\* One worker and two jobs: refinement of JobLifecycle.
CONSTANTS
  Jobs = {1, 2}
  Workers = {w1}
  NoJob = NoJob
  Kinds = {"malware", "flagged"}
  ScanInjection = TRUE
  MaxAttempts = 2
  MaxCrashes = 2
  MaxDelays = 1
SPECIFICATION MixedFairSpec
PROPERTY
  ImplementsLifecycle
