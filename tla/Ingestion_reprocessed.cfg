\* Two workers, nothing crashes, one job outlives the stale cutoff.
CONSTANTS
  Jobs = {j1}
  Workers = {w1, w2}
  NoJob = NoJob
  Kinds = {"clean"}
  ScanInjection = TRUE
  MaxAttempts = 2
  MaxCrashes = 0
  MaxDelays = 1
SPECIFICATION Spec
PROPERTY
  TerminalForever
