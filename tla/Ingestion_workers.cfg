\* Two workers, and now and then a third, on one job of any kind: safety under crashes and recoveries.
CONSTANTS
  Jobs = {j1}
  Workers = {w1, w2, w3}
  NoJob = NoJob
  Kinds = {"corrupt", "malware", "unparsable", "misplaced", "poisoned", "flagged", "clean"}
  ScanInjection = TRUE
  MaxAttempts = 2
  MaxCrashes = 1
  MaxDelays = 2
SPECIFICATION Spec
SYMMETRY WorkerSymmetry
CONSTRAINT LastJoinsEarly
INVARIANTS
  TypeOK
  OnlyScreenedContent
  ExclusiveUnlessRecovered
  HoldersAccountedFor
  AttemptsBounded
  RowsAgreeUnlessRecovered
PROPERTY
  TerminalUnlessRecovered
  ImplementsCorpus
