SPECIFICATION Spec
CONSTANTS
  Runs = {k1, k2}
  Workers = {v1, v2}
  Requests = {r1}
  LastPost = 1
  MaxAttempts = 2
  MaxStalls = 1
  MaxLapses = 1
  NoRun = NoRun
  NoWorker = NoWorker
SYMMETRY Symmetry
CHECK_DEADLOCK FALSE
INVARIANTS
  OneSyncAtATime
  ProgressHasJob
PROPERTIES
  CompletedIsFinal
  DeletedWasUnlisted
  SnapshotIsExact
