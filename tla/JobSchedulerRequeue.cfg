\* A failed job stays failed.
CONSTANTS
  j1 = j1
  w1 = w1
  NoWorker = NoWorker
  Jobs = {j1}
  JobWorkers = {w1}
  maxConcurrency = 1
  maxRetries = 3
  Polls = 1
  MaxCrashes = 0
SPECIFICATION JobSpec
SYMMETRY JobSymmetry
INVARIANT FailedIsRequeued
CHECK_DEADLOCK FALSE
