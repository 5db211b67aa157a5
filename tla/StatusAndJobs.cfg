\* Late calls, a sweep, an administrator and dependent rows on one node; two job
\* workers with overlapping polls, a crash, leases that lapse.
CONSTANTS
  n1 = n1
  c1 = c1
  c2 = c2
  w1 = w1
  a1 = a1
  NoCall = NoCall
  Nodes = {n1}
  Calls = {c1, c2}
  Workers = {w1}
  Admins = {a1}
  Kinds = {"adjust"}
  InitialStatuses = {"Active"}
  BatchSize = 1
  Poison = {}
  TimelyCalls = FALSE
  j1 = j1
  p1 = p1
  p2 = p2
  NoWorker = NoWorker
  Jobs = {j1}
  JobWorkers = {p1, p2}
  maxConcurrency = 1
  maxRetries = 0
  Polls = 2
  MaxCrashes = 1
SPECIFICATION StatusAndJobsSpec
SYMMETRY Interchangeable
INVARIANTS TypeOK SingleClaim PendingHasOwner SlotsCounted OneRunner
PROPERTIES ConfirmedStatusOnly SettledIsFinal
CHECK_DEADLOCK FALSE
