\* The job scheduler, the ceremony and the sweep, one at a time, with fairness.
CONSTANTS
  j1 = j1
  w1 = w1
  w2 = w2
  NoWorker = NoWorker
  Jobs = {j1}
  JobWorkers = {w1, w2}
  maxConcurrency = 1
  maxRetries = 1
  Polls = 1
  MaxCrashes = 1
  v1 = v1
  v2 = v2
  k1 = k1
  k2 = k2
  k3 = k3
  r1 = r1
  r2 = r2
  i1 = i1
  NoKey = NoKey
  NoOne = NoOne
  NoRotation = NoRotation
  Validators = {v1, v2}
  PublicKeys = {k1, k2, k3}
  RotationIds = {r1, r2}
  Initiators = {i1}
  OLD_KEY_RETIREMENT_SLOTS = 1
  ROTATION_GRACE_EPOCHS = 1
  SlotsPerEpoch = 1
  maxCompletedCommitments = 1
  MaxSlot = 0
  n1 = n1
  n2 = n2
  c1 = c1
  c2 = c2
  s1 = s1
  NoCall = NoCall
  Nodes = {n1, n2}
  Calls = {c1, c2}
  Workers = {s1}
  Admins = {}
  Kinds = {}
  InitialStatuses = {"Provisioned"}
  BatchSize = 2
  Poison = {n1}
  TimelyCalls = FALSE
SPECIFICATION ProgressSpec
PROPERTIES WorkSettles PendingIsResolved
CHECK_DEADLOCK FALSE
