\* Stores and background workers, one at a time.
CONSTANTS
  Messages = {1, 2, 3, 4}
  Operators = {o1, o2}
  DLQ_MAX_RETRIES = 1
  WAL_FLUSH_INTERVAL = 2
  flushThreshold = 2
  MaxCrashes = 1
  NoNonce = NoNonce
  Migrators = {g1, g2, g3}
  Files = {1, 2, 3}
  versionOf <- Versions
  hasDown = {3}
  tolerant = {3}
  reentrant = {1, 2}
  RewardCalls = {w1, w2}
  RewardNodes = {n1, n2, n3}
  Earned = 2
  NoRewardCall = NoRewardCall
  MaxWindows = 2
  Rotations = {r1, r2}
  ManualCalls = {p1}
  initialVersion = v0
  DataKeys = {k1, k2}
  Ticks = {t1, t2}
  Manual = {m1}
  DEFAULT_TTL_LEDGERS = 3
  RENEWAL_THRESHOLD_LEDGERS = 2
  minRenewalGap = 1
  retryDelays = 1
  MaxLedger = 5
  Evaluations = {e1, e2}
  Lags = {0, 3, 12}
  minConsumers = 1
  maxConsumers = 3
  initialConsumers = 2
  scaleUpThreshold = 10
  scaleDownThreshold = 1
  scaleUpBy = 2
  scaleDownBy = 1
  scaleCooldown = 2
  maxConsecutiveScaleDowns = 2
  lagWarning = 10
  lagCritical = 100
  partitionWarning = 5
  partitionCritical = 50
  MaxTime = 4
  ConfigKeys = {x1, x2}
  CriticalKeys = {x1}
  Captures = {b1, b2}
  MaxLiveChanges = 2
  Flags = {f1, f2}
  cooldownPeriod = 2
  MaxTicks = 4
  MaxChanges = 2
  Requests = {q1, q2, q3}
  Token = 2
  Second = 2
  burstCapacity = 3
  entryTtl = 3
  MaxNow = 5
  CacheCalls = {c1, c2, c3}
  CacheKeys = {k1, k2}
  maxEntries = 1
  DriftKeys = {d1, d2}
  committedKeys = {d1}
  criticalKeys = {d1}
  maxInMemory = 2
  MaxSnapshots = 4
SPECIFICATION Spec
INVARIANTS DeadLetterSafe SequencerSafe SchemaSafe RewardSafe SecretSafe ArchivalSafe ScalerSafe BaselineSafe IngressSafe CacheSafe
CHECK_DEADLOCK FALSE
