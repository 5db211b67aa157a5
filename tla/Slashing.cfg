\* Reputation scores, notification deliveries, the slashing executor, bond pools.
CONSTANTS
  s1 = s1
  s2 = s2
  s3 = s3
  p1 = p1
  p2 = p2
  c1 = c1
  c2 = c2
  c3 = c3
  m1 = m1
  m2 = m2
  e1 = e1
  e2 = e2
  NoScoreCall = NoScoreCall
  NoSlasher = NoSlasher
  ScoreCalls = {s1, s2, s3}
  MIN_SCORE <- MinScore
  MAX_SCORE = 1
  REWARD_DELTA = 1
  SLASHING_DELTA = 2
  Processes = {p1, p2}
  Notifiers = {c1, c2, c3}
  processOf <- Home
  maxRetries = 1
  Members = {m1, m2}
  Slashers = {e1, e2}
  TotalCounts = {0, 1, 2}
  BASE_SLASHING_PENALTY = 5
  v1 = v1
  v2 = v2
  t1 = t1
  t2 = t2
  r1 = r1
  NoTx = NoTx
  Validators = {v1, v2}
  MIN_STAKE = 1
  MAX_STAKE = 2
  maxValidatorStake = 2
  Txs = {t1, t2}
  Reconcilers = {r1}
  maxOptimisticAttempts = 2
SPECIFICATION AllSpec
INVARIANTS ReputationSafe DeliverySafe PenaltySafe PoolCoversStakes
PROPERTIES SlashIsExact ImplementsLedger SlashingSettles
CHECK_DEADLOCK FALSE
