\* Services, one at a time, with their liveness.
CONSTANTS
  Checks = {c1, c2}
  First = c0
  renewBeforeDays = 2
  Validity = 2
  MaxDay = 2
  MaxEdits = 2
  MaxUpdates = 2
  MaxSignals = 1
  Entries = {e1, e2, e3}
  Invalid = {e3}
  Probes = {p1}
  QUEUE_CAPACITY = 2
  MaxOutages = 2
  OltpQueries = {q1}
  OlapQueries = {a1}
  Transactions = {t1}
  initialMax <- InitialMax
  minConnections = 1
  maxConnections = 2
  adjustmentStep = 1
  MaxVersion = 3
  Refused = {2}
  Sockets = {s1, s2}
SPECIFICATION Spec
INVARIANTS CertificateSafe ConfigSafe AuditSafe PoolSafe
 
CHECK_DEADLOCK FALSE
