\* The promise that the queue is drained when the database recovers.
CONSTANTS
  Entries = {e1, e2}
  Invalid = {}
  Probes = {p1}
  QUEUE_CAPACITY = 2
  MaxOutages = 1
SPECIFICATION AuditSpec
PROPERTY QueueDrains
CHECK_DEADLOCK FALSE
