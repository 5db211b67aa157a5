\* A call outlives its row, which a sweep has selected when it is marked.
CONSTANTS
  n1 = n1
  c1 = c1
  c2 = c2
  w1 = w1
  NoCall = NoCall
  Nodes = {n1}
  Calls = {c1, c2}
  Workers = {w1}
  Admins = {}
  Kinds = {}
  InitialStatuses = {"Active"}
  BatchSize = 1
  Poison = {}
  TimelyCalls = FALSE
SPECIFICATION Spec
PROPERTY MarkedRowIsKept
CHECK_DEADLOCK FALSE
