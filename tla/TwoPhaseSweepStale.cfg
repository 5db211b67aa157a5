\* Two concurrent sweeps and a new call on the same node.
CONSTANTS
  n1 = n1
  c1 = c1
  c2 = c2
  w1 = w1
  w2 = w2
  NoCall = NoCall
  Nodes = {n1}
  Calls = {c1,c2}
  Workers = {w1,w2}
  Admins = {}
  Kinds = {}
  InitialStatuses = {"Provisioned", "Pending", "Active", "Slashed", "Archived"}
  BatchSize = 1
  Poison = {}
  TimelyCalls = TRUE
SPECIFICATION Spec
PROPERTY SweepClaimsItsRow
CHECK_DEADLOCK FALSE
