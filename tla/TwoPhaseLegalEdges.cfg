\* The status is read before Phase 1 and not again.
CONSTANTS
  n1 = n1
  c1 = c1
  c2 = c2
  c3 = c3
  NoCall = NoCall
  Nodes = {n1}
  Calls = {c1,c2,c3}
  Workers = {}
  Admins = {}
  Kinds = {}
  InitialStatuses = {"Provisioned", "Pending", "Active", "Slashed", "Archived"}
  BatchSize = 1
  Poison = {}
  TimelyCalls = TRUE
SPECIFICATION Spec
PROPERTY LegalEdges
CHECK_DEADLOCK FALSE
