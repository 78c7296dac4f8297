SPECIFICATION Spec
CONSTANTS
  Pools = {p1}
  MaxSize = 1
  MaxRequests = 1
  Servers = {s1, s2}
  PageSize = 2
  MaxEvents = 0
CHECK_DEADLOCK FALSE
INVARIANTS NoOrphans
