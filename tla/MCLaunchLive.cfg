SPECIFICATION FairSpec
CONSTANTS
  Pools = {p1}
  MaxSize = 1
  MaxRequests = 2
  Servers = {s1, s2}
  PageSize = 2
  MaxEvents = 1
CHECK_DEADLOCK FALSE
PROPERTIES Converges
