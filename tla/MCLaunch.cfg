SPECIFICATION Spec
CONSTANTS
  Pools = {p1, p2}
  MaxSize = 2
  MaxRequests = 1
  Servers = {s1, s2, s3}
  PageSize = 3
  MaxEvents = 1
SYMMETRY Symmetry
CHECK_DEADLOCK FALSE
INVARIANTS NoOvershoot NoUndershoot QuietMeansSettled
