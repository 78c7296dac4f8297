SPECIFICATION Spec
CONSTANTS
  Pools = {}
  MaxSize = 0
  MaxRequests = 2
  Faulty <- NoCalls
  MaxFaults = 0
  MaxCrashes = 0
  MaxNotify = 2
  WaitTimesOut = FALSE
CHECK_DEADLOCK FALSE
INVARIANT AcceptedStaysTerminating
