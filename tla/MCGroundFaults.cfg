SPECIFICATION FairSpec
CONSTANTS
  Pools = {}
  MaxSize = 0
  MaxRequests = 3
  Faulty <- AllCalls
  MaxFaults = 1
  MaxCrashes = 1
  MaxNotify = 2
  WaitTimesOut = TRUE
CHECK_DEADLOCK FALSE
INVARIANTS ReleaseUnlessTerminated NothingLeftBehind
PROPERTIES ComesUp TerminationCompletes
