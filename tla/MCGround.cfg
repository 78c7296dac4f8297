SPECIFICATION Spec
CONSTANTS
  Pools = {p}
  MaxSize = 0
  MaxRequests = 4
  Faulty <- AnsweredCalls
  MaxFaults = 2
  MaxCrashes = 1
  MaxNotify = 2
  WaitTimesOut = FALSE
CHECK_DEADLOCK FALSE
INVARIANTS ReleaseBacksPhase CredentialsMatch NothingLeftBehind
PROPERTIES OnlyRequestedDeleted ImplementsLifecycle
