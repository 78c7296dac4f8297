SPECIFICATION Spec
CONSTANTS
  s1 = s1
  s2 = s2
  Slots = {s1, s2}
  Parts = {"k", "a", "b"}
  Accounts = {"a", "b"}
  Tokens = {"admin", "member", "other", "unscoped"}
  Revocable = {"admin"}
  Principal <- MCPrincipal
  Requests <- MCRequests
  MaxCalls = 2
  MaxEvents = 2
  MaxFaults = 1
INVARIANTS
  TypeOK
  ClientReadsServer
  OutcomeTruthful
  OwnKlustersOnly
  LinksFetchedOnce
PROPERTIES
  ChangedByAdmin
  NoRollback
  CallReturns
  RevokedRefused
CHECK_DEADLOCK FALSE
