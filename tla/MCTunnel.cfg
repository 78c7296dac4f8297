SPECIFICATION Spec
CONSTANTS
  n1 = n1
  n2 = n2
  c1 = c1
  Nodes = {n1, n2}
  Cidrs = {c1}
  Absent = Absent
  Incomplete = Incomplete
  Watched = n1
  ServiceCIDR = ServiceCIDR
  Hosts <- MCHosts
  MaxRetries = 1
  MaxChanges = 3
  MaxFaults = 1
INVARIANTS
  TypeOK
  GoneLeavesNoRoute
  LocksReturned
  JumpOnce
  FlagsSupported
PROPERTIES
  EventuallyServed
  StaleRedirectGoes
CHECK_DEADLOCK FALSE
