SPECIFICATION Spec
CONSTANTS
  Routers = {r1, r2}
  Networks = {n1, n2}
  MaxPorts = 2
  MaxSubnets = 2
  MaxChanges = 1
SYMMETRY IdSymmetry
CHECK_DEADLOCK FALSE
INVARIANTS DiscoveredOnce
PROPERTIES NothingGuessed
