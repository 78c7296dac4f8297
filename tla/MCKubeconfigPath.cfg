SPECIFICATION Spec
CONSTANTS
  p1 = p1
  p2 = p2
  c1 = c1
  c2 = c2
  Procs = {p1, p2}
  Contexts = {c1, c2}
  NoContext = NoContext
  RefreshPaths = {"default", "explicit"}
  MaxRuns = 2
  MaxEdits = 1
PROPERTIES
  PathHonoured
SYMMETRY Symmetry
CHECK_DEADLOCK FALSE
