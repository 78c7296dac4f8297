SPECIFICATION Spec
CONSTANTS
  Keys = {k1, k2}
  Workers = {w1, w2}
  MaxRetries = 2
  MaxNotify = 2
SYMMETRY Symmetry

INVARIANTS MutualExclusion RetryBound NoLostWakeup HistoryHasAttempt IndInv
