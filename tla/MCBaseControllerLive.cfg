SPECIFICATION FairSpec
CONSTANTS
  Keys = {k1, k2}
  Workers = {w1}
  MaxRetries = 1
  MaxNotify = 1

PROPERTIES EveryChangeSeen DeletedKeyDrains
