CONSTANTS
  Key = {k1, k2}
  Purger = {p1}
  Writer = {w1}
  Ctids = 4
  Ttl = {1}
  BatchSize = 2
  MaxAttempts = 2
  MaxClock = 2
  NoOne = NoOne
SPECIFICATION FairSpec
PROPERTIES
  PassEnds
