CONSTANTS
  Key = {k1, k2}
  Purger = {p1, p2}
  Writer = {w1}
  Ctids = 4
  Ttl = {1}
  BatchSize = 1
  MaxAttempts = 2
  MaxClock = 2
  NoOne = NoOne
SPECIFICATION Spec
SYMMETRY Symmetry
INVARIANTS
  SweptClean
PROPERTIES
  LiveSpared
