CONSTANTS
  Entry = {e1, e2}
  Sound = {e1, e2}
  Worker = {w1, w2}
  MaxHolds = 2
  MaxDemoted = 1
SPECIFICATION Spec
INVARIANTS
  OneRefresher
  NoOrphanLock
PROPERTIES
  NoSurplusRefresh
