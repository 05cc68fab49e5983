CONSTANTS
  p1 = p1
  p2 = p2
  t1 = t1
  t2 = t2
  t3 = t3
  t4 = t4
  a = a
  b = b
  c = c
  x = x
  f1 = f1
  f2 = f2
  Proc = {p1, p2}
  Task = {t1, t2, t3}
  Key = {a, b, c}
  Field = {f1, f2}
  Home <- FaultHome
  Kind <- FaultKind
  Batch <- FaultBatch
  Unwritable <- FaultUnwritable
  Payload <- FaultPayload
  Parent <- OwnParent
  Bad = {}
  ChunkSize = 2
  MaxAttempts = 1
  BacklogMax = 3
  WriteLimit = 1
  Faults = {"retryable"}
SPECIFICATION Spec
CHECK_DEADLOCK FALSE
INVARIANTS CacheNeverPoorer
