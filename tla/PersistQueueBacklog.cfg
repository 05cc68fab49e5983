CONSTANTS
  p1 = p1
  p2 = p2
  t1 = t1
  t2 = t2
  t3 = t3
  t4 = t4
  a = a
  b = b
  c = c
  x = x
  f1 = f1
  f2 = f2
  Proc = {p1}
  Task = {t1, t2, t3, t4}
  Key = {a, b, c, x}
  Field = {f1}
  Home <- FullHome
  Kind <- FullKind
  Batch <- FullBatch
  Unwritable <- FullUnwritable
  Payload <- FullPayload
  Parent <- FullParent
  Bad = {}
  ChunkSize = 2
  MaxAttempts = 2
  BacklogMax = 3
  WriteLimit = 1
  Faults = {"retryable", "cancel"}
SPECIFICATION FairSpec
CHECK_DEADLOCK FALSE
 
PROPERTIES AdmittedEnds WaitEnds
