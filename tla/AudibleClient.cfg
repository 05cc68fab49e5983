CONSTANTS
  a = a
  c = c
  d = d
  i = i
  j = j
  Call = {a, c, d}
  Client = {i, j}
  Of <- MCOf
  Pool = {"default", "author_books"}
  PoolOf <- MCPoolOf
  Limit <- MCLimit
  MaxAttempts = 2
  Loop = {l1, l2}
  None = None
SPECIFICATION FairSpec
INVARIANTS
  InFlightBounded
PROPERTIES
  ClosedSendsNothing
  CallEnds
