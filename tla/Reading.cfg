SPECIFICATION ReadingSpec
CONSTANTS
  x = x y = y z = z All = All
  BaselineSorts <- MCBaselineSorts
  ProbeSort = "title"
  SpendSorts <- MCSpendSorts
  PageSize = 2 Ceiling = 4 DryMin = 2 DryLimit = 2 MaxCandidates = 3
  Categories = {x, y, z}
  Listing <- MCListing Claim <- MCClaim Ladder <- MCLadder
  Attributed = {1,2,3,4,5,6,7,8,9}
  MaxFailures = 2
  Screen <- MCScreen
  NoCount = NoCount
  Counts = {NoCount, 0, 2, 7, 9, 11}
  RowsPerScreen = 2
  MaxScreens = 5
  MaxAsins = 7
  Fanout = 2
  MaxFlaws = 2
  Search <- MCSearch
  Matching = {1,2,3,4,5,6}
  NoTotal = NoTotal
  SearchTotals = {NoTotal, 0, 4, 7, 9}
  SearchSize = 2 MaxSearchPage = 4 Concurrency = 2 MaxLosses = 1
  r1 = r1 r2 = r2 r3 = r3 a1 = a1 a2 = a2 Nobody = Nobody
  Request = {r1, r2, r3} Author = {a1, a2}
  QueueMax = 1 MaxAttempts = 2 MaxTracked = 1 MaxCancels = 1
  c1 = c1 c2 = c2
  Writer = {c1, c2} NoWriter = NoWriter Title = {1, 2} Ttl = {1, 2} LastSecond = 3
  Asin = {1, 2, 3, 4} Unshaped = {2} ChunkSize = 2
  Edition = {1, 2, 3, 4} NoAsin = {2} ChunkMax = 2
  Caller = {c1, c2} Book = {1, 2} Offset <- MCOffset Histories <- MCHistories
  Skew = 1 MaxAge = 1 LastTick = 3
  w1 = w1 w2 = w2 w3 = w3 w4 = w4 w5 = w5
  Tx = {w1, w2, w3, w4, w5} Job <- MCJob MaxAborts = 1
  Response <- MCResponse Key = {"k1", "k2"} Part = {1, 2} Instant = {1, 2}
SYMMETRY MCSymmetry
INVARIANTS  WalkShared CompletionsBounded 
  LockedWritersQueue LocksSerialize MergeKeeps
PROPERTIES ListGrows ReadAccounted 
CHECK_DEADLOCK FALSE
