SPECIFICATION ScriptsSpec
CONSTANTS
  a = a  n = n  uk = uk  us = us
  NumBooks = 3
  PageSize = 3
  DispatchLimit = 5
  Floor = 1
  Ramp <- MCRamp
  MaxTrouble = 2
  MaxOutside = 1
  Regions = {uk, us}
  RegionOf <- MCRegionOf
  NumRows = 6
  RowsPerPage = 5
  ChunkSize = 1
  Width <- MCRamp
  Backlog = 4
  MaxMishaps = 2
  RowRegions = {uk, us}
  RowRegion <- MCRowRegion
  Entity = {a, n}
  SeedRegions <- MCSeedRegions
  Kind <- MCKind
  HomeOf <- MCHome
  Listing <- MCListing
  Released = {4}
  SliceSize = 2
  Once = FALSE
  MaxSetbacks = 1
  MaxVisits = 1
  NumPairs = 2
  RegionOfPair <- MCRegionOfPair
  BatchSize = 1
  PairBatch = 2
  Own = {"o1", "o2"}
  Fresh <- MCFresh
  Twins = {1}
  p = p
  q = q
  Process = {p, q}
  MaxRuns = 3
  MaxFaults = 1
  MaxMerges = 1
  LinkColumns <- MCLinkColumns
  OnlineIndexes <- MCOnlineIndexes
  WindowIndexes <- MCWindowIndexes
  Keys = {1, 2}
  Orphans = {2}
  MaxStarts = 5
  MaxInserts = 2
SYMMETRY Symmetry
INVARIANTS
  BackfillHonest BacksOff  
   OldWriterSafe KeysHonest
 
