\* One reading of each kind: servers that answer badly, requests that fail, an
\* entry created and one deleted meanwhile, the deadline at any time.
SPECIFICATION ReadingsAlike
CONSTANTS
  Length = 3
  MaxParallel = 2
  VCs = {1, 2, 3, 4, 5}
  PageLimit = 2
  RetryLimit = 3
  Created = 1
  Deleted = 1
  Faulty = TRUE
  NProfiles = 3
  NJobs = 4
  PageSize = 2
  Arrivals = 1
  Removals = 1
  Limits = {0, 1, 2, 3}
  Instants = {0, 2}
  NWorkloads = 2
  Changes = 2
  Moves = 2
  Slots = 1
  MaxRestarts = 2
  Resets = 1
  Baseline = 1
  Since = 2
  LastScrape = 3
  Summands = {1, 2}
  Stamps = {1, 2}
  LastTime = 3
  Tolerance = 1
\* A reading stops when it has its result.
CHECK_DEADLOCK FALSE
INVARIANTS
  EveryPositionHasItsResult
  LookupIsTrue
  ListsAreWhole
  QueriesAreTrue
  UsageIsTrue
  NoLookupIsStuck
PROPERTIES
  RefinesParallelMap
