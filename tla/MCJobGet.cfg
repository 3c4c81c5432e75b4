\* A profile of two: a job is found on the platform, and reading it fails.
SPECIFICATION LookupSpec
CONSTANTS
  Length = 2
  MaxParallel = 2
CHECK_DEADLOCK FALSE
INVARIANTS
  GetNotFoundIsTrue
