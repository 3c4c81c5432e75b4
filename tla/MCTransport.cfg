\* A GET, with its retries, and a POST compete for the one slot of one origin, under
\* fairness.
SPECIFICATION FairSpec
CONSTANTS
    g1 = g1
    p1 = p1
    p2 = p2
    p3 = p3
    api = api
    Callers = {g1, p1}
    Getters = {g1}
    Origins = {api}
    OriginOf <- MCOneOrigin
    MaxInFlight = 1
    QueueTimeout = 3
    RequestTimeout = 2
    MinCooldown = 1
    SlowWindow = 2
    PaceGap = 1
    BackoffUnit = 1
    MaxHint = 3
    Hints <- MCHints
INVARIANTS
    SlotsAreHeld
PROPERTIES
    RetryDiscipline
    EveryCallReturns
CHECK_DEADLOCK FALSE
