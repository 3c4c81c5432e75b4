\* Three POSTs meet at the gate of an origin that has two slots, and are refused with
\* and without a Retry-After.
SPECIFICATION Spec
CONSTANTS
    g1 = g1
    p1 = p1
    p2 = p2
    p3 = p3
    api = api
    Callers = {p1, p2, p3}
    Getters = {}
    Origins = {api}
    OriginOf <- MCOneOrigin
    MaxInFlight = 2
    QueueTimeout = 2
    RequestTimeout = 1
    MinCooldown = 2
    SlowWindow = 3
    PaceGap = 2
    BackoffUnit = 1
    MaxHint = 3
    Hints <- MCPacingHints
SYMMETRY MCPosts
INVARIANTS
    RecoveryFollowsCooldown
PROPERTIES
    NoSendDuringEmbargo
    RecoveryIsPaced
CHECK_DEADLOCK FALSE
