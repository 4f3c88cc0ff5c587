\* One worker, two activities to two peers in batches of two, a queue that fills up.
SPECIFICATION Spec
CONSTANTS
    None = None
    Backoff <- MCBackoff
    RetryAfters <- MCRetryAfters
    Activity = {a1, a2}
    Inbox = {i1, i2}
    Worker = {w1}
    Publisher = {p1}
    MaxActive = 2
    BatchLimit = 2
    ClaimTTL = 2
    LeaseTTL = 1
    OutboundGlobal = 2
    Lifetime = 1
    RetryAfterCap = 1
    CircuitThreshold = 1
    Patience = 1
    MaxTime = 1
    Horizon = 1
    MaxAborts = 0
    OwnerOps <- MCPauseOnly
INVARIANTS
    QueueBounded
    BatchSpreads
CHECK_DEADLOCK FALSE
