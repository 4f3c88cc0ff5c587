\* Two prompt workers drain two deliveries to one peer: pauses, interrupted runs.
SPECIFICATION FairSpec
CONSTANTS
    None = None
    Backoff <- MCBackoff
    RetryAfters <- MCRetryAfters
    Activity = {a1, a2}
    Inbox = {i1}
    Worker = {w1, w2}
    Publisher = {p1}
    MaxActive = 2
    BatchLimit = 1
    ClaimTTL = 2
    LeaseTTL = 1
    OutboundGlobal = 2
    Lifetime = 2
    RetryAfterCap = 1
    CircuitThreshold = 2
    Patience = 1
    MaxTime = 4
    Horizon = 2
    MaxAborts = 1
    OwnerOps <- MCPauseOnly
PROPERTIES
    QueueDrains
CHECK_DEADLOCK FALSE
