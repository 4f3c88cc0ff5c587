\* Two publishers and one prompt worker; the owner does nothing.
SPECIFICATION Spec
CONSTANTS
    None = None
    Backoff <- MCBackoff
    RetryAfters <- MCRetryAfters
    Activity = {a1, a2}
    Inbox = {i1}
    Worker = {w1}
    Publisher = {p1, p2}
    MaxActive = 2
    BatchLimit = 1
    ClaimTTL = 2
    LeaseTTL = 1
    OutboundGlobal = 2
    Lifetime = 2
    RetryAfterCap = 1
    CircuitThreshold = 2
    Patience = 1
    MaxTime = 3
    Horizon = 2
    MaxAborts = 0
    OwnerOps <- MCNoOps
INVARIANTS
    CreationOrder
CHECK_DEADLOCK FALSE
