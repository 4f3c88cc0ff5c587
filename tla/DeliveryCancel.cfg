\* A cancellation and an attempt in flight.
SPECIFICATION Spec
CONSTANTS
    None = None
    Backoff <- MCBackoff
    RetryAfters <- MCRetryAfters
    Activity = {a1}
    Inbox = {i1}
    Worker = {w1}
    Publisher = {p1}
    MaxActive = 2
    BatchLimit = 1
    ClaimTTL = 2
    LeaseTTL = 1
    OutboundGlobal = 2
    Lifetime = 2
    RetryAfterCap = 1
    CircuitThreshold = 2
    Patience = 1
    MaxTime = 3
    Horizon = 2
    MaxAborts = 0
    OwnerOps <- MCBlockOnly
PROPERTIES
    CancelledStaysOut
CHECK_DEADLOCK FALSE
