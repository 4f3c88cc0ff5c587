\* Two prompt workers, two activities, one peer, requeues, discards and blocks:
\* the promises of Outbox and of Channel.
\* The clock and the horizon stop the behaviour, so it may end.
SPECIFICATION Spec
CONSTANTS
    None = None
    Backoff <- MCBackoff
    RetryAfters <- MCRetryAfters
    Activity = {a1, a2}
    Inbox = {i1}
    Worker = {w1, w2}
    Publisher = {p1}
    MaxActive = 2
    BatchLimit = 1
    ClaimTTL = 2
    LeaseTTL = 1
    OutboundGlobal = 2
    Lifetime = 2
    RetryAfterCap = 1
    CircuitThreshold = 2
    Patience = 1
    MaxTime = 3
    Horizon = 2
    MaxAborts = 1
    OwnerOps <- MCAllButPause
SYMMETRY Symmetry
INVARIANTS
    TypeOK
    ClaimExclusive
    
    InboxSendsSerial
    RetriesEnd
PROPERTIES
    KeepsPromise
    KeepsTurns
CHECK_DEADLOCK FALSE
