\* Two of each kind of process: browsers with their handlers, signers, inbox
\* requests.
SPECIFICATION MCSpec
CONSTANTS
    NoOne = NoOne
    Client = {p1, p2}
    Origin = {o1, o2}
    CodesPerOwner = 1
    MaxOwners = 2
    MaxSessions = 3
    MaxVersions = 3
    Asset = {a1, a2}
    MaxMishaps = 2
    MaxOps = 3
    MaxTurns = 2
    Proc = {p1, p2}
    Key = {k1, k2, k3}
    NoKey = NoKey
    Ttl = 2
    Lag = 1
    MaxClock = 4
    Request = {p1, p2}
    Sender <- MCSender
    NoStamp = NoStamp
    Cost = 2
    Capacity <- MCCapacity
    Refill <- MCRefill
    MaxLeases <- MCMaxLeases
    LeaseTtl = 1
    MaxNow = 2
    MaxStarts = 3
SYMMETRY Symmetry
INVARIANTS
    OneClaim
    CodesWorkOnce
    OldSessionsDead
    NoLostEdit
    
    RestoredIsWhole
    
    DeletedSpaceIsGone
    OneActiveKey
    SignedKeysAreStored
    VerifiableInFlight
    BudgetHolds
    LeaseLimits
CHECK_DEADLOCK FALSE
