SPECIFICATION LifeSpec
CONSTANTS
    NoOne = NoOne
    Client = {b1}
    Origin = {o1}
    CodesPerOwner = 0
    MaxOwners = 1
    MaxSessions = 1
    MaxVersions = 1
    Asset = {a1}
    MaxMishaps = 1
    MaxOps = 2
    MaxTurns = 0
INVARIANT FailedRestoreKeepsMedia
CHECK_DEADLOCK FALSE
