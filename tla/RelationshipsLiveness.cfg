\* Two nodes follow, unfollow and leave while answers are lost and processes die.
SPECIFICATION FairSpec
CONSTANTS
    None = None
    Node = {n1, n2}
    Circle = {c1}
    MaxId = 4
    MaxFaults = 1
    OwnerOps <- MCHandshake
PROPERTIES
    AcceptArrives
CHECK_DEADLOCK FALSE
