\* A Follow whose answer is lost, and an owner who rejects it.
SPECIFICATION Spec
CONSTANTS
    None = None
    Node = {n1, n2}
    Circle = {c1}
    MaxId = 3
    MaxFaults = 1
    OwnerOps <- MCFollowOnly
INVARIANTS
    AppliedOnce
CHECK_DEADLOCK FALSE
