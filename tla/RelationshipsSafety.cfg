\* Two nodes that follow and block each other, a fault; the promise of Handshake.
SPECIFICATION Spec
CONSTANTS
    None = None
    Node = {n1, n2}
    Circle = {c1}
    MaxId = 3
    MaxFaults = 1
    OwnerOps <- MCAllBlocks
SYMMETRY Symmetry
INVARIANTS
    TypeOK
    FollowsAreEarned
    
    Converged
PROPERTIES
    KeepsHandshake
CHECK_DEADLOCK FALSE
