\* Two nodes that become friends, part and block each other, and a circle.
SPECIFICATION Spec
CONSTANTS
    None = None
    Node = {n1, n2}
    Circle = {c1}
    MaxId = 4
    MaxFaults = 0
    OwnerOps <- MCCircles
SYMMETRY Symmetry
INVARIANTS
    CirclesAreFriends
CHECK_DEADLOCK FALSE
