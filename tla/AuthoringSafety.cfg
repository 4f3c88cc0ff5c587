\* Two handlers of each kind: the owner's publishing forms, the guestbook, and
\* deliveries with the owner's feed forms; an export among what is written.
SPECIFICATION MCSpec
CONSTANTS
    Item = {i1}
    Media = {d1, d2}
    Writer = {p1, p2}
    NoRow = NoRow
    NoMedia = NoMedia
    MaxRev = 3
    MaxFaults = 1
    Visitor = {p1, p2}
    Token = {t1}
    Words = {x1, x2, x3}
    Window = 1
    Limit = 2
    MaxWall = 2
    MaxSubmissions = 4
    Actor = {n1}
    Post = {q1}
    Serial = {d1, d2}
    Handler = {p1, p2}
    Owner = Owner
    Absent = Absent
    MaxCalls = 3
    MaxChanges = 1
    MaxDeaths = 1
    Peer = {m1, m2}
    DomainOf <- MCDomainOf
    Piece = {i1}
    Picture = {w1}
    None = None
    Carried = 1
    MaxWrites = 4
SYMMETRY Symmetry
INVARIANTS
    LiveMediaIsThere
    DeletedIsGone
    NoOrphans
    SubmissionsBounded
    CountedOnce
    
    
PROPERTIES
    
    TombstonesStay
    RoundTrip
CHECK_DEADLOCK FALSE
