CONSTANTS
    p1 = p1
    p2 = p2
    i1 = i1
    i2 = i2
    b1 = b1
    b2 = b2
    Peers = {p1, p2}
    Pieces = {i1, i2}
    Blocks = {b1, b2}
    MaxPiped = 3
    SuspectAt = 1
    BadData = TRUE
    LateBitfield = TRUE
SYMMETRY Symmetry
SPECIFICATION Spec
CHECK_DEADLOCK FALSE
INVARIANTS
    RequestsAccounted
    GotIsGood
    OnlyLiarsBanned
