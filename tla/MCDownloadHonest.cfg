CONSTANTS
    p1 = p1
    p2 = p2
    p3 = p3
    i1 = i1
    i2 = i2
    b1 = b1
    b2 = b2
    Peers = {p1, p2, p3}
    Pieces = {i1, i2}
    Blocks = {b1, b2}
    MaxPiped = 3
    SuspectAt = 3
    BadData = FALSE
    LateBitfield = FALSE
SYMMETRY Symmetry
SPECIFICATION Spec
INVARIANTS
    NoAssertFails
    WantedCount
    EndgameWhenSaturated
    NoIdlePeer
