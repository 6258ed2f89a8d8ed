SPECIFICATION MCSpec
CONSTANTS
    p1 = p1
    p2 = p2
    i1 = i1
    i2 = i2
    b1 = b1
    Peers = {p1, p2}
    Pieces = {i1, i2}
    Blocks = {b1}
    MaxPiped = 2
    SuspectAt = 3
    BadData = FALSE
    LateBitfield = FALSE
    SHAKE = 1
    SIZE = 2
    META = 1
    GRBUFLEN = 3
    LimitIn = 2
    Nobody = Nobody
INVARIANTS InStep
PROPERTIES OneSeedIsEnough AllRead
