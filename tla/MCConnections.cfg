SPECIFICATION MCSpec
CONSTANTS
  None = None
  b1 = b1
  c1 = c1
  c2 = c2
  i1 = i1
  own = own
  e1 = e1
  e2 = e2
  e3 = e3
  Blocks = {b1}
  MAXPIECEMSGS = 2
  MaxQueue = 5
  Conns = {c1, c2}
  Torrents = {1}
  Ids = {i1, own}
  OwnId = own
  MaxPeers = 2
  MaxRecords = 1
  Shake = 1
  Write = 1
  Silence = 2
  Absorbs = 1
  Events = {e1, e2, e3}
  Clients = {e1}
  Capacity = 3
  MaxBatch = 3
  MaxOps = 2
INVARIANTS WriteArmed ChokeTold TablesAgree LostLeave CallsLive
SYMMETRY Symmetry
CHECK_DEADLOCK FALSE
