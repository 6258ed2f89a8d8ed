SPECIFICATION MCSpec
CONSTANTS
  t1 = t1
  t2 = t2
  Torrents = {t1}
  NBlocks = 4
  PieceBlocks = 2
  FileEnd <- TwoFiles
  Alloc = 2
  Scenarios <- SomeScenarios
  Edits = TRUE
  None = None
  Handles = {h1, h2, h3, h4, h5, h6}
  Delays = {0, 1, 2}
  Slack = 2
  MaxLate = 2
  MaxBuckets = 7
CHECK_DEADLOCK FALSE
VIEW UpToNames
INVARIANTS NoFault HeldIsGood CountsRight HeapOk IsTheSet
PROPERTIES CleanStop ImplementsTimers
