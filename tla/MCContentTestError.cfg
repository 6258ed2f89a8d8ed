SPECIFICATION FairSpec
CONSTANTS
  t1 = t1
  t2 = t2
  Torrents = {t1, t2}
  NBlocks = 2
  PieceBlocks = 1
  FileEnd <- OneFile
  Alloc = 0
  Scenarios = {{"startup"}}
  Edits = FALSE
PROPERTIES TestsEnd
