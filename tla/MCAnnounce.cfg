SPECIFICATION MCSpec
CONSTANTS
  r1 = r1
  r2 = r2
  r3 = r3
  None = None
  Reqs = {r1, r2, r3}
  MaxAddrs = 2
  Replies <- MCReplies
  READ = 3
  MaxHead = 4
  MaxLine = 4
  MaxDownload = 4
  MaxPieces = 4
INVARIANTS NoLostWakeup HeldOnce AnsweredOnce ContentRight ReadsRight
PROPERTIES ImplementsConnect
CHECK_DEADLOCK FALSE
