SPECIFICATION Spec
CONSTANTS
  Replies <- MCReplies
  READ = 3
  MaxHead = 4
  MaxLine = 4
  MaxDownload = 4
INVARIANT ReallocHarmless
CHECK_DEADLOCK FALSE
