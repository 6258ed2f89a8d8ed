SPECIFICATION FairSpec
CONSTANTS
  a = a
  b = b
  c = c
  d = d
  Announce <- TwoTiers
  Delay = 1
  MaxAhead = 0
INVARIANTS OneThingPending
PROPERTIES StopIsFinal Spaced StopEnds
