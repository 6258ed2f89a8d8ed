SPECIFICATION MCSpec
CONSTANTS
  p1 = p1
  p2 = p2
  p3 = p3
  Peers = {p1, p2, p3}
  Net <- TwoNets
  Uploads <- Limits
  None = None
  Handles = {t1, t2, t3}
  Delays = {0, 1, 3}
  Slack = 2
  MaxLate = 3
INVARIANTS SlotsUsed
PROPERTIES EveryoneServed TimersFire
