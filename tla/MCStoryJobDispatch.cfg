CONSTANTS
  Jobs = {1, 2}
  Publishers = {p1, p2}
  Tokens = {t1, t2, t3, t4, t5}
  NoToken = NoToken
  LeaseDuration = 2
  ClockLag = 1
SPECIFICATION FairSpec
INVARIANTS OneLeaseHolder
PROPERTIES AtLeastOnce EveryRowDispatched
CHECK_DEADLOCK FALSE
