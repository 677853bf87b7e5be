CONSTANTS
  Jobs = {j1}
  Workers = {w1, w2}
  None = None
  MaxAttempts = 2
  LeaseDuration = 1
  ClockLag = 0
  Tales = {n1}
  Copies = 1
  MaxReceives = 3
  MaxRounds = 1
  MaxVersion = 3
  Openings = {"AWAITING_SPARK"}
SPECIFICATION Spec
INVARIANTS ReceiptIsServed
CHECK_DEADLOCK FALSE
