CONSTANTS
  Jobs = {j1}
  Workers = {w1}
  None = None
  MaxAttempts = 2
  LeaseDuration = 1
  ClockLag = 0
  Tales = {n1}
  Copies = 1
  MaxReceives = 2
  MaxRounds = 1
  MaxVersion = 4
  Openings = {"AWAITING_SPARK"}
SPECIFICATION Spec
INVARIANTS StaleIsSuperseded
CHECK_DEADLOCK FALSE
