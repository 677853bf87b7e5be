CONSTANTS
  Jobs = {j1, j2}
  Workers = {w1, w2}
  None = None
  MaxAttempts = 1
  LeaseDuration = 1
  ClockLag = 0
  Tales = {n1}
  Copies = 1
  MaxReceives = 1
  MaxRounds = 2
  MaxVersion = 6
  Openings = {"AWAITING_SPARK"}
SPECIFICATION Spec
SYMMETRY Symmetry
INVARIANTS TellerJustified
PROPERTIES ToldAsChronicle
CHECK_DEADLOCK FALSE
