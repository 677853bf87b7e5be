CONSTANTS
  Jobs = {j1}
  Workers = {w1, w2}
  None = None
  MaxAttempts = 2
  LeaseDuration = 1
  ClockLag = 0
  Tales = {n1}
  Copies = 2
  MaxReceives = 2
  MaxRounds = 2
  MaxVersion = 5
  Openings = {"COLLECTING_ACTIONS"}
SPECIFICATION FairSpec
INVARIANTS AcksFollowCommit CompletionAgrees ReceiptMatchesRoom
PROPERTIES JobSettles
CHECK_DEADLOCK FALSE
