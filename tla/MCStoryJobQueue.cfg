CONSTANTS
  Jobs = {j1, j2}
  Workers = {w1, w2}
  Results = {r1, r2}
  None = None
  MaxAttempts = 3
  LeaseDuration = 2
  ClockLag = 1
SPECIFICATION FairSpec
INVARIANTS TypeOK HolderIsLatest AttemptsAccounted
PROPERTIES TerminalIsFinal LeaseRespected AttemptsAreMade
CHECK_DEADLOCK FALSE
