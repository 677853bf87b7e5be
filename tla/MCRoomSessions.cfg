CONSTANTS
  Seats = {s1}
  Host = Host
  Requests = {r1, r2, r3}
  Lifetime = 2
  CodeLifetime = 2
  MaxTime = 2
  MaxRestarts = 1
  None = None
SPECIFICATION Spec
SYMMETRY Symmetry
INVARIANTS CodeWorksOnce SessionsEndWithRoom OnceAcrossRestarts DeletedIsGone
PROPERTIES AuthorityCurrent ServedOneAtATime
CHECK_DEADLOCK FALSE
