CONSTANTS
  Seats = {s1}
  Host = Host
  Requests = {r1, r2}
  Lifetime = 2
  CodeLifetime = 2
  MaxTime = 2
  MaxRestarts = 1
  None = None
SPECIFICATION Spec

PROPERTIES LateIsRefused
CHECK_DEADLOCK FALSE
