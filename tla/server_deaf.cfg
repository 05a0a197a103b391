CONSTANTS
  Clients = {c1, c2}
  MaxConns = 2
  MaxFds = 2
  MaxEvents = 2
  ConnTimeout = 0
  ConnMaxAge = 0
  Env = {"abort"}
  NULL = NULL
SPECIFICATION Spec
CHECK_DEADLOCK FALSE
INVARIANT NoneIsDeaf
