CONSTANTS
  Clients = {c1, c2, c3}
  MaxConns = 2
  MaxFds = 3
  MaxEvents = 3
  ConnTimeout = 0
  ConnMaxAge = 0
  Env = {"setup"}
  NULL = NULL
SPECIFICATION LoopSpec
CHECK_DEADLOCK FALSE
INVARIANT NoneIsDeaf
PROPERTIES QueueDrains RequestRead
