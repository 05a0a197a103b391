CONSTANTS
  Clients = {c1, c2, c3}
  MaxConns = 1
  MaxFds = 2
  MaxEvents = 2
  ConnTimeout = 0
  ConnMaxAge = 0
  Env = {"reset"}
  NULL = NULL
SPECIFICATION FairSpec
CHECK_DEADLOCK FALSE
PROPERTY ConnectionsEnd
