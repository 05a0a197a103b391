CONSTANTS
  Clients = {c1, c2}
  MaxConns = 2
  MaxFds = 2
  MaxEvents = 2
  ConnTimeout = 0
  ConnMaxAge = 1
  Env = {"abort", "signal", "setup", "reconnect"}
  NULL = NULL
SPECIFICATION FairSpec
CHECK_DEADLOCK FALSE
PROPERTY ConnectionsEnd
