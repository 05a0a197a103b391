CONSTANTS
  Clients = {c1, c2, c3}
  MaxConns = 2
  MaxFds = 2
  MaxEvents = 2
  ConnTimeout = 0
  ConnMaxAge = 0
  Env = {"reset", "split", "oversized", "abort", "setup"}
  NULL = NULL
SPECIFICATION Spec
SYMMETRY Symmetry
CHECK_DEADLOCK FALSE
INVARIANTS NullSafe Shape
