CONSTANTS
  Clients = {c1, c2, c3}
  MaxConns = 2
  MaxFds = 3
  MaxEvents = 3
  ConnTimeout = 0
  ConnMaxAge = 1
  Env = {"vanish", "abort", "setup", "signal", "reconnect"}
  NULL = NULL
SPECIFICATION Spec
SYMMETRY Symmetry
CHECK_DEADLOCK FALSE
INVARIANTS TypeOK Exact SlotsOwnSockets NoStaleEvent FinishClosesAll
PROPERTIES BusyOnlyWhenFull NoSilentDrop KeepsPromise
