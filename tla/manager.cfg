CONSTANTS
  Names <- OverlappingNames
  Uris <- ShortUris
  Handlers = {f, g}
  Nodes = {n1, n2, n3}
  MaxConns = 1
  EventCounts = {1, 2}
  Backlogs = {1, 2}
  MaxBinds = 2
  Env = {"malloc", "socket", "setsockopt", "bind", "epoll_create", "epoll_ctl",
         "events", "pool", "listen", "getnameinfo", "endpoint", "late"}
  UNSET = UNSET
  NULL = NULL
SPECIFICATION Spec
SYMMETRY Symmetry
CHECK_DEADLOCK FALSE
INVARIANTS TypeOK NothingLeft Survives EventsFit ListOwnsBlocks NewestWins
