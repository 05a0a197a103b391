CONSTANTS
  MaxConns = 3
  ConnTimeout = 1
  ConnMaxAge = 1
  MaxDebt = 3
  NULL = NULL
SPECIFICATION Spec
INVARIANTS TypeOK Exact CountIsActive Shape NullSafe
PROPERTY KeepsPromise
