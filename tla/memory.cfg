CONSTANTS
  Blocks = {b1, b2, b3, b4, b5, b6, b7}
  MaxHeaders = 2
  Env = {"malloc", "send", "notfound", "gaveup"}
  NULL = NULL
  BODY_BUF = 69
  LineLengths = {1, 9, 10}
SPECIFICATION RSpec
SYMMETRY Symmetry
CHECK_DEADLOCK FALSE
INVARIANTS TypeOK ResponsesTypeOK NothingStale OwnersApart BuffersHold
PROPERTY NothingLeaks
