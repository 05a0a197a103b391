CONSTANTS
  HEADER_BUF_SIZE = 11
  METHOD_BUF_SIZE = 2
  URL_BUF_SIZE = 3
  SC_MAX_HEADER_ERROR_COUNT = 2
  Sendable <- ShortRequests
  MaxSegments = 3
  Env = {"split", "close", "reset"}
  UNSET = UNSET
SPECIFICATION FairSpec
CHECK_DEADLOCK FALSE
INVARIANTS TypeOK ParsesWhatWasSent BufferHolds OnlyTerminatorsOverrun
PROPERTIES OneLineHeaders ParseEnds
