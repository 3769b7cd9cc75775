\* Two clients with two requests each, connections closed or reset at any
\* moment, and responses that do not fit the socket's buffer.
CONSTANTS
  MaxConn = 2
  MaxFd = 2
  MaxReq = 2
  MaxTime = 0
  SndBuf = 1
  IDLE_TIMEOUT_MS = 1
  DEFAULT_TTL_MS = 1
  Kinds = {"get", "set"}
  Faults = {"rst", "fin"}
SPECIFICATION Spec
CHECK_DEADLOCK FALSE
INVARIANTS TypeOK WaitsForOneThing FdTableSound AnswersInOrder
