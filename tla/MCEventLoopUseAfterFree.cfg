\* Three connections at once.
CONSTANTS
  MaxConn = 3
  MaxFd = 3
  MaxReq = 1
  MaxTime = 0
  SndBuf = 1
  IDLE_TIMEOUT_MS = 1
  DEFAULT_TTL_MS = 2
  Kinds = {"huge"}
  Faults = {}
SPECIFICATION Spec
CHECK_DEADLOCK FALSE
INVARIANT MemorySafe
