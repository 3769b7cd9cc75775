\* A client that pipelines two requests and is slow to read.
CONSTANTS
  MaxConn = 1
  MaxFd = 1
  MaxReq = 2
  MaxTime = 0
  SndBuf = 1
  IDLE_TIMEOUT_MS = 1
  DEFAULT_TTL_MS = 2
  Kinds = {"get"}
  Faults = {}
SPECIFICATION Spec
CHECK_DEADLOCK FALSE
INVARIANT KeepsGoodClients
