\* One descriptor: connections come one after the other, pipeline two requests
\* and stay until they are idle, poll is interrupted and fails, and time passes.
CONSTANTS
  MaxConn = 2
  MaxFd = 1
  MaxReq = 2
  MaxTime = 2
  SndBuf = 1
  IDLE_TIMEOUT_MS = 1
  DEFAULT_TTL_MS = 1
  Kinds = {"set", "sdie", "bad"}
  Faults = {"eintr", "enomem"}
SPECIFICATION FairSpec
CHECK_DEADLOCK FALSE
INVARIANTS MemorySafe NoRequestLeftBehind
PROPERTIES RequestsAnswered
