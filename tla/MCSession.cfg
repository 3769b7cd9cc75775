\* Three requests, all of them in flight, and buffers smaller than a message.
CONSTANTS
  Byte <- Digit
  Junk <- NoByte
  Base = 8
  W = 2
  D = 2
  MAX_MSG = 11
  MAX_CMDS = 2
  Cmds <- MCCmds
  Replies <- ShortReplies
  BufSize = 6
  MaxInFlight = 3
  MaxReqs = 3
SPECIFICATION Spec
CHECK_DEADLOCK FALSE
INVARIANTS TypeOK RequestsIntact ResponsesIntact CommandUnderstood AnswerPrinted NobodyStalls
