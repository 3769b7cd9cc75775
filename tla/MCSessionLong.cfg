\* Three requests, and responses above MAX_MSG.
CONSTANTS
  Byte <- Digit
  Junk <- NoByte
  Base = 8
  W = 2
  D = 2
  MAX_MSG = 11
  MAX_CMDS = 2
  Cmds <- MCCmds
  Replies <- AllReplies
  BufSize = 6
  MaxInFlight = 2
  MaxReqs = 3
SPECIFICATION Spec
CHECK_DEADLOCK FALSE
INVARIANT AnswerPrinted
