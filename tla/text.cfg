SPECIFICATION Spec
CONSTANTS
  NULL = NULL
  Overrun = Overrun
  MaxTail = 3
  MaxList = 6
  MaxLines = 3
INVARIANTS IrcLineTaken ListsSplit ConfigRead OutputActedOn
CHECK_DEADLOCK FALSE
