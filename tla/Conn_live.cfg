CONSTANTS
  BUF_SIZE = 2
  SndBuf = 1
  Delims <- Second
  MaxSent = 1
  MaxWritten = 2
  Reuse = FALSE
  Timeouts <- BothOrNone
  Faults = TRUE
SPECIFICATION FairSpec
PROPERTIES
  ReadEnds
  FlushEnds
CHECK_DEADLOCK FALSE
