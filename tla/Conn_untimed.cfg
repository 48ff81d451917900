CONSTANTS
  BUF_SIZE = 2
  SndBuf = 1
  Delims <- Second
  MaxSent = 1
  MaxWritten = 0
  Reuse = FALSE
  Timeouts <- BothOrNone
  Faults = FALSE
SPECIFICATION FairSpec
PROPERTY
  TimedReadEnds
CHECK_DEADLOCK FALSE
