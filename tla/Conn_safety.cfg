CONSTANTS
  BUF_SIZE = 2
  SndBuf = 1
  Delims <- Second
  MaxSent = 2
  MaxWritten = 2
  Reuse = TRUE
  Timeouts <- BothOrNone
  Faults = TRUE
SPECIFICATION Spec
INVARIANTS
  TypeOK
  RegistrationMatches
  NoneForgotten
  TasksBelong
  StreamIntact
  ReadKeepsItsWord
CHECK_DEADLOCK FALSE
