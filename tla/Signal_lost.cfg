CONSTANTS
  chld = chld
  term = term
  int = int
  Sigs <- TwoSigs
  MAX_SIGNAL = 3
  None = None
  Nests = TRUE
  MaxCount = 1
SPECIFICATION Spec
INVARIANT
  CaughtIsQueued
CHECK_DEADLOCK FALSE
