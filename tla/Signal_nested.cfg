CONSTANTS
  chld = chld
  term = term
  int = int
  Sigs <- ThreeSigs
  MAX_SIGNAL = 3
  None = None
  Nests = TRUE
  MaxCount = 1
SYMMETRY Symmetry
SPECIFICATION Spec
INVARIANTS
  TypeOK
  QueueHoldsOnce
  LostOnlyOvertaken
CHECK_DEADLOCK FALSE
