CONSTANTS
  Chld = Chld
  Term = Term
  Boss = Boss
  None = None
  Sigs <- TheSigs
  MAX_SIGNAL = 2
  Nests = FALSE
  Procs = 2
  SPE_MAX_WORKER = 2
  MaxForks = 4
  MaxFails = 0
  MaxCrashes = 2
  MaxKills = 0
  MaxCount = 1
SPECIFICATION FairSpec
PROPERTY
  AnnouncedAreReplaced
CHECK_DEADLOCK FALSE
