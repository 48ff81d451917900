CONSTANTS
  Chld = Chld
  Term = Term
  Boss = Boss
  None = None
  Sigs <- TheSigs
  MAX_SIGNAL = 2
  Nests = FALSE
  Procs = 2
  SPE_MAX_WORKER = 2
  MaxForks = 4
  MaxFails = 1
  MaxCrashes = 2
  MaxKills = 1
  MaxCount = 1
SPECIFICATION FairSpec
INVARIANTS
  TypeOK
  TableFollows
  EndsFollow
PROPERTIES
  UsesSignals
  WorkersFollowMaster
  StopsWhenAsked
CHECK_DEADLOCK FALSE
