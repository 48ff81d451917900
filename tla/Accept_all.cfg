CONSTANTS
  w1 = w1
  w2 = w2
  w3 = w3
  Workers <- TwoWorkers
  NumServers = 2
  Free = Free
  Gone = Gone
  MaxClients = 2
  MaxCrashes = 1
  MaxFails = 1
SPECIFICATION FairSpec
INVARIANTS
  TypeOK
  HoldMeansLocked
  OneAtATime
PROPERTY
  AcceptedUnlessLocked
CHECK_DEADLOCK FALSE
