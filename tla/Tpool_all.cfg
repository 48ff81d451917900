CONSTANTS
  s1 = s1
  s2 = s2
  NumThreads = 2
  Submitters <- TwoSubmitters
  Free = Free
  None = None
  MaxJobs = 3
  MaxFails = 1
SPECIFICATION Spec
INVARIANTS
  TypeOK
  ThreadsInOnePlace
  HandlersKept
  SoundWhileServing
PROPERTIES
  AcceptedRuns
CHECK_DEADLOCK FALSE
