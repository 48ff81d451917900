CONSTANTS
  t1 = t1
  t2 = t2
  listen = listen
  Tasks <- MCTasks
  Fast <- MCFast
  Loop = Loop
  ExpireMod = 2
  StartTime = 0
  MaxNow = 2
  MaxMs = 1
  MaxCalls = 1
  MaxDepth = 1
SPECIFICATION FairSpec
INVARIANTS
  TypeOK
  QueuesInOrder
  HandlersDoNotNest
  TimeoutTellsCause
PROPERTIES
  TimersOnTime
  QueuedTaskRuns
  TimerFires
