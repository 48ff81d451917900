CONSTANTS
  t1 = t1
  t2 = t2
  listen = listen
  Tasks <- MCTasks
  Fast <- MCFast
  Loop = Loop
  ExpireMod = 8
  StartTime = 8
  MaxNow = 9
  MaxMs = 1
  MaxCalls = 1
  MaxDepth = 1
SYMMETRY Symmetry
SPECIFICATION Spec
PROPERTY
  NoEarlyExpiry
