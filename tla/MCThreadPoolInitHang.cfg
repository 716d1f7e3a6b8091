\* No faults: Init may still wait for ever.
CONSTANTS
  t1 = t1
  t2 = t2
  t3 = t3
  j1 = j1
  NoTask = NoTask
  MaxThreads = 2
  MaxSessions = 1
  Task <- TwoTasks
  Steps <- TwoSteps
  Joiner = {j1}
  Target <- JoinFirst
  FaultSets = {{}}
SPECIFICATION FairSpec
PROPERTY InitEventuallyReturns
CHECK_DEADLOCK FALSE
