\* pthread_create may fail, or the wait of Init end without a signal.
CONSTANTS
  t1 = t1
  t2 = t2
  t3 = t3
  j1 = j1
  NoTask = NoTask
  MaxThreads = 2
  MaxSessions = 1
  Task <- TwoTasks
  Steps <- TwoSteps
  Joiner = {j1}
  Target <- JoinFirst
  FaultSets <- InitFaults
SPECIFICATION Spec
INVARIANT InitWaitsForWorkers
CHECK_DEADLOCK FALSE
