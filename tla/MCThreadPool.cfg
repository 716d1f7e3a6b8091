\* Up to two threads, shared or own queues, two sessions; t1 is joined.
\* The pool may stop: after the last Destroy, or when Init misses its signal.
CONSTANTS
  t1 = t1
  t2 = t2
  t3 = t3
  j1 = j1
  NoTask = NoTask
  MaxThreads = 2
  MaxSessions = 2
  Task <- TwoTasks
  Steps <- TwoSteps
  Joiner = {j1}
  Target <- JoinFirst
  FaultSets <- SomeFaults
SPECIFICATION FairSpec
INVARIANTS TypeOK NoDanglingPointers JoinsKnownWorkers ProcessOnlyUnfinished
PROPERTIES ImplementsExecutor TaskFinishes DestroyReturns JoinReturns
CHECK_DEADLOCK FALSE
