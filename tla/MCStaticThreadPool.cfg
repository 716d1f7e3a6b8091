\* Up to three workers, two runs, two sessions; threads may not be created.
\* The client may stop after the last Destroy.
CONSTANTS
  MaxThreads = 3
  MaxRuns = 2
  MaxSessions = 2
  FaultSets <- SomeFaults
SPECIFICATION FairSpec
INVARIANT TypeOK
PROPERTIES FuncUnusedWhenAssigned  RunReturns DestroyReturns
CHECK_DEADLOCK FALSE
