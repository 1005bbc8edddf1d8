SPECIFICATION FairSpec
CONSTANTS
  Tasks = {t1, t2}
  None = None
  MaxTasks = 1
  MaxWorkers = 1
  ResultTTL = 1
  MaxTime = 2
INVARIANT TypeOK
INVARIANT LiveTasksAreKept
PROPERTY ResultsAreRetained
PROPERTY ImplementsLifecycle
PROPERTY TasksEnd
