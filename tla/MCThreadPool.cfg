CONSTANTS NThreads = 3 NTasks = 3 DestroyCalls = 2 MaxSpurious = 1
SPECIFICATION FairSpec
INVARIANTS NodesOwnedOnce PoolOutlivesWorkers NothingLeaked AsleepOnlyWhenIdle
PROPERTIES TasksStart DestroyReturns ImplementsTaskPool
CHECK_DEADLOCK FALSE
