CONSTANTS NThreads = 2 NTasks = 2 DestroyCalls = 1 MaxSpurious = 0
SPECIFICATION FairSpec
PROPERTIES ShutdownReachesAll
CHECK_DEADLOCK FALSE
