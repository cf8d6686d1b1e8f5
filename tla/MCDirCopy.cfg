CONSTANTS NThreads = 3 NFiles = 3
SPECIFICATION FairSpec
INVARIANTS BarrierHolds 
PROPERTIES Terminates
CHECK_DEADLOCK FALSE
