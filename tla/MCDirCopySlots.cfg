CONSTANTS NThreads = 2 NFiles = 2
SPECIFICATION Spec
INVARIANTS CompletedMeansCopied
CHECK_DEADLOCK FALSE
