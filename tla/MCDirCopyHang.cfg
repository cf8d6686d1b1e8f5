CONSTANTS NThreads = 2 NFiles = 3
SPECIFICATION FairSpec
PROPERTIES QueuedFilesAreTaken
CHECK_DEADLOCK FALSE
