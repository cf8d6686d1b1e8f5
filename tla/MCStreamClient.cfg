CONSTANTS
  Programs = {"command", "select", "single", "file"}
  N = 2
  Lens <- TwoVideos
  ImageSize = 2
  AckSize = 2
  Limits = {4, 8}
  MaxFrames = 2
  MaxSessions = 2
  MaxCommands = 3
SPECIFICATION FairSpec
INVARIANTS FilesHoldStream FileHoldsContents CommandsAfterConnect PhotosHoldImages
PROPERTY StopEnds
\* The programs end, or wait for a camera that sends nothing more.
CHECK_DEADLOCK FALSE
