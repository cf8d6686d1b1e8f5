SPECIFICATION MCSpec
CONSTANTS
  p1 = p1
  p2 = p2
  Procs <- MCProcs
  Users <- MCProcs
  Boards <- MCBoards
  Pins <- MCPins
  MaxCalls = 5
  W = 1
  A = 2
  D = 2
  B = 4
  K = 2
  Channels = {"green1", "red"}
  Times = {3, 9}
  Modes = {0, 3}
  Gains <- OneBit
  MaxCtlCalls = 2
  MaxFails = 1
SYMMETRY Symmetric
INVARIANTS GainsArrive AnswersTrue
PROPERTIES OnlyActivePinsChange PulseEndsHigh OopsOnlyUnmapped
CHECK_DEADLOCK FALSE
