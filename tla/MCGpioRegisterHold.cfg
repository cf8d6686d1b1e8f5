SPECIFICATION MCSpec
CONSTANTS
  p1 = p1
  p2 = p2
  Procs <- MCProcs
  Users <- MCProcs
  Boards <- KeyBoard
  Pins <- MCPins
  MaxCalls = 4
  W = 1
  A = 2
  D = 2
  B = 4
  K = 2
  Channels = {}
  Times = {}
  Modes = {}
  Gains = {}
  MaxCtlCalls = 0
  MaxFails = 0
INVARIANTS HeldHigh
CHECK_DEADLOCK FALSE
