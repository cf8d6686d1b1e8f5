SPECIFICATION MCSpec
CONSTANTS
  Programs = {"camera1", "camera2", "camera3", "camera4", "camera6"}
  MaxBuffers = 2
  MaxTries = 2
  MaxFrames = 4
  MaxSignals = 2
  Clients = {"c1", "c2"}
  Commands = {1, 4, 7}
  MaxSends = 3
  Values <- MCValues
  Names = {"SSID", "AUTH_KEY"}
  MaxLines = 2
  MaxCalls = 2
  MaxStops = 1
INVARIANTS PictureIsWhole EditsRead WifiSurvives
PROPERTIES GrabEnds Answered
\* The programs end, or wait in VIDIOCSYNC; the server exits or waits for clients.
CHECK_DEADLOCK FALSE
