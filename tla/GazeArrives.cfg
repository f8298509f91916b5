SPECIFICATION FairSpec
CONSTANTS
  StillAt = {5, 8}
  FixedAt = {}
  Starts = {0, 6}
  Fov = 34
  DampNum = 7
  DampDen = 10
  MaxYaw = 8
  Slew = 3
  ConvergeEps = 1
  MaxAge = 2
  RecoverAfter = 2
  RecoverRate = 2
  Latency = 1
CHECK_DEADLOCK FALSE
PROPERTY Arrives
