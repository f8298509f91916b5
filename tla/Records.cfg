SPECIFICATION MCSpec
CONSTANTS
  Clients = {"c1", "c2"}
  MaxLives = 3
  Fields <- MCFields
  Senses <- MCSenses
  Foreign <- MCForeign
  BehaviorNames <- MCNames
  ModeNames <- MCModes
  Shipped <- MCShipped
  Overlays <- MCOverlays
  MaxStep = 1
  AgeCap = 2
  CountCap = 2
  Period = 1
  Heartbeat = 2
  TTL = 15
  Skew = 1
  CalmToClose = 2
  MaxErrors = 2
  MaxWork = 1
  MaxSeam = 2
  MaxOver = 1
  MaxUptime = 18
  MaxOverruns = 2
  MaxTicks = 1
CHECK_DEADLOCK FALSE
INVARIANTS RulesSound LoopSound PartsReleased
PROPERTIES AllGetsThrough SpoolSound
