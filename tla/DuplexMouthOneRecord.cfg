CONSTANTS
  MaxReplies = 2
  MaxUnits = 3
  FirstChunk = 1
  Chunk = 2
  Capacity = 2
  MaxCuts = 2
  SinkFails = FALSE
  OperatorCuts = FALSE
  Reconnects = FALSE
SPECIFICATION Spec
INVARIANT OneRecord
CHECK_DEADLOCK FALSE
