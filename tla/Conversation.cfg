SPECIFICATION MCSpec
CONSTANTS
  MaxReplies = 2
  MaxUnits = 2
  FirstChunk = 1
  Chunk = 2
  Capacity = 1
  MaxCuts = 1
  SinkFails = TRUE
  OperatorCuts = TRUE
  Reconnects = TRUE
  MaxCalls = 2
  MaxChanges = 2
  MaxPerWindow = 1
CHECK_DEADLOCK FALSE
INVARIANTS MouthAccounts ToolsSound
PROPERTIES FloorSound MindSound CutSilences NoHole
