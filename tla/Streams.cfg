SPECIFICATION MCSpec
CONSTANTS
  Tees = {"a", "b"}
  Ours = "a"
  Consumers = {"c1", "c2"}
  MaxChunks = 1
  MaxOutbox = 2
  MaxOffers = 3
  MaxAttached = 2
  KeptTurns = 5
  SensesMax = 1
  MinNewTurns = 2
  MaxBacklog = 2
  StaleAfter = 2
  MaxRemembered = 8
  MaxClips = 2
  Rates = {1}
  Configured = 2
  Backoff = 1
  HeaderMax = 2
  RecvMax = 3
  MaxBytes = 5
  MaxConns = 2
  MaxLines = 2
  MaxTurns = 0
  MaxPending = 2
  MaxHeard = 1
  MaxCalls = 2
  Whole = 2
  MaxRounds = 2
  MuteAfter = 2
  HistoryMax = 1
  MaxToolTurns = 2
CHECK_DEADLOCK FALSE
INVARIANTS TeeSound MemorySound LayerSafe TurnSound
PROPERTIES EarsSound StateAgrees EndsWithItsFeed
