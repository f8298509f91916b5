CONSTANTS
  Facts = {"f"}
  Sources = {"peer"}
  Replies = {"r1", "r2"}
  Proactive = FALSE
  Window = 1
  AlertInterval = 2
  RateWindow = 2
  MaxPending = 2
  MaxContext = 1
  MaxScopes = 1
  MaxSpoken = 2
  MaxWanted = 1
  MaxPerWindow = 1
  MaxRounds = 2
  Life = 1
  MaxWords = 2
  MaxEvents = 2
SPECIFICATION Spec
INVARIANT NeverRaises
CHECK_DEADLOCK FALSE
