CONSTANTS
  Substance = {"active"}
  Riders = {"intents"}
  Values = {"v1", "v2"}
  MaxChanges = 1
  MaxSessions = 1
  MaxFailures = 0
  RefusesWhileUp = TRUE
  ShortOutages = FALSE
  Threads = {"tick"}
SPECIFICATION Spec
INVARIANTS RecordedMeansRetained

CHECK_DEADLOCK FALSE
