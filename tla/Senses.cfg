SPECIFICATION MCSpec
CONSTANTS
  MaxSessions = 3
  MaxStanding = 2
  MaxFaults = 2
  MaxQueue = 2
  FailureLatch = 2
  RetryAfter = 2
  Margin = 1
  Duration = 2
  MaxSays = 3
  MaxMutes = 2
  MaxTime = 4
  Callers = {"p", "q"}
  Texts <- MCTexts
  MaxChars = 3
  Short = 1
  Enough = 2
  Attempts = 2
  MaxText = 5
  Deltas <- MCDeltas
  LooseAbove = 5
  MaxDeltas = 4
  Names <- MCNames
  LockInhibits <- MCLockInhibits
  LockName = "face-lock"
  FaceLostAfter = 2
  MindGrace = 3
  MaxHold = 5
  MaxStep = 2
CHECK_DEADLOCK FALSE
INVARIANTS MediaSound VoiceSound LockSound
PROPERTIES SessionSound NothingHangs SensesSound WatchdogsHonest
