SPECIFICATION MCSpec
CONSTANTS
  Nouns = {"embody", "daemon"}
  Pids = {1, 2}
  Clients = {"c1", "c2"}
  MaxSpawns = 2
  Operators = {"o1", "o2"}
  Retired = {"live"}
  MaxFailures = 2
  Requests = {"r1", "r2"}
  Qualities = {"good", "refused", "raises"}
  Nobody = Nobody
  MaxBoots = 3
  Shipped <- MCShipped
  Parts <- MCParts
  LayerIds = {8, 9}
  MaxSaves = 1
  MaxRules = 2
  MaxCrashes = 1
  Robots = {"u", "v"}
  Hosts = {1}
  Commands = {"a", "b"}
  MaxMoves = 3
  Docs <- MCDocs
  Addresses = {"1", "2"}
  Writers = {"a", "b"}
  MaxEdits = 1
  MaxFaults = 1
  ClipSeconds = 2
  EncodeEvery = 1
  InboxSize = 1
  RingMax = 3
  MaxTime = 3
  MaxRuns = 2
  MaxBadEncodes = 1
  MaxClients = 3
  MaxRaises = 3
CHECK_DEADLOCK FALSE
INVARIANTS ProcessesSound PresenceSound ForgeSound OverlaySound DiscoverySound ClipSound ClientsSound
PROPERTIES SleepSound
