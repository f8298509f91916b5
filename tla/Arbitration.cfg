SPECIFICATION MCSpec
CONSTANTS
  Channels = {"head", "antennas"}
  Names <- MCNames
  BaseName = "feel-alive"
  Catalog <- MCCatalog
  Durations <- MCDurations
  MaxAdmit = 3
  MaxStep = 2
  Library <- MCLibrary
  LockName = "face-lock"
  LockInhibits = {"orient-to-sound"}
  Runnable <- MCRunnable
  GoalNames = {"orient-to-sound", "feel-alive"}
  RuleNames = {"orient-to-sound", "nod"}
  Commanded <- MCRunnable
  IntentDurations = {1}
  MaxActive = 2
  Specs <- MCSpecs
  Rivals <- MCRivals
  RivalTimes <- MCRivalTimes
  MaxGotos = 2
  MaxRivals = 2
  MaxLaneStep = 2
INVARIANTS BaseLayerSound IntentsSound LaneSound
PROPERTIES OrientSound ChannelsSound EveryGotoEnds ContractHeld
VIEW View
