SPECIFICATION HandsSpec
CONSTANTS
  MaxCalls = 2
  MaxChanges = 2
  MaxPerWindow = 1
CHECK_DEADLOCK FALSE
INVARIANT SameRefusals
