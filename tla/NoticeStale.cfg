SPECIFICATION Spec
CONSTANTS
  None = None
  Version = {v1, v2}
  Linked = {v1, v2}
  MaxTasks = 2
  MaxTrouble = 0
INVARIANT NothingStaleShows
CHECK_DEADLOCK FALSE
