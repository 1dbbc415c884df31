CONSTANTS
  Askers = {1, 2}
  ReplyCells = {1, 2}
  MaxAsks = 3
  Overlap = FALSE
SPECIFICATION SpecOverlapping
CHECK_DEADLOCK FALSE
INVARIANT OneActivation
