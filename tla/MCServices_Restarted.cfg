CONSTANTS
  Askers = {1, 2}
  ReplyCells = {1, 2}
  MaxAsks = 3
  Overlap = FALSE
SPECIFICATION SpecRestarted
CHECK_DEADLOCK FALSE
PROPERTY RestartKeepsSnapshot
