CONSTANTS
  Askers = {1, 2}
  ReplyCells = {1, 2}
  MaxAsks = 3
  Overlap = FALSE
SPECIFICATION SpecSum
CHECK_DEADLOCK FALSE
INVARIANT TimersExact
INVARIANT AskersServed
INVARIANT StreamsFlow
INVARIANT AdmissionExact
INVARIANT FaultsContained
INVARIANT ActivatedOnce
 
INVARIANT DigestsReachAll
PROPERTY NoStepUndoes
