SPECIFICATION FairSpec
CONSTANTS
  Producers = {p}
  Carriers = {c}
  Monitors = {w}
  Msgs = {q, m, n}
  Quiescers = {q}
  Faulty = {q}
  Stubborn = {}
  None = None
  Cap = 2
  Budget = 2
  Policies = {"Restart"}
  RestartLimits = {1}
  MaxAwaits = 2
  MaxPauses = 0
  MaxStops = 0
INVARIANT ReentrantSafe
PROPERTY ReentrantProgress
CHECK_DEADLOCK FALSE
