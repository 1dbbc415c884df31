CONSTANTS
  Producers = {p1, p2}
  Workers = {w1, w2}
  Carriers = {c1}
  Msgs = {m1, m2}
  Deact = deact
  None = none
  Budget = 2
  MaxAwaits = 1
  Decisions = {"Stop"}
SPECIFICATION OnceSpec
SYMMETRY Symmetry
INVARIANTS
  TypeOK
  SingleExecutor
  ScheduledOnce
  NoLostWakeup
  EachOnce
