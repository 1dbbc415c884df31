CONSTANTS
  Producers = {p1}
  Workers = {w1}
  Carriers = {c1, c2}
  Msgs = {m1}
  Deact = deact
  None = none
  Budget = 1
  MaxAwaits = 2
  Decisions = {"Resume"}
SPECIFICATION Spec
INVARIANT ReclaimedOnce
