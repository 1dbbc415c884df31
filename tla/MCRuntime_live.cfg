CONSTANTS
  Workers = {w1, w2}
  Shards = {s1}
  Producers = {x1}
  Backstop = backstop
  None = none
  Stub = stub
  Item = item
  SpinsOut = FALSE
  MayStop = TRUE
  Steal = FALSE
  MaxPosts = 2
  MaxGen = 0
  quiescer = quiescer
  sibling = sibling
  p1 = p1
  p2 = p2
  w = w
  c1 = c1
  c2 = c2
  deact = deact
CHECK_DEADLOCK FALSE
SPECIFICATION SpecLive
INVARIANT
  SleepersHaveNoWork
PROPERTIES
  WorkIsTakenUp
  EndsAreReached
