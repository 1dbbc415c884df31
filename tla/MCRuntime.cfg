CONSTANTS
  Workers = {w1, w2}
  Shards = {s1}
  Producers = {x1}
  Backstop = backstop
  None = none
  Stub = stub
  Item = item
  SpinsOut = TRUE
  MayStop = FALSE
  Steal = TRUE
  MaxPosts = 2
  MaxGen = 2
  quiescer = quiescer
  sibling = sibling
  p1 = p1
  p2 = p2
  w = w
  c1 = c1
  c2 = c2
  deact = deact
SPECIFICATION SpecRuntime
SYMMETRY Symmetry
INVARIANTS
  SchedulerSafe
  LaneSafe
