CONSTANTS
  a = a
  b = b
  c = c
  d = d
  K = 3
  M = 2
  Producers = {p1, p2}
  Descriptors = {d1, d2, d3}
  Stub = stub
  None = none
SPECIFICATION SpecQueues
PROPERTY RefinesMpscQueue
PROPERTY QueuesDeliver
