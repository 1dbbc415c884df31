SPECIFICATION SpecPeers
CONSTANTS
  a = a
  b = b
  c = c
  Nodes = {a, b, c}
  None = None
  LeftBand = 100
  ChanCap = 1
  MaxNet = 1
  Setups <- AllSetups
  MaxHs = 2
  MaxSealed = 2
  MaxCuts = 1
  MaxPublish = 1
INVARIANTS
  TableIsSound
  SessionsKeepVerdicts
PROPERTY OnlyNewerNews
