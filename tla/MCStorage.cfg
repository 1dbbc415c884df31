CONSTANTS
  Holders = {1, 2}
  Duration = 6
  DriftEvery = 4
  RenewBefore = 1
  MaxRequests = 2
  MaxTime = 9
SPECIFICATION SpecSum
CHECK_DEADLOCK FALSE
INVARIANT DeliveredOnce
INVARIANT LogsRecover
INVARIANT AdaptersKeepLogs
INVARIANT OneLeader
INVARIANT RemindersOwed
PROPERTY CallsAreWhole
