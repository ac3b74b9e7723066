SPECIFICATION FairDeadlinesSpec
CONSTANTS
  p1 = p1
  p2 = p2
  Pods <- MCPods
  ListTicks = 3
  RetryTicks = 1
  DbTicks = 1
  WorkTicks = 1
  BaseBackoff = 2
  MaxBackoff = 12
  StaleThreshold = 6
INVARIANTS
  TypeOK
  SavedIsWhole
  SavedIsShown
  StampsInTime
  RecoversInTime
  StopsInTime
PROPERTIES
  KeepsPromise
  Recovers
  StopsOnCancel
