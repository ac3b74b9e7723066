SPECIFICATION FairSpec
CONSTANTS
  w = w
  h1 = h1
  h2 = h2
  Worker = w
  Clients <- MCClients
  MaxFailures = 2
  ResetTimeout = 1
  FailureCap = 3
INVARIANTS
  TypeOK
  StateTracksFailures
  HalfOpenHasTrial
PROPERTIES
  KeepsPromise
  Recovers
  OutageTrips
