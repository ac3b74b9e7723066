SPECIFICATION Spec
CONSTANTS
  a1 = a1
  a2 = a2
  Clients <- MCClients
  Rps = 2
  IdleLimit = 3
INVARIANTS
  TypeOK
  EntriesAreForgotten
PROPERTIES
  ActsAsBucket
