CONSTANTS
  Drivers = {d1, d2}
  SyncedDrivers = {d3}
  DefaultPassword = {d3}
  Workers = {w1, w2}
  Emails = {e1, e2}
  Images = {i1}
  Appointments = {1, 2}
  Requests = {r1, r2}
  MaxRequests = 3
  MaxMoves = 2
  None = None
SPECIFICATION SumSpec
INVARIANTS
  TypesOK
  ActiveCacheFollows
  ErasedDriverClaimsNothing
  ProfileIsUnique
PROPERTY
  OwnerNeverChanges
SYMMETRY Symmetry
CHECK_DEADLOCK FALSE
