CONSTANTS
  None = None
  Trucks = {t1, t2}
  Gates = {g1, g2}
  MainGate = g1
  Plates = {p1}
  Copies = 2
  MaxResults = 3
  MaxFailures = 1
  MaxRestarts = 1
  MaxHour = 1
  ExpirationHours = 1
  A = A
  B = B
  C = C
  Characters <- Letters
  Confused <- Confusions
  MaxLength = 2
  MaxDistance = 1
  MaxSubstitutions = 1
  MaxListed = 2
  Pending = Pending
  NoMatch = NoMatch
  LastTrip = 2
  SourceGate = s1
  OperationalGates = {s1, s2}
  Sockets = {w1}
  Driver = Driver
  MaxMessages = 1
  MaxTripMoves = 2
  Appointments = {a1, a2}
  LastTime = 3
  DelayTolerance = 1
  WaitBounds <- ShortWaits
  PageSize = 1
  MaxMoves = 1
  MaxAnswers = 1
  RolledGates = {g1}
  HoursPerDay = 2
  FirstHour = 3
  LastHour = 4
  DailyHorizon = 1
  HourlyHorizon = 1
  Companies = {c1}
  Period = 2
  MaxEvents = 1
  MaxStarts = 2
  MaxErrors = 1
  Importers = {i1, i2}
  Hauliers = {h1}
  UnknownTruck = h0
  LastSlot = 1
  Window = 0
  NoTime = NoTime
  Closed = Closed
  MaxRows = 3
SPECIFICATION SumSpec
SYMMETRY Symmetric
INVARIANT
  SkippedWasWarned
CHECK_DEADLOCK FALSE
