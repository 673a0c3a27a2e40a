CONSTANTS
  Trucks = {t1, t2}
  Gates = {g1}
  MainGate = g1
  Plates = {p1}
  None = None
  Copies = 1
  MaxResults = 2
  MaxFailures = 0
  MaxRestarts = 0
  MaxHour = 2
  ExpirationHours = 1
SPECIFICATION Spec
PROPERTIES
  StaleResultsExpire
CHECK_DEADLOCK FALSE
