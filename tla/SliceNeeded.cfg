SPECIFICATION Spec
CONSTANTS
  Trucks = {t1, t2}
  None = None
  MaxFailures = 0
  MaxCrashes = 0
INVARIANTS
  NeverScaledDownWhileNeeded
CHECK_DEADLOCK FALSE
