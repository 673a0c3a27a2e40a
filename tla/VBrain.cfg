SPECIFICATION FairSpec
CONSTANTS
  Trucks = {t1, t2}
  None = None
  MaxFailures = 1
  MaxCrashes = 1
INVARIANTS TypeOK SliceUpWhileNeeded OneResetUnlessRaced
PROPERTIES DetectedTruckIsReset
CHECK_DEADLOCK FALSE
