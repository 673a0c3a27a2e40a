SPECIFICATION FairSpec
CONSTANTS
  Appointments <- One
  Plates = {p1}
  PlateOf <- PlateOfOne
  Gated <- One
  None = None
  MaxMessages = 2
  MaxErrors = 0
  MaxCrashes = 1
PROPERTIES
  RejectedDoesNotAdmit
CHECK_DEADLOCK FALSE
