SPECIFICATION FairSpec
CONSTANTS
  Appointments <- One
  Plates = {p1}
  PlateOf <- PlateOfOne
  Gated <- One
  None = None
  MaxMessages = 2
  MaxErrors = 1
  MaxCrashes = 1
INVARIANTS
  TypeOK
  AdmittedOnce
  InfractionTakesEffectOnce
  AlertedTruckIsFlagged
  AcknowledgedDecisionTookEffect
PROPERTIES
  ImplementsLifecycle
  DecisionsSettle
CHECK_DEADLOCK FALSE
