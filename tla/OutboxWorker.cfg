SPECIFICATION FairSpec
CONSTANTS
  Appointments = {a1}
  Reviews = {r1}
  RowIds <- Rows2
  MaxRetries = 2
  BatchSize = 2
  None = None
  MaxCrashes = 1
  MaxReads = 1
  MaxAmendments = 1
  Announced = {"AlertCreated"}
INVARIANTS
  TypeOK
  PublishedIsProjected
  NoStrandedRow
  CacheFollowsOutbox
  ResolvedReviewEvictedInOrder
PROPERTIES
  ImplementsDelivery
  RowsSettle
CHECK_DEADLOCK FALSE
