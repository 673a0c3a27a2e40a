CONSTANTS
  Threads = {t1, t2}
  MaxTrucks = 3
  MaxFrames = 2
  MaxQueue = 2
  BufferSize = 1
  Chars = {a, b}
  MaxLength = 3
  MinTextLength = 1
  DecisionThreshold = 3
  MaxReadings = 6
  Receivers = {r1, r2}
  MaxMessages = 3
  MaxLanded = 3
  MaxResets = 3
  None = None
SPECIFICATION SumSpec
INVARIANTS
  TypesOK
  FramesAreOfThisTruck
  EveryPositionVoted
PROPERTIES
  ColoursAreMonotone
  ImplementsChannel
  WokenForItsTruck
  ScansAgain
CHECK_DEADLOCK FALSE
