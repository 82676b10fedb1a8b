SPECIFICATION ServicesSpec
CONSTANTS
  Runs = {r1, r2, r3}
  Overlapping = FALSE
  LoopPanics = TRUE
  Handles = {h1, h2}
  Capacity = 2
  MaxSends = 2
  Panics = TRUE
INVARIANTS
  AtMostOneLoop
  ClosedMeansStartable
  ReportAddsUp
  FinishDrains
  InOrder
  StopIsPrompt
PROPERTIES
  ShutdownReturns
  LoopEndsWithEngine
  SendersReleased
  OwnerReturns
CHECK_DEADLOCK FALSE
