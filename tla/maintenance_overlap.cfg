SPECIFICATION MaintenanceSpec
CONSTANTS
  Runs = {r1, r2, r3}
  Overlapping = TRUE
  LoopPanics = FALSE
SYMMETRY Symmetry
INVARIANT AtMostOneLoop
CHECK_DEADLOCK FALSE
