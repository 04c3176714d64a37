SPECIFICATION Spec
CONSTANTS
  e1 = e1
  e2 = e2
  a1 = a1
  Eraser = {e1}
  Author = {}
  Faults = TRUE
  Lag = TRUE
CHECK_DEADLOCK FALSE
INVARIANTS
  RefusalLeavesNoTombstone
