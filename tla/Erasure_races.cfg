SPECIFICATION Spec
CONSTANTS
  e1 = e1
  e2 = e2
  a1 = a1
  Eraser = {e1, e2}
  Author = {a1}
  Faults = TRUE
  Lag = TRUE
CHECK_DEADLOCK FALSE
INVARIANTS
  TypeOK
  OwnTombstone
PROPERTIES
  RowDeletedHasTombstone
