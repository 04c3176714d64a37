SPECIFICATION Spec
CONSTANTS
  NumCalls = 4
  Mediated = {3}
  Old = {1, 2}
  Reserve = 1
  Requests <- PageOfOne
  MaxScanLimit = 4
  FaultScan = 1
  MaxTx = 4
  MaxFaults = 0
  MaxErasures = 1
  MaxDeleted = 1
  MaxDisplaced = 0
CHECK_DEADLOCK FALSE
INVARIANTS
  UnknownIsUnrecorded
