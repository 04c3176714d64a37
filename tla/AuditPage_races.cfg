SPECIFICATION Spec
CONSTANTS
  NumCalls = 3
  Mediated = {3}
  Old = {1, 2}
  Reserve = 1
  Requests <- AnyPage
  MaxScanLimit = 4
  FaultScan = 1
  MaxTx = 4
  MaxFaults = 2
  MaxErasures = 1
  MaxDeleted = 1
  MaxDisplaced = 1
CHECK_DEADLOCK FALSE
INVARIANTS
  TypeOK
  
  
  PayloadIsTrue
  
  OrderIsVouchedFor
