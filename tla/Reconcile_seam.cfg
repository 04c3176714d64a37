SPECIFICATION ReconcileSpec
CONSTANTS
  NumKeys = 5
  ViewOf <- ViewsOfKeys
  History <- OldRecords
  StartTx = 3
  Deployments <- OnlyFresh
  Reserve = 10
  ToolReserve = 10
  ScanPage = 2
  Strays <- OneOfEach
  Bounds <- OnlyReaders
  ZscanPage = 2
  Fractions <- TwentyFour
CHECK_DEADLOCK FALSE
INVARIANTS
  DuplicatedIsTwice
