SPECIFICATION ReconcileSpec
CONSTANTS
  NumKeys = 5
  ViewOf <- ViewsOfKeys
  History <- OldRecords
  StartTx = 3
  Deployments <- AnyDeployment
  Reserve = 10
  ToolReserve = 10
  ScanPage = 2
  Strays <- OneOfEach
  Bounds <- PassesOrReaders
  ZscanPage = 2
  Fractions <- TwentyFour
CHECK_DEADLOCK FALSE
INVARIANTS
  TypeOK
  IndexIsCommitOrder
  PassLeavesNoHole
  CleanIsTrue
  FindingsAreReal
PROPERTIES
  SeamHolds
