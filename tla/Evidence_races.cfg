SPECIFICATION FairSpec
CONSTANTS
  i1 = i1
  i2 = i2
  i3 = i3
  Record = {i1, i2, i3}
  Body <- Bodies
  Junk = Junk
  Absent = Absent
  Config <- Documents
  AnchorKey = "anchor key"
  Inventories <- Auditors
  Scenarios <- FaultOrTwo
INVARIANTS
  TypeOK
  RowIsLogged
  ExportedIsVerifiable
  
  VerifiedIsTrue
  AnchorIsNotDropped
PROPERTY
  HeadIsAnchored
