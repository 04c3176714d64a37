SPECIFICATION FairSpec
CONSTANTS
  c1 = c1
  c2 = c2
  NoCall = NoCall
  Call = {c1, c2}
  Mixes <- VaultAndAny
  MaxCrashes = 1
CHECK_DEADLOCK FALSE
INVARIANTS
  TypeOK
  ExecutionIsVisible
  ApprovalIsTrue
  AnswerIsRecorded
  RecordedContentStored
PROPERTIES
  HungToolDelaysNobody
