SPECIFICATION Spec
CONSTANTS
  r1 = r1
  r2 = r2
  r3 = r3
  r4 = r4
  Request = {r1, r2, r3, r4}
  Scenarios <- OnlyPair
  MaxVersion = 3
CHECK_DEADLOCK FALSE
INVARIANTS
  NoTamperClaimOnHonestLedger
