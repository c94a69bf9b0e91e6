SPECIFICATION FairSpec
CONSTANTS
  Users = {u1}
  Creator = u1
  Tiers = {"owner", "user"}
  MaxBinding = 2
  None = none
  StreamMayBreak = TRUE
  LoadsMayFail = TRUE
  CallsMayFail = TRUE
  ReadsMayMiss = TRUE
  MaxFaults = 1
CHECK_DEADLOCK FALSE
INVARIANTS TypeOK WipeIsProven
PROPERTY GrantRealized
