SPECIFICATION FairSpec
CONSTANTS
  Users = {u1}
  Creator = u1
  Tiers = {"owner", "user"}
  MaxBinding = 1
  None = none
  StreamMayBreak = FALSE
  LoadsMayFail = FALSE
  CallsMayFail = TRUE
  ReadsMayMiss = FALSE
  MaxFaults = 1
CHECK_DEADLOCK FALSE
PROPERTY RevokeRealized
