SPECIFICATION FairSpec
CONSTANTS
  Names = {n1}
  Images = {i1}
  NumSteps = 2
  Identity = 0
  Routed = FALSE
  LateBound = FALSE
  AuthorUntil = 2
  MaxGeneration = 3
  RpcMayFail = TRUE
  StreamMayBreak = TRUE
  RestartUntil = 0
  StepsMayFail = FALSE
  TrustDrift = FALSE
  MayBeUnready = FALSE
  MayDelete = FALSE
PROPERTY Converges
CHECK_DEADLOCK FALSE
