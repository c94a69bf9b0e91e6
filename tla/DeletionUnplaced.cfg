SPECIFICATION Spec
CONSTANTS
  Names = {n1}
  Images = {i1, i2}
  NumSteps = 2
  Identity = 0
  Routed = FALSE
  LateBound = TRUE
  AuthorUntil = 2
  MaxGeneration = 3
  RestartUntil = 0
  RpcMayFail = FALSE
  StreamMayBreak = FALSE
  StepsMayFail = FALSE
  TrustDrift = FALSE
  MayBeUnready = FALSE
  MayDelete = TRUE
INVARIANT TornDownWherever
CHECK_DEADLOCK FALSE
