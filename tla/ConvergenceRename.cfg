SPECIFICATION Spec
CONSTANTS
  Names = {n1, n2}
  Images = {i1}
  NumSteps = 2
  Identity = 0
  Routed = FALSE
  LateBound = TRUE
  AuthorUntil = 2
  MaxGeneration = 3
  RpcMayFail = FALSE
  StreamMayBreak = FALSE
  RestartUntil = 0
  StepsMayFail = FALSE
  TrustDrift = TRUE
  MayBeUnready = FALSE
  MayDelete = FALSE
PROPERTY RenameTouchesNameOnly
