SPECIFICATION Spec
CONSTANTS
  Names = {n1}
  Images = {i1}
  NumSteps = 2
  Identity = 0
  Routed = TRUE
  LateBound = FALSE
  AuthorUntil = 2
  MaxGeneration = 3
  RpcMayFail = FALSE
  StreamMayBreak = FALSE
  RestartUntil = 0
  StepsMayFail = FALSE
  TrustDrift = FALSE
  MayBeUnready = TRUE
  MayDelete = FALSE
INVARIANT ShownWorkloadExists
