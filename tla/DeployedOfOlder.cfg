SPECIFICATION Spec
CONSTANTS
  Names = {n1}
  Images = {i1, i2}
  NumSteps = 2
  Identity = 0
  Routed = FALSE
  LateBound = FALSE
  AuthorUntil = 2
  MaxGeneration = 3
  RpcMayFail = FALSE
  StreamMayBreak = FALSE
  RestartUntil = 0
  StepsMayFail = FALSE
  TrustDrift = FALSE
  MayBeUnready = FALSE
  MayDelete = FALSE
INVARIANT DeployedMeansApplied
