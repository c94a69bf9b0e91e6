SPECIFICATION FairSpec
CONSTANTS
  Names = {n1}
  Images = {i1}
  NumSteps = 2
  Identity = 0
  Routed = FALSE
  LateBound = FALSE
  AuthorUntil = 2
  MaxGeneration = 3
  RpcMayFail = FALSE
  StreamMayBreak = FALSE
  RestartUntil = 0
  StepsMayFail = TRUE
  TrustDrift = TRUE
  MayBeUnready = FALSE
  MayDelete = FALSE
PROPERTY ReadyIsShownRunning
